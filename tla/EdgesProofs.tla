----------------------------- MODULE EdgesProofs -----------------------------
(***************************************************************************)
(* Proofs about the edges of the gateway, one part after the other: the    *)
(* credentials of Teams, the connections at /ws, the listener of Telegram, *)
(* the webhooks, the way of a reply, the rate limiter, the adapters of     *)
(* Slack and of WhatsApp, the listeners of Discord, Signal and Matrix, a   *)
(* Signal session and the connection of WhatsApp; then the types of all.   *)
(* Every part has an invariant of its own; that the parts share no state   *)
(* but the clock of the limiter and of the connections is the first lemma. *)
(***************************************************************************)
EXTENDS Edges, Sums

\* A step of the edges is a step of each part, or leaves it alone.
LEMMA Steps ==
    ASSUME [EdgesNext]_edgeVars
    PROVE  /\ [L!Next]_(L!vars) /\ [W!Next]_(W!vars) /\ [H!Next]_(H!vars)
           /\ [T!Next]_(T!vars) /\ [SS!Next]_(SS!vars) /\ [NS!Next]_(NS!vars)
           /\ [RP!Next]_(RP!vars)
  <1>. USE DEF EdgesNext, edgeVars, gates, adapters, ciphers, answers, Gate, Adapter,
               limiter, sockets, hooks, teams, session, noise
  <1>1. CASE UNCHANGED edgeVars
    BY <1>1 DEF L!vars, W!vars, H!vars, T!vars, SS!vars, NS!vars, NS!client, RP!vars
  <1>2. CASE EdgesNext
    <2>1. [T!Next]_(T!vars) /\ [H!Next]_(H!vars)
      BY <1>2 DEF T!vars, H!vars
    <2>2. [SS!Next]_(SS!vars) /\ [NS!Next]_(NS!vars) /\ [RP!Next]_(RP!vars)
      BY <1>2 DEF SS!vars, NS!vars, RP!vars, NS!client
    <2>3. [L!Next]_(L!vars)
      BY <1>2 DEF L!vars, W!Next, W!Accept, W!Open, W!Loop, W!Message, W!Answered, W!Close,
                  W!Panic, W!Tick, L!Next, L!Tick
    <2>4. [W!Next]_(W!vars)
      BY <1>2 DEF W!vars, L!Next, L!Check, L!ReadClock, L!Tick, W!Next, W!Tick
    <2>. QED  BY <2>1, <2>2, <2>3, <2>4
  <1>. QED  BY <1>1, <1>2

\* What acts, and whether calls overlap, stays as it is chosen.
LEMMA Choice == ASSUME [EdgesNext]_edgeVars PROVE UNCHANGED <<part, overlap>>
  BY DEF EdgesNext, edgeVars

\* The part that was chosen takes the steps of its listener.
LEMMA ListenerSteps ==
    ASSUME [EdgesNext]_edgeVars
    PROVE  /\ part = "telegram" => [TG!Next]_(TG!tgVars)
           /\ part = "discord" => [DC!Next]_(DC!dcVars)
           /\ part = "slack" => [SL!Next]_(SL!slVars)
           /\ part = "matrix" => [MX!Next]_(MX!mxVars)
           /\ part = "signal" => [SG!Next]_(SG!sgVars)
           /\ part = "whatsapp" => [WA!Next]_(WA!waVars)
  <1>. USE DEF edgeVars, adapters, chat, polls, streams, slack, matrix, signal, native
  <1>1. CASE UNCHANGED adapters
    BY <1>1 DEF TG!tgVars, TG!shared, DC!dcVars, DC!shared, SL!slVars, SL!shared, SL!conn,
                MX!mxVars, MX!shared, SG!sgVars, SG!shared, WA!waVars, WA!shared
  <1>2. CASE Adapter
    BY <1>2 DEF Adapter
  <1>3. UNCHANGED adapters \/ Adapter
    BY DEF EdgesNext
  <1>. QED  BY <1>1, <1>2, <1>3

\* The operators on finite sets that an instance brings along.
LEMMA InstanceSets ==
    /\ \A S : W!IsFiniteSet(S) <=> IsFiniteSet(S)
    /\ \A S : W!Cardinality(S) = Cardinality(S)
    /\ \A S : L!IsFiniteSet(S) <=> IsFiniteSet(S)
    /\ \A S : L!Cardinality(S) = Cardinality(S)
  <1>1. \A S : W!IsFiniteSet(S) <=> IsFiniteSet(S)
    BY DEF W!IsFiniteSet, IsFiniteSet
  <1>2. \A S : W!Cardinality(S) = Cardinality(S)
    BY DEF W!Cardinality, Cardinality
  <1>3. \A S : L!IsFiniteSet(S) <=> IsFiniteSet(S)
    BY DEF L!IsFiniteSet, IsFiniteSet
  <1>4. \A S : L!Cardinality(S) = Cardinality(S)
    BY DEF L!Cardinality, Cardinality
  <1>. QED  BY <1>1, <1>2, <1>3, <1>4

-----------------------------------------------------------------------------
(* The credentials of Teams.                                               *)

ValidAt(t) == t.pc = "holding" /\ Slow <= Margin /\ Margin < Life => t.at < t.issued + Life
KeptAt(t)  == t.pc = "holding" => t.at - t.issued <= TTL + Slow

\* A fetch under way was issued when it began, no longer ago than a fetch takes.
Underway(t) == t.pc = "fetching" => t.issued = t.at /\ t.at <= time /\ time - t.at <= Slow

TokenTaskInv   == \A r \in Replies  : reply[r] # None => Underway(reply[r]) /\ ValidAt(reply[r])
KeyTaskInv == \A r \in Requests : verification[r] # None => Underway(verification[r]) /\ KeptAt(verification[r])

\* CredentialsFresh is not inductive: what is handed out comes from the caches,
\* and these were written by fetches that may have begun before one another.
TokenInv == token # None /\ Margin < Life => token.expires <= token.issued + Slow + Life - Margin
KeysInv  == keys # None => keys.fetched - keys.issued <= Slow

CacheInv == T!TypeOK /\ TokenTaskInv /\ KeyTaskInv /\ TokenInv /\ KeysInv

LEMMA CacheInit == ASSUME T!TeamsCredentialsAssumption, T!Init PROVE CacheInv
  BY DEF T!TeamsCredentialsAssumption, T!Init, CacheInv, T!TypeOK, TokenTaskInv, KeyTaskInv, TokenInv, KeysInv

\* What a task begins to fetch, or is handed.
LEMMA TaskTypes ==
    ASSUME T!TeamsCredentialsAssumption, time \in 0..LastTime, NEW i \in 0..LastTime
    PROVE  /\ T!Fetching(time) \in T!Task /\ Underway(T!Fetching(time))
           /\ ValidAt(T!Fetching(time)) /\ KeptAt(T!Fetching(time))
           /\ T!Holding(i) \in T!Task /\ Underway(T!Holding(i))
           /\ T!Holding(i).pc = "holding" /\ T!Holding(i).at = time /\ T!Holding(i).issued = i
  BY DEF T!TeamsCredentialsAssumption, T!Fetching, T!Holding, T!Task, Underway, ValidAt, KeptAt

\* A task and a cache in the types of which the argument speaks.
LEMMA CacheTypes ==
    ASSUME T!TeamsCredentialsAssumption, T!TypeOK
    PROVE  /\ time \in Nat /\ {Life, Margin, TTL, Slow, LastTime} \subseteq Nat
           /\ \A r \in Replies : reply[r] # None => reply[r] \in T!Task
           /\ \A r \in Requests : verification[r] # None => verification[r] \in T!Task
           /\ token # None => token \in [issued : 0..LastTime, expires : 0..(LastTime + Life)]
           /\ keys # None => keys \in [issued : 0..LastTime, fetched : 0..LastTime]
  BY DEF T!TeamsCredentialsAssumption, T!TypeOK

\* The token: from the cache, or by a fetch that may have been overtaken.
LEMMA TokenStep ==
    ASSUME T!TeamsCredentialsAssumption, CacheInv, NEW r \in Replies, T!GetToken(r) \/ T!TokenArrives(r)
    PROVE  CacheInv'
  <1>. USE DEF CacheInv
  <1>1. UNCHANGED <<time, keys, verification>>
    BY DEF T!GetToken, T!TokenArrives
  <1>2. KeyTaskInv' /\ KeysInv'
    BY <1>1 DEF KeyTaskInv, KeysInv, Underway, KeptAt
  <1>3. ASSUME NEW t \in T!Task, reply' = [reply EXCEPT ![r] = t], Underway(t), ValidAt(t)
        PROVE  reply' \in [Replies -> T!Task \cup {None}] /\ TokenTaskInv'
    BY <1>1, <1>3 DEF T!TypeOK, TokenTaskInv, Underway, ValidAt
  <1>4. CASE T!GetToken(r)
    <2>1. token' = token
      BY <1>4 DEF T!GetToken
    <2>2. CASE token # None /\ token.expires > time
      <3>1. token.issued \in 0..LastTime /\ reply' = [reply EXCEPT ![r] = T!Holding(token.issued)]
        BY <1>4, <2>2, CacheTypes DEF T!GetToken
      <3>2. ValidAt(T!Holding(token.issued))
        BY <2>2, <3>1, TaskTypes, CacheTypes DEF ValidAt, TokenInv, T!TypeOK
      <3>3. reply' \in [Replies -> T!Task \cup {None}] /\ TokenTaskInv'
        BY <1>3, <3>1, <3>2, TaskTypes DEF T!TypeOK
      <3>. QED  BY <1>1, <1>2, <2>1, <3>3 DEF T!TypeOK, TokenInv
    <2>3. CASE ~(token # None /\ token.expires > time)
      <3>1. reply' = [reply EXCEPT ![r] = T!Fetching(time)]
        BY <1>4, <2>3 DEF T!GetToken
      <3>2. time \in 0..LastTime
        BY DEF T!TypeOK
      <3>3. T!Fetching(time) \in T!Task /\ Underway(T!Fetching(time)) /\ ValidAt(T!Fetching(time))
        BY <3>2, TaskTypes
      <3>4. reply' \in [Replies -> T!Task \cup {None}] /\ TokenTaskInv'
        BY <1>3, <3>1, <3>3
      <3>. QED  BY <1>1, <1>2, <2>1, <3>4 DEF T!TypeOK, TokenInv
    <2>. QED  BY <2>2, <2>3
  <1>5. CASE T!TokenArrives(r)
    <2>. DEFINE life == IF Life > Margin THEN Life - Margin ELSE 0
                i    == reply[r].issued
    <2>1. /\ token' = [issued |-> i, expires |-> time + life]
          /\ reply' = [reply EXCEPT ![r] = T!Holding(i)]
          /\ reply[r] # None /\ reply[r].pc = "fetching"
      BY <1>5 DEF T!TokenArrives
    <2>2. i \in 0..LastTime /\ time \in 0..LastTime /\ i <= time /\ time - i <= Slow
      BY <2>1, CacheTypes DEF T!TypeOK, T!Task, TokenTaskInv, Underway
    <2>3. life \in Nat /\ life <= Life /\ (Margin < Life => life = Life - Margin)
      BY CacheTypes
    <2>4. ValidAt(T!Holding(i))
      BY <2>2, TaskTypes, CacheTypes DEF ValidAt
    <2>5. reply' \in [Replies -> T!Task \cup {None}] /\ TokenTaskInv'
      BY <1>3, <2>1, <2>2, <2>4, TaskTypes
    <2>. HIDE DEF life
    <2>6. token' \in [issued : 0..LastTime, expires : 0..(LastTime + Life)]
      BY <2>1, <2>2, <2>3, CacheTypes
    <2>7. TokenInv'
      BY <2>1, <2>2, <2>3, CacheTypes DEF TokenInv
    <2>. QED  BY <1>1, <1>2, <2>5, <2>6, <2>7 DEF T!TypeOK
  <1>. QED  BY <1>4, <1>5

\* The keys: from the cache, or by a fetch that may have been overtaken.
LEMMA KeysStep ==
    ASSUME T!TeamsCredentialsAssumption, CacheInv, NEW r \in Requests, T!GetKeys(r) \/ T!KeysArrive(r)
    PROVE  CacheInv'
  <1>. USE DEF CacheInv
  <1>1. UNCHANGED <<time, token, reply>>
    BY DEF T!GetKeys, T!KeysArrive
  <1>2. TokenTaskInv' /\ TokenInv'
    BY <1>1 DEF TokenTaskInv, TokenInv, Underway, ValidAt
  <1>3. ASSUME NEW t \in T!Task, verification' = [verification EXCEPT ![r] = t], Underway(t), KeptAt(t)
        PROVE  verification' \in [Requests -> T!Task \cup {None}] /\ KeyTaskInv'
    BY <1>1, <1>3 DEF T!TypeOK, KeyTaskInv, Underway, KeptAt
  <1>4. time \in 0..LastTime
    BY DEF T!TypeOK
  <1>5. CASE T!GetKeys(r)
    <2>1. keys' = keys
      BY <1>5 DEF T!GetKeys
    <2>2. PICK t \in T!Task : verification' = [verification EXCEPT ![r] = t] /\ Underway(t) /\ KeptAt(t)
      <3>1. CASE keys # None /\ time - keys.fetched < TTL
        <4>1. keys.issued \in 0..LastTime /\ verification' = [verification EXCEPT ![r] = T!Holding(keys.issued)]
          BY <1>5, <3>1, CacheTypes DEF T!GetKeys
        <4>2. KeptAt(T!Holding(keys.issued))
          BY <1>4, <3>1, <4>1, TaskTypes, CacheTypes DEF KeptAt, KeysInv
        <4>. QED  BY <1>4, <4>1, <4>2, TaskTypes
      <3>2. CASE ~(keys # None /\ time - keys.fetched < TTL)
        BY <1>4, <1>5, <3>2, TaskTypes DEF T!GetKeys
      <3>. QED  BY <3>1, <3>2
    <2>. QED  BY <1>1, <1>2, <1>3, <2>1, <2>2 DEF T!TypeOK, KeysInv
  <1>6. CASE T!KeysArrive(r)
    <2>. DEFINE i == verification[r].issued
    <2>1. /\ keys' = [issued |-> i, fetched |-> time]
          /\ verification' = [verification EXCEPT ![r] = T!Holding(i)]
          /\ verification[r] # None /\ verification[r].pc = "fetching"
      BY <1>6 DEF T!KeysArrive
    <2>2. i \in 0..LastTime /\ time - i <= Slow
      BY <2>1, CacheTypes DEF T!TypeOK, T!Task, KeyTaskInv, Underway
    <2>3. KeptAt(T!Holding(i))
      BY <1>4, <2>2, TaskTypes, CacheTypes DEF KeptAt
    <2>4. verification' \in [Requests -> T!Task \cup {None}] /\ KeyTaskInv'
      BY <1>3, <1>4, <2>1, <2>2, <2>3, TaskTypes
    <2>. QED  BY <1>1, <1>2, <1>4, <2>1, <2>2, <2>4 DEF T!TypeOK, KeysInv
  <1>. QED  BY <1>5, <1>6

\* A task is done, or has failed; nothing is handed out.
LEMMA CacheDone == ASSUME CacheInv, T!DoneAny PROVE CacheInv'
  <1>. USE DEF CacheInv
  <1>1. UNCHANGED <<time, token, keys>>
    BY DEF T!DoneAny
  <1>2. /\ reply' \in [Replies -> T!Task \cup {None}]
        /\ \A r \in Replies : reply'[r] # None => reply'[r] = reply[r]
    BY DEF T!DoneAny, T!Done, T!TypeOK
  <1>3. /\ verification' \in [Requests -> T!Task \cup {None}]
        /\ \A r \in Requests : verification'[r] # None => verification'[r] = verification[r]
    BY DEF T!DoneAny, T!Done, T!TypeOK
  <1>4. TokenTaskInv' /\ KeyTaskInv'
    BY <1>1, <1>2, <1>3 DEF TokenTaskInv, KeyTaskInv, Underway, ValidAt, KeptAt
  <1>. QED  BY <1>1, <1>2, <1>3, <1>4 DEF T!TypeOK, TokenInv, KeysInv

\* Time passes, as long as no fetch has taken all of its time.
LEMMA CacheTick == ASSUME T!TeamsCredentialsAssumption, CacheInv, T!Tick PROVE CacheInv'
  <1>. USE DEF CacheInv
  <1>1. time' = time + 1 /\ time < LastTime /\ UNCHANGED <<token, reply, keys, verification>>
    BY DEF T!Tick
  <1>2. T!TypeOK'
    BY <1>1, CacheTypes DEF T!TypeOK
  <1>3. ASSUME NEW t \in T!Task, t \in T!Fetches \ {None}, Underway(t)
        PROVE  Underway(t)'
    BY <1>1, <1>3, CacheTypes DEF T!Tick, T!Task, Underway
  <1>4. TokenTaskInv'
    BY <1>1, <1>3, CacheTypes DEF TokenTaskInv, ValidAt, T!Fetches
  <1>5. KeyTaskInv'
    BY <1>1, <1>3, CacheTypes DEF KeyTaskInv, KeptAt, T!Fetches
  <1>. QED  BY <1>1, <1>2, <1>4, <1>5 DEF TokenInv, KeysInv

\* Every step keeps the invariant.
LEMMA CacheNext == ASSUME T!TeamsCredentialsAssumption, CacheInv, [T!Next]_(T!vars) PROVE CacheInv'
  <1>1. CASE UNCHANGED T!vars
    BY <1>1 DEF T!vars, CacheInv, T!TypeOK, TokenTaskInv, KeyTaskInv, TokenInv, KeysInv, Underway,
                ValidAt, KeptAt
  <1>. QED  BY <1>1, TokenStep, KeysStep, CacheDone, CacheTick DEF T!Next

\* The cached credentials of the Teams adapter (teams.rs:127) are fresh when they
\* are handed out, whichever refreshes overlap and whichever answer is last: a
\* token is valid if no answer takes longer than the margin of its renewal and
\* tokens live longer than that, and keys are no older than the TTL and a fetch.
THEOREM FreshCredentials ==
    ASSUME T!TeamsCredentialsAssumption
    PROVE  EdgesSpec => []CredentialsFresh
  <1>1. EdgesInit => CacheInv
    BY CacheInit DEF EdgesInit
  <1>2. CacheInv /\ [EdgesNext]_edgeVars => CacheInv'
    BY CacheNext, Steps
  <1>3. CacheInv => CredentialsFresh
    BY DEF CacheInv, TokenTaskInv, KeyTaskInv, ValidAt, KeptAt, T!CredentialsFresh, CredentialsFresh
  <1>. QED  BY <1>1, <1>2, <1>3, PTL DEF EdgesSpec

-----------------------------------------------------------------------------
(* The connections at /ws.                                                 *)

\* A connection that becomes live is one more live connection.
LEMMA LiveAdded ==
    ASSUME IsFiniteSet(Conns), W!TypeOK, NEW c \in Conns,
           state[c] \notin {"open", "answering"},
           state' = [state EXCEPT ![c] = "open"]
    PROVE  Cardinality(W!Live') = Cardinality(W!Live) + 1
<1>1. IsFiniteSet(W!Live) /\ c \notin W!Live
  BY FS_Subset DEF W!Live
<1>2. W!Live' = W!Live \cup {c}
  BY DEF W!Live, W!TypeOK
<1> QED
  BY <1>1, <1>2, FS_AddElement

\* A live connection that closes is one live connection less.
LEMMA LiveRemoved ==
    ASSUME IsFiniteSet(Conns), W!TypeOK, NEW c \in W!Live,
           state' = [state EXCEPT ![c] = "closed"]
    PROVE  /\ Cardinality(W!Live) \in Nat \ {0}
           /\ Cardinality(W!Live') = Cardinality(W!Live) - 1
<1>1. IsFiniteSet(W!Live) /\ c \in Conns
  BY FS_Subset DEF W!Live
<1>2. W!Live' = W!Live \ {c}
  BY <1>1 DEF W!Live, W!TypeOK
<1>3. Cardinality(W!Live) \in Nat /\ Cardinality(W!Live) # 0
  BY <1>1, FS_CardinalityType, FS_EmptySet
<1> QED
  BY <1>1, <1>2, <1>3, FS_RemoveElement

\* A connection that moves between two live, or two other, states leaves the
\* number of live connections as it is.
LEMMA LiveUnchanged ==
    ASSUME W!TypeOK, NEW c \in Conns, NEW s \in W!States,
           state' = [state EXCEPT ![c] = s],
           s \in {"open", "answering"} <=> state[c] \in {"open", "answering"}
    PROVE  W!Live' = W!Live
BY DEF W!Live, W!TypeOK

\* The invariant: the types, and what the gauge counts.
GaugeInv == W!TypeOK /\ W!GaugeCountsOpen

\* No connection is live at first.
LEMMA GaugeInit == ASSUME W!WebSocketsAssumption, W!Init PROVE GaugeInv
<1>1. W!TypeOK
  BY DEF W!Init, W!WebSocketsAssumption, W!TypeOK, W!Times, W!States
<1>2. W!Live = {}
  BY DEF W!Init, W!Live
<1> QED
  BY <1>1, <1>2, FS_EmptySet, InstanceSets DEF GaugeInv, W!GaugeCountsOpen, W!Init

\* A connection whose task is over leaves only typed locals behind.
LEMMA OverTypes ==
    ASSUME W!WebSocketsAssumption, W!TypeOK, NEW c \in Conns, W!Over(c)
    PROVE  /\ state' \in [Conns -> W!States]
           /\ count' \in [Conns -> 0..Burst]
           /\ start' \in [Conns -> W!Times]
           /\ served' \in [Conns -> [W!Times -> Nat]]
BY DEF W!WebSocketsAssumption, W!TypeOK, W!Over, W!Goto, W!States, W!Times

\* Every step keeps the invariant.
LEMMA GaugeNext ==
    ASSUME W!WebSocketsAssumption, GaugeInv, [W!Next]_(W!vars)
    PROVE  GaugeInv'
<1>0. /\ W!TypeOK
      /\ gauge = Cardinality(W!Live) + panics
      /\ IsFiniteSet(Conns) /\ Cardinality(W!Live) \in Nat
      /\ MaxPanics \in Nat /\ Burst \in Nat /\ MaxTime \in Nat
      /\ panics \in Nat /\ panics <= MaxPanics /\ gauge \in Nat
  <2>1. W!TypeOK /\ gauge = Cardinality(W!Live) + panics
    BY InstanceSets DEF GaugeInv, W!GaugeCountsOpen
  <2>2. IsFiniteSet(Conns)
    BY InstanceSets DEF W!WebSocketsAssumption
  <2>3. Cardinality(W!Live) \in Nat
    BY <2>2, FS_Subset, FS_CardinalityType DEF W!Live
  <2>4. MaxPanics \in Nat /\ Burst \in Nat /\ MaxTime \in Nat
    BY DEF W!WebSocketsAssumption
  <2> QED
    BY <2>1, <2>2, <2>3, <2>4 DEF W!TypeOK
<1>1. ASSUME NEW c \in Conns, W!Accept(c) PROVE GaugeInv'
  <2>1. W!Live' = W!Live
    BY <1>0, <1>1, LiveUnchanged DEF W!Accept, W!Goto, W!States
  <2>2. W!TypeOK'
    BY <1>0, <1>1 DEF W!Accept, W!Goto, W!TypeOK, W!States
  <2> QED
    BY <1>0, <1>1, <2>1, <2>2 DEF GaugeInv, W!GaugeCountsOpen, W!Accept
<1>2. ASSUME NEW c \in Conns, W!Open(c) PROVE GaugeInv'
  <2>1. Cardinality(W!Live') = Cardinality(W!Live) + 1
    BY <1>0, <1>2, LiveAdded DEF W!Open, W!Goto
  <2>2. W!TypeOK'
    BY <1>0, <1>2 DEF W!Open, W!Goto, W!TypeOK, W!States
  <2>3. gauge' = gauge + 1 /\ panics' = panics
    BY <1>2 DEF W!Open
  <2>4. gauge' = Cardinality(W!Live') + panics'
    BY <1>0, <2>1, <2>3
  <2> QED
    BY <2>2, <2>4, InstanceSets DEF GaugeInv, W!GaugeCountsOpen
<1>3. ASSUME NEW c \in Conns, W!Message(c) PROVE GaugeInv'
  <2>1. W!Live' = W!Live
    <3>1. CASE UNCHANGED state
      BY <3>1 DEF W!Live
    <3>2. CASE W!Goto(c, "answering")
      BY <1>0, <1>3, <3>2, LiveUnchanged DEF W!Message, W!Goto, W!States
    <3> QED
      BY <1>3, <3>1, <3>2 DEF W!Message
  <2>2. now \in W!Times /\ now' = now /\ gauge' = gauge /\ panics' = panics
    BY <1>0, <1>3 DEF W!Message, W!TypeOK
  <2>3. state' \in [Conns -> W!States]
    BY <1>0, <1>3 DEF W!Message, W!Goto, W!TypeOK, W!States
  <2>4. count' \in [Conns -> 0..Burst]
    <3>1. PICK n \in {1, count[c] + 1} :
            n <= Burst /\ count' = [count EXCEPT ![c] = n]
      BY <1>3 DEF W!Message
    <3>2. n \in 0..Burst
      BY <1>0, <3>1 DEF W!TypeOK
    <3> QED
      BY <1>0, <3>1, <3>2 DEF W!TypeOK
  <2>5. start' \in [Conns -> W!Times]
    BY <1>0, <1>3, <2>2 DEF W!Message, W!TypeOK
  <2>6. served' \in [Conns -> [W!Times -> Nat]]
    <3>1. served \in [Conns -> [W!Times -> Nat]]
      BY <1>0 DEF W!TypeOK
    <3>2. served' = served \/ served' = [served EXCEPT ![c][now] = @ + 1]
      BY <1>3 DEF W!Message
    <3> QED
      BY <2>2, <3>1, <3>2
  <2>7. W!TypeOK'
    BY <1>0, <2>2, <2>3, <2>4, <2>5, <2>6 DEF W!TypeOK, W!Times
  <2> QED
    BY <1>0, <2>1, <2>2, <2>7 DEF GaugeInv, W!GaugeCountsOpen
<1>4. ASSUME NEW c \in Conns, W!Answered(c) PROVE GaugeInv'
  <2>1. W!Live' = W!Live
    BY <1>0, <1>4, LiveUnchanged DEF W!Answered, W!Goto, W!States
  <2>2. W!TypeOK'
    BY <1>0, <1>4 DEF W!Answered, W!Goto, W!TypeOK, W!States
  <2> QED
    BY <1>0, <1>4, <2>1, <2>2 DEF GaugeInv, W!GaugeCountsOpen, W!Answered
<1>5. ASSUME NEW c \in Conns, W!Close(c) PROVE GaugeInv'
  <2>1. /\ Cardinality(W!Live) \in Nat \ {0}
        /\ Cardinality(W!Live') = Cardinality(W!Live) - 1
    BY <1>0, <1>5, LiveRemoved DEF W!Close, W!Over, W!Goto
  <2>2. /\ now' = now /\ panics' = panics /\ gauge' = gauge - 1
        /\ W!Over(c) /\ c \in Conns
    BY <1>5 DEF W!Close, W!Live
  <2>3. gauge' \in Nat /\ now' \in W!Times /\ panics' \in 0..MaxPanics
    <3>1. gauge' \in Nat
      BY <1>0, <2>1, <2>2
    <3>2. now' \in W!Times /\ panics' \in 0..MaxPanics
      BY <1>0, <2>2 DEF W!TypeOK
    <3> QED
      BY <3>1, <3>2
  <2>4. W!TypeOK'
    BY <1>0, <2>2, <2>3, OverTypes DEF W!TypeOK
  <2>5. gauge' = Cardinality(W!Live') + panics'
    BY <1>0, <2>1, <2>2
  <2> QED
    BY <2>4, <2>5, InstanceSets DEF GaugeInv, W!GaugeCountsOpen
<1>6. ASSUME NEW c \in Conns, W!Panic(c) PROVE GaugeInv'
  <2>1. /\ Cardinality(W!Live) \in Nat \ {0}
        /\ Cardinality(W!Live') = Cardinality(W!Live) - 1
    BY <1>0, <1>6, LiveRemoved DEF W!Panic, W!Over, W!Goto, W!Live
  <2>2. /\ now' = now /\ panics' = panics + 1 /\ gauge' = gauge
        /\ W!Over(c) /\ panics < MaxPanics
    BY <1>6 DEF W!Panic
  <2>3. gauge' \in Nat /\ now' \in W!Times /\ panics' \in 0..MaxPanics
    BY <1>0, <2>2 DEF W!TypeOK
  <2>4. W!TypeOK'
    BY <1>0, <2>2, <2>3, OverTypes DEF W!TypeOK
  <2>5. gauge' = Cardinality(W!Live') + panics'
    BY <1>0, <2>1, <2>2
  <2> QED
    BY <2>4, <2>5, InstanceSets DEF GaugeInv, W!GaugeCountsOpen
<1>7. CASE W!Tick
  <2>1. W!Live' = W!Live
    BY <1>7 DEF W!Tick, W!Live
  <2>2. W!TypeOK'
    BY <1>0, <1>7 DEF W!Tick, W!TypeOK, W!Times
  <2> QED
    BY <1>0, <1>7, <2>1, <2>2 DEF GaugeInv, W!GaugeCountsOpen, W!Tick
<1>8. CASE UNCHANGED W!vars
  BY <1>0, <1>8 DEF W!vars, GaugeInv, W!GaugeCountsOpen, W!TypeOK, W!Live
<1> QED
  BY <1>1, <1>2, <1>3, <1>4, <1>5, <1>6, <1>7, <1>8 DEF W!Next, W!Loop

-----------------------------------------------------------------------------
(* Totals over an interval of time, for the messages of a connection and the *)
(* requests of a key.                                                       *)

Clock == 0..MaxTime
Total(f, a, b) == SumFunctionOnSet(f, Clock \cap a..b)

\* The sums that the instances bring along.
LEMMA InstanceSums ==
    /\ \A f, S : W!SumFunctionOnSet(f, S) = SumFunctionOnSet(f, S)
    /\ \A f, S : L!SumFunctionOnSet(f, S) = SumFunctionOnSet(f, S)
  <1>1. \A f, S : W!SumFunctionOnSet(f, S) = SumFunctionOnSet(f, S)
    BY DEF W!SumFunctionOnSet, W!FoldFunctionOnSet, W!MapThenFoldSet,
           SumFunctionOnSet, FoldFunctionOnSet, MapThenFoldSet
  <1>2. \A f, S : L!SumFunctionOnSet(f, S) = SumFunctionOnSet(f, S)
    BY DEF L!SumFunctionOnSet, L!FoldFunctionOnSet, L!MapThenFoldSet,
           SumFunctionOnSet, FoldFunctionOnSet, MapThenFoldSet
  <1>. QED  BY <1>1, <1>2

LEMMA SpanFinite ==
    ASSUME MaxTime \in Nat
    PROVE  \A a, b \in Int : IsFiniteSet(Clock \cap a..b)
  <1>1. IsFiniteSet(Clock)
    BY FS_Interval DEF Clock
  <1>. QED  BY <1>1, FS_Subset

\* A total is a natural number, and larger for more time.
LEMMA TotalGrows ==
    ASSUME MaxTime \in Nat, NEW f \in [Clock -> Nat], NEW a \in Int, NEW b \in Int
    PROVE  /\ Total(f, a, b) \in Nat
           /\ \A x, y \in Int : a <= x /\ y <= b => Total(f, x, y) <= Total(f, a, b)
  <1>1. Total(f, a, b) \in Nat
    BY SpanFinite, SumIsNat DEF Total
  <1>2. ASSUME NEW x \in Int, NEW y \in Int, a <= x, y <= b
        PROVE  Total(f, x, y) <= Total(f, a, b)
    <2>1. Clock \cap x..y \in SUBSET (Clock \cap a..b)
      BY <1>2 DEF Clock
    <2>2. IsFiniteSet(Clock \cap a..b) /\ \A u \in Clock \cap a..b : f[u] \in Nat
      BY SpanFinite
    <2>. QED  BY <2>1, <2>2, SumMonotone DEF Total
  <1>. QED  BY <1>1, <1>2

\* The total of two intervals that follow each other.
LEMMA TotalSplit ==
    ASSUME MaxTime \in Nat, NEW f \in [Clock -> Nat],
           NEW a \in Int, NEW m \in Int, NEW b \in Int, a <= m, m <= b + 1
    PROVE  Total(f, a, b) = Total(f, a, m - 1) + Total(f, m, b)
  <1>1. PICK R, S : R = Clock \cap a..(m - 1) /\ S = Clock \cap m..b
    OBVIOUS
  <1>2. R \cup S = Clock \cap a..b /\ R \cap S = {}
    BY <1>1 DEF Clock
  <1>3. IsFiniteSet(R) /\ IsFiniteSet(S) /\ \A u \in R \cup S : f[u] \in Nat
    BY <1>1, SpanFinite
  <1>. QED  BY <1>1, <1>2, <1>3, SumUnion DEF Total

\* The total where there is nothing.
LEMMA TotalEmpty ==
    ASSUME MaxTime \in Nat, NEW f, NEW a \in Int, NEW b \in Int,
           \A u \in Clock : a <= u /\ u <= b => f[u] = 0
    PROVE  Total(f, a, b) = 0
  <1>1. \A u \in Clock \cap a..b : f[u] = 0
    BY DEF Clock
  <1>. QED  BY <1>1, SpanFinite, SumOfZeros DEF Total

\* One more at one time.
LEMMA TotalIncrement ==
    ASSUME MaxTime \in Nat, NEW f \in [Clock -> Nat], NEW n \in Clock,
           NEW e \in [Clock -> Nat], e[n] = f[n] + 1, \A u \in Clock : u # n => e[u] = f[u],
           NEW a \in Int, NEW b \in Int
    PROVE  /\ a <= n /\ n <= b => Total(e, a, b) = Total(f, a, b) + 1
           /\ ~ (a <= n /\ n <= b) => Total(e, a, b) = Total(f, a, b)
  <1>1. PICK S : S = Clock \cap a..b
    OBVIOUS
  <1>2. IsFiniteSet(S) /\ S \subseteq Clock
    BY <1>1, SpanFinite
  <1>3. n \in S <=> a <= n /\ n <= b
    BY <1>1 DEF Clock
  <1>4. e[n] = f[n] + 1 /\ \A u \in S : f[u] \in Nat /\ (u # n => e[u] = f[u])
    BY <1>2
  <1>5. /\ n \in S => SumFunctionOnSet(e, S) = SumFunctionOnSet(f, S) + 1
        /\ n \notin S => SumFunctionOnSet(e, S) = SumFunctionOnSet(f, S)
    BY <1>2, <1>4, SumIncrement
  <1>. QED  BY <1>1, <1>3, <1>5 DEF Total

\* Nothing is counted after now.
LEMMA TotalToNow ==
    ASSUME MaxTime \in Nat, NEW f \in [Clock -> Nat], NEW n \in Int,
           \A u \in Clock : u > n => f[u] = 0,
           NEW a \in Int, NEW b \in Int
    PROVE  Total(f, a, b) <= Total(f, a, n)
  <1>1. CASE b <= n
    BY <1>1, TotalGrows
  <1>2. CASE b > n
    <2>1. CASE a > n
      <3>1. Total(f, a, b) = 0 /\ Total(f, a, n) \in Nat
        BY <2>1, TotalEmpty, TotalGrows DEF Clock
      <3>. QED  BY <3>1
    <2>2. CASE a <= n
      <3>1. Total(f, a, b) = Total(f, a, (n + 1) - 1) + Total(f, n + 1, b)
        BY <1>2, <2>2, TotalSplit
      <3>2. Total(f, n + 1, b) = 0 /\ (n + 1) - 1 = n /\ Total(f, a, n) \in Nat
        BY TotalEmpty, TotalGrows DEF Clock
      <3>. QED  BY <3>1, <3>2
    <2>. QED  BY <2>1, <2>2
  <1>. QED  BY <1>1, <1>2

-----------------------------------------------------------------------------
(* The window of a connection.                                             *)

\* What a connection has been served (f), when its window began (s), the time
\* (n) and its count (x): no more than the maximum since the window began and
\* in the time of a window before it.  That two windows' messages are the most
\* of any interval is not inductive without these two.
Windowed(f, s, n, x) ==
    /\ s <= n
    /\ \A u \in Clock : u > n \/ u >= s + Window => f[u] = 0
    /\ Total(f, s, n) <= x /\ Total(f, s, n) <= MaxMessages
    /\ \A t \in Clock : s - Window < t => Total(f, t, s - 1) <= MaxMessages
    /\ \A t \in Clock : Total(f, t, t + Window - 1) <= 2 * MaxMessages

WindowConstants == /\ MaxTime \in Nat /\ MaxMessages \in Nat \ {0} /\ Window \in Nat \ {0}

\* A connection without messages.
LEMMA WindowFresh ==
    ASSUME WindowConstants, NEW s \in Clock, NEW n \in Clock, s <= n, NEW x \in Nat
    PROVE  Windowed([t \in Clock |-> 0], s, n, x)
  <1>1. PICK f : f = [t \in Clock |-> 0]
    OBVIOUS
  <1>2. \A a, b \in Int : Total(f, a, b) = 0
    BY <1>1, TotalEmpty DEF WindowConstants
  <1>3. \A t \in Clock : t \in Int /\ t + Window - 1 \in Int /\ s \in Int /\ s - 1 \in Int /\ n \in Int
    BY DEF Clock, WindowConstants
  <1>. QED  BY <1>1, <1>2, <1>3 DEF Windowed, WindowConstants

\* Time passes.
LEMMA WindowTick ==
    ASSUME WindowConstants, NEW f \in [Clock -> Nat], NEW s \in Clock, NEW n \in Clock,
           NEW x \in Nat, Windowed(f, s, n, x)
    PROVE  Windowed(f, s, n + 1, x)
  <1>1. n \in Int /\ n + 1 \in Int /\ s \in Int /\ \A u \in Clock : u \in Int
    BY DEF Clock
  <1>2. Total(f, s, n + 1) <= Total(f, s, n)
    BY <1>1, TotalToNow DEF Windowed, WindowConstants
  <1>3. Total(f, s, n + 1) \in Nat /\ Total(f, s, n) \in Nat
    BY <1>1, TotalGrows DEF WindowConstants
  <1>4. Total(f, s, n + 1) <= x /\ Total(f, s, n + 1) <= MaxMessages
    BY <1>2, <1>3 DEF Windowed, WindowConstants
  <1>. QED  BY <1>1, <1>4 DEF Windowed

\* A message that is counted and not served.
LEMMA WindowCounts ==
    ASSUME WindowConstants, NEW f \in [Clock -> Nat], NEW s \in Clock, NEW n \in Clock,
           NEW x \in Nat, Windowed(f, s, n, x)
    PROVE  Windowed(f, s, n, x + 1)
  <1>1. Total(f, s, n) \in Nat
    BY TotalGrows DEF WindowConstants, Clock
  <1>. QED  BY <1>1 DEF Windowed

\* A message that is served in its window.
LEMMA WindowServes ==
    ASSUME WindowConstants, NEW f \in [Clock -> Nat], NEW s \in Clock, NEW n \in Clock,
           NEW x \in Nat, Windowed(f, s, n, x), n - s < Window, x + 1 <= MaxMessages,
           NEW e \in [Clock -> Nat], e[n] = f[n] + 1, \A u \in Clock : u # n => e[u] = f[u]
    PROVE  Windowed(e, s, n, x + 1)
  <1>1. /\ n \in Int /\ s \in Int /\ s - 1 \in Int /\ MaxTime \in Nat /\ Window \in Nat \ {0}
        /\ MaxMessages \in Nat
        /\ \A u \in Clock : u \in Int /\ u + Window - 1 \in Int
    BY DEF Clock, WindowConstants
  <1>3. \A a, b \in Int :
            /\ a <= n /\ n <= b => Total(e, a, b) = Total(f, a, b) + 1
            /\ ~ (a <= n /\ n <= b) => Total(e, a, b) = Total(f, a, b)
    BY <1>1, TotalIncrement
  <1>4. \A a, b \in Int : Total(e, a, b) \in Nat /\ Total(f, a, b) \in Nat
    BY <1>1, TotalGrows
  <1>5. \A u \in Clock : u > n \/ u >= s + Window => e[u] = 0
    BY <1>1 DEF Windowed
  <1>6. Total(e, s, n) <= x + 1 /\ Total(e, s, n) <= MaxMessages
    <2>1. Total(e, s, n) = Total(f, s, n) + 1 /\ Total(f, s, n) <= x
      BY <1>1, <1>3 DEF Windowed
    <2>2. PICK p, q \in Nat : p = Total(e, s, n) /\ q = Total(f, s, n)
      BY <1>1, <1>4
    <2>3. p = q + 1 /\ q <= x
      BY <2>1, <2>2
    <2>4. p <= x + 1 /\ p <= MaxMessages
      BY <1>1, <2>3
    <2>. QED  BY <2>2, <2>4
  <1>7. ASSUME NEW t \in Clock, s - Window < t PROVE Total(e, t, s - 1) <= MaxMessages
    <2>1. Total(e, t, s - 1) = Total(f, t, s - 1)
      BY <1>1, <1>3 DEF Windowed
    <2>. QED  BY <1>7, <2>1 DEF Windowed
  <1>8. ASSUME NEW t \in Clock PROVE Total(e, t, t + Window - 1) <= 2 * MaxMessages
    <2>1. PICK b \in Int : b = t + Window - 1
      BY <1>1
    <2>2. CASE ~ (t <= n /\ n <= b)
      <3>1. Total(e, t, b) = Total(f, t, b)
        BY <1>1, <1>3, <2>2
      <3>. QED  BY <2>1, <3>1 DEF Windowed
    <2>3. CASE t <= n /\ n <= b
      <3>1. s - Window < t /\ s <= b + 1
        BY <1>1, <2>1, <2>3 DEF Windowed
      <3>2. Total(e, s, b) <= Total(e, s, n)
        BY <1>1, <1>5, TotalToNow
      <3>3. Total(e, s, b) <= MaxMessages
        BY <1>1, <1>4, <1>6, <3>2
      <3>4. CASE t <= s
        <4>1. Total(e, t, b) = Total(e, t, s - 1) + Total(e, s, b)
          BY <1>1, <3>1, <3>4, TotalSplit
        <4>2. Total(e, t, s - 1) <= MaxMessages
          BY <1>7, <3>1
        <4>3. PICK p, q, r \in Nat : p = Total(e, t, b) /\ q = Total(e, t, s - 1) /\ r = Total(e, s, b)
          BY <1>1, <1>4
        <4>4. p = q + r /\ q <= MaxMessages /\ r <= MaxMessages
          BY <3>3, <4>1, <4>2, <4>3
        <4>5. p <= 2 * MaxMessages
          BY <1>1, <4>4
        <4>. QED  BY <2>1, <4>3, <4>5
      <3>5. CASE t > s
        <4>1. Total(e, t, b) <= Total(e, s, b)
          BY <1>1, <3>5, TotalGrows
        <4>. QED  BY <1>1, <1>4, <2>1, <3>3, <4>1
      <3>. QED  BY <1>1, <3>4, <3>5
    <2>. QED  BY <2>2, <2>3
  <1>9. s <= n
    BY DEF Windowed
  <1>. QED  BY <1>5, <1>6, <1>7, <1>8, <1>9 DEF Windowed

\* The first message of a new window.
LEMMA WindowOpens ==
    ASSUME WindowConstants, NEW f \in [Clock -> Nat], NEW s \in Clock, NEW n \in Clock,
           NEW x \in Nat, Windowed(f, s, n, x), n - s >= Window,
           NEW e \in [Clock -> Nat], e[n] = f[n] + 1, \A u \in Clock : u # n => e[u] = f[u]
    PROVE  Windowed(e, n, n, 1)
  <1>1. /\ n \in Int /\ s \in Int /\ n - 1 \in Int /\ MaxTime \in Nat /\ Window \in Nat \ {0}
        /\ MaxMessages \in Nat \ {0}
        /\ \A u \in Clock : u \in Int /\ u + Window - 1 \in Int
    BY DEF Clock, WindowConstants
  <1>3. \A a, b \in Int :
            /\ a <= n /\ n <= b => Total(e, a, b) = Total(f, a, b) + 1
            /\ ~ (a <= n /\ n <= b) => Total(e, a, b) = Total(f, a, b)
    BY <1>1, TotalIncrement
  <1>4. \A a, b \in Int : Total(e, a, b) \in Nat /\ Total(f, a, b) \in Nat
    BY <1>1, TotalGrows
  <1>5. \A u \in Clock : u > n \/ u >= n + Window => e[u] = 0
    BY <1>1 DEF Windowed
  <1>6. \A u \in Clock : n <= u => f[u] = 0
    BY <1>1 DEF Windowed
  <1>7. Total(e, n, n) = 1
    <2>1. Total(f, n, n) = 0
      BY <1>1, <1>6, TotalEmpty
    <2>. QED  BY <1>1, <1>3, <2>1
  <1>8. ASSUME NEW t \in Clock, n - Window < t PROVE Total(f, t, n) <= MaxMessages
    <2>1. s <= t
      BY <1>1, <1>8
    <2>2. Total(f, t, n) <= Total(f, s, n)
      BY <1>1, <2>1, TotalGrows
    <2>3. Total(f, s, n) <= MaxMessages
      BY DEF Windowed
    <2>. QED  BY <1>1, <1>4, <2>2, <2>3
  <1>9. ASSUME NEW t \in Clock, n - Window < t PROVE Total(e, t, n - 1) <= MaxMessages
    <2>1. Total(e, t, n - 1) = Total(f, t, n - 1)
      BY <1>1, <1>3
    <2>2. Total(f, t, n - 1) <= Total(f, t, n)
      BY <1>1, TotalGrows
    <2>3. Total(f, t, n) <= MaxMessages
      BY <1>8, <1>9
    <2>. QED  BY <1>1, <1>4, <2>1, <2>2, <2>3
  <1>10. ASSUME NEW t \in Clock PROVE Total(e, t, t + Window - 1) <= 2 * MaxMessages
    <2>1. PICK b \in Int : b = t + Window - 1
      BY <1>1
    <2>2. CASE ~ (t <= n /\ n <= b)
      <3>1. Total(e, t, b) = Total(f, t, b)
        BY <1>1, <1>3, <2>2
      <3>. QED  BY <2>1, <3>1 DEF Windowed
    <2>3. CASE t <= n /\ n <= b
      <3>1. n - Window < t
        BY <1>1, <2>1, <2>3
      <3>2. Total(e, t, b) = Total(f, t, b) + 1 /\ Total(f, t, b) <= Total(f, t, n)
        BY <1>1, <1>3, <1>6, <2>3, TotalToNow
      <3>3. Total(f, t, n) <= MaxMessages
        BY <1>8, <3>1
      <3>4. PICK p, q, r \in Nat : p = Total(e, t, b) /\ q = Total(f, t, b) /\ r = Total(f, t, n)
        BY <1>1, <1>4
      <3>5. p = q + 1 /\ q <= r /\ r <= MaxMessages
        BY <3>2, <3>3, <3>4
      <3>6. p <= 2 * MaxMessages
        BY <1>1, <3>5
      <3>. QED  BY <2>1, <3>4, <3>6
    <2>. QED  BY <2>2, <2>3
  <1>. QED  BY <1>1, <1>5, <1>7, <1>9, <1>10 DEF Windowed

\* The windows of the connections, and those without messages.
WindowsInv ==
    \A c \in Conns :
        /\ state[c] \in {"closed", "accepted"} => count[c] = 0 /\ served[c] = [t \in Clock |-> 0]
        /\ Windowed(served[c], start[c], now, count[c])

LEMMA SocketConstants ==
    ASSUME W!WebSocketsAssumption, W!TypeOK
    PROVE  /\ WindowConstants /\ W!Times = Clock /\ now \in Clock /\ 0 \in Clock /\ Burst \in Nat
           /\ \A c \in Conns : /\ served[c] \in [Clock -> Nat] /\ start[c] \in Clock
                               /\ count[c] \in Nat /\ state[c] \in W!States
  BY DEF W!WebSocketsAssumption, W!TypeOK, WindowConstants, Clock, W!Times

LEMMA WindowsInit == ASSUME W!WebSocketsAssumption, W!Init PROVE WindowsInv
  <1>1. WindowConstants /\ 0 \in Clock /\ W!Times = Clock
    BY DEF W!WebSocketsAssumption, WindowConstants, Clock, W!Times
  <1>2. Windowed([t \in Clock |-> 0], 0, 0, 0)
    BY <1>1, WindowFresh
  <1>. QED  BY <1>1, <1>2 DEF W!Init, WindowsInv

\* A step of one connection.
LEMMA OneConnection ==
    ASSUME WindowsInv, NEW c \in Conns, now' = now,
           \A d \in Conns : d # c => /\ state'[d] = state[d] /\ count'[d] = count[d]
                                     /\ served'[d] = served[d] /\ start'[d] = start[d],
           state'[c] \in {"closed", "accepted"} =>
               count'[c] = 0 /\ served'[c] = [t \in Clock |-> 0],
           Windowed(served'[c], start'[c], now, count'[c])
    PROVE  WindowsInv'
  <1>1. ASSUME NEW d \in Conns
        PROVE  /\ state'[d] \in {"closed", "accepted"} =>
                     count'[d] = 0 /\ served'[d] = [t \in Clock |-> 0]
               /\ Windowed(served'[d], start'[d], now, count'[d])
    <2>1. CASE d = c
      BY <2>1
    <2>2. CASE d # c
      BY <2>2 DEF WindowsInv
    <2>. QED  BY <2>1, <2>2
  <1>. QED  BY <1>1 DEF WindowsInv, Windowed, Total, Clock

\* Every step of the connections keeps their windows.
LEMMA WindowsNext ==
    ASSUME W!WebSocketsAssumption, W!TypeOK, WindowsInv, [W!Next]_(W!vars)
    PROVE  WindowsInv'
  <1>1. /\ WindowConstants /\ W!Times = Clock /\ now \in Clock /\ 0 \in Clock
        /\ 0 <= now /\ now <= now
        /\ \A c \in Conns : /\ served[c] \in [Clock -> Nat] /\ start[c] \in Clock
                            /\ count[c] \in Nat /\ state[c] \in W!States
    BY SocketConstants DEF Clock
  <1>2. /\ state \in [Conns -> W!States] /\ DOMAIN count = Conns /\ DOMAIN served = Conns
        /\ DOMAIN start = Conns
    BY DEF W!TypeOK
  <1>3. ASSUME NEW c \in Conns, W!Accept(c) PROVE WindowsInv'
    <2>1. /\ now' = now /\ count' = count /\ served' = served /\ start' = start
          /\ state[c] = "closed" /\ \A d \in Conns : d # c => state'[d] = state[d]
      BY <1>2, <1>3 DEF W!Accept, W!Goto
    <2>2. count[c] = 0 /\ served[c] = [t \in Clock |-> 0] /\ Windowed(served[c], start[c], now, count[c])
      BY <2>1 DEF WindowsInv
    <2>. QED  BY <2>1, <2>2, OneConnection
  <1>4. ASSUME NEW c \in Conns, W!Open(c) PROVE WindowsInv'
    <2>1. /\ now' = now /\ count' = count /\ served' = served /\ start'[c] = now
          /\ state[c] = "accepted" /\ state'[c] = "open"
          /\ \A d \in Conns : d # c => state'[d] = state[d] /\ start'[d] = start[d]
      BY <1>2, <1>4 DEF W!Open, W!Goto
    <2>2. count[c] = 0 /\ served[c] = [t \in Clock |-> 0]
      BY <2>1 DEF WindowsInv
    <2>3. Windowed(served'[c], start'[c], now, count'[c])
      BY <1>1, <2>1, <2>2, WindowFresh
    <2>. QED  BY <2>1, <2>3, OneConnection
  <1>5. ASSUME NEW c \in Conns, W!Message(c) PROVE WindowsInv'
    <2>1. PICK f, s, x : f = served[c] /\ s = start[c] /\ x = count[c]
      OBVIOUS
    <2>2. /\ f \in [Clock -> Nat] /\ s \in Clock /\ x \in Nat /\ Windowed(f, s, now, x)
      BY <1>1, <2>1 DEF WindowsInv
    <2>3. /\ now' = now /\ state[c] = "open" /\ state'[c] \in {"open", "answering"}
          /\ \A d \in Conns : d # c => /\ state'[d] = state[d] /\ count'[d] = count[d]
                                       /\ served'[d] = served[d] /\ start'[d] = start[d]
      BY <1>2, <1>5 DEF W!Message, W!Goto
    <2>4. PICK e : e = [f EXCEPT ![now] = @ + 1]
      OBVIOUS
    <2>5. /\ e \in [Clock -> Nat] /\ e[now] = f[now] + 1
          /\ \A u \in Clock : u # now => e[u] = f[u]
      BY <1>1, <2>2, <2>4
    <2>6. CASE W!WindowOver(c)
      <3>1. count'[c] = 1 /\ start'[c] = now
        BY <1>2, <1>5, <2>6 DEF W!Message
      <3>2. ~ (1 > MaxMessages)
        BY <1>1 DEF WindowConstants
      <3>3. served'[c] = e
        BY <1>2, <1>5, <2>1, <2>4, <2>6, <3>2 DEF W!Message
      <3>4. now - s >= Window
        BY <2>1, <2>6 DEF W!WindowOver
      <3>5. Windowed(e, now, now, 1)
        BY <1>1, <2>2, <2>5, <3>4, WindowOpens
      <3>. QED  BY <2>3, <3>1, <3>3, <3>5, OneConnection
    <2>7. CASE ~ W!WindowOver(c)
      <3>1. count'[c] = x + 1 /\ start'[c] = s
        BY <1>2, <1>5, <2>1, <2>7 DEF W!Message
      <3>2. CASE x + 1 > MaxMessages
        <4>1. served'[c] = f
          BY <1>5, <2>1, <2>7, <3>2 DEF W!Message
        <4>2. Windowed(f, s, now, x + 1)
          BY <1>1, <2>2, WindowCounts
        <4>. QED  BY <2>3, <3>1, <4>1, <4>2, OneConnection
      <3>3. CASE ~ (x + 1 > MaxMessages)
        <4>1. served'[c] = e
          BY <1>2, <1>5, <2>1, <2>4, <2>7, <3>3 DEF W!Message
        <4>2. now - s < Window /\ x + 1 <= MaxMessages
          <5>1. now \in Int /\ s \in Int /\ Window \in Int /\ MaxMessages \in Int /\ x \in Int
            BY <1>1, <2>2 DEF Clock, WindowConstants
          <5>2. ~ (now - s >= Window)
            BY <2>1, <2>7 DEF W!WindowOver
          <5>. QED  BY <3>3, <5>1, <5>2
        <4>3. Windowed(e, s, now, x + 1)
          BY <1>1, <2>2, <2>5, <4>2, WindowServes
        <4>. QED  BY <2>3, <3>1, <4>1, <4>3, OneConnection
      <3>. QED  BY <3>2, <3>3
    <2>. QED  BY <2>6, <2>7
  <1>6. ASSUME NEW c \in Conns, W!Answered(c) PROVE WindowsInv'
    <2>1. /\ now' = now /\ count' = count /\ served' = served /\ start' = start
          /\ state'[c] = "open" /\ \A d \in Conns : d # c => state'[d] = state[d]
      BY <1>2, <1>6 DEF W!Answered, W!Goto
    <2>2. Windowed(served[c], start[c], now, count[c])
      BY DEF WindowsInv
    <2>. QED  BY <2>1, <2>2, OneConnection
  <1>7. ASSUME NEW c \in Conns, W!Over(c), now' = now PROVE WindowsInv'
    <2>1. /\ count'[c] = 0 /\ served'[c] = [t \in Clock |-> 0] /\ start'[c] = 0
          /\ \A d \in Conns : d # c => /\ state'[d] = state[d] /\ count'[d] = count[d]
                                       /\ served'[d] = served[d] /\ start'[d] = start[d]
      BY <1>1, <1>2, <1>7 DEF W!Over, W!Goto
    <2>2. Windowed(served'[c], start'[c], now, count'[c])
      BY <1>1, <2>1, WindowFresh
    <2>. QED  BY <1>7, <2>1, <2>2, OneConnection
  <1>8. CASE W!Tick
    <2>1. now' = now + 1 /\ state' = state /\ count' = count /\ served' = served /\ start' = start
      BY <1>8 DEF W!Tick
    <2>2. \A c \in Conns : Windowed(served[c], start[c], now + 1, count[c])
      BY <1>1, WindowTick DEF WindowsInv
    <2>. QED  BY <2>1, <2>2 DEF WindowsInv, Windowed, Total, Clock
  <1>9. CASE UNCHANGED W!vars
    BY <1>9 DEF W!vars, WindowsInv, Windowed, Total, Clock
  <1>10. ASSUME NEW c \in Conns, W!Close(c) \/ W!Panic(c) PROVE WindowsInv'
    BY <1>7, <1>10 DEF W!Close, W!Panic
  <1>. QED  BY <1>3, <1>4, <1>5, <1>6, <1>8, <1>9, <1>10 DEF W!Next, W!Loop

-----------------------------------------------------------------------------
(* The cap.                                                                *)

\* Where upgrades do not overlap, the one between the load of the gauge and its
\* increment still has its place.
CapInv ==
    ~overlap => /\ Cardinality(W!Live) <= MaxConns
                /\ \A c \in Conns : state[c] = "accepted" => Cardinality(W!Live) < MaxConns

LEMMA AtMostOne ==
    ASSUME NEW S, IsFiniteSet(S), Cardinality(S) <= 1, NEW c \in S, NEW d \in S
    PROVE  c = d
  <1>. SUFFICES ASSUME c # d PROVE FALSE
    OBVIOUS
  <1>1. IsFiniteSet(S \ {c}) /\ Cardinality(S \ {c}) = Cardinality(S) - 1
    BY FS_RemoveElement
  <1>2. Cardinality(S \ {c}) # 0
    BY <1>1, FS_EmptySet
  <1>3. Cardinality(S) \in Nat /\ Cardinality(S \ {c}) \in Nat
    BY <1>1, FS_CardinalityType
  <1>. QED  BY <1>1, <1>2, <1>3

\* No two requests, no two upgrades and no two users of a session are in flight.
Busy(calls, conns, a, b) ==
    Cardinality({c \in Callers : calls[c] # None})
      + Cardinality({c \in Conns : conns[c] = "accepted"})
      + Cardinality({s \in {1, 2} : <<a, b>>[s] # None})

LEMMA OneBusy ==
    ASSUME L!RateLimiterAssumption, W!WebSocketsAssumption,
           NEW calls, NEW conns, NEW a, NEW b, Busy(calls, conns, a, b) <= 1
    PROVE  /\ \A c, d \in Conns : conns[c] = "accepted" /\ conns[d] = "accepted" => c = d
           /\ \A c, d \in Callers : calls[c] # None /\ calls[d] # None => c = d
           /\ a = None \/ b = None
  <1>1. IsFiniteSet(Callers) /\ IsFiniteSet(Conns)
    BY InstanceSets DEF L!RateLimiterAssumption, W!WebSocketsAssumption
  <1>2. PICK A, B, C : /\ A = {x \in Callers : calls[x] # None}
                       /\ B = {x \in Conns : conns[x] = "accepted"}
                       /\ C = {x \in {1, 2} : <<a, b>>[x] # None}
    OBVIOUS
  <1>3. IsFiniteSet(A) /\ IsFiniteSet(B) /\ IsFiniteSet(C)
    <2>1. IsFiniteSet({1, 2})
      <3>1. IsFiniteSet({1})
        BY FS_Singleton
      <3>2. IsFiniteSet({1} \cup {2})
        BY <3>1, FS_AddElement
      <3>3. {1} \cup {2} = {1, 2}
        OBVIOUS
      <3>. QED  BY <3>2, <3>3
    <2>. QED  BY <1>1, <1>2, <2>1, FS_Subset
  <1>4. PICK i, j, k \in Nat : i = Cardinality(A) /\ j = Cardinality(B) /\ k = Cardinality(C)
    BY <1>3, FS_CardinalityType
  <1>5. i + j + k <= 1
    BY <1>2, <1>4 DEF Busy
  <1>6. Cardinality(A) <= 1 /\ Cardinality(B) <= 1 /\ Cardinality(C) <= 1
    BY <1>4, <1>5
  <1>7. \A c, d \in A : c = d
    BY <1>3, <1>6, AtMostOne
  <1>8. \A c, d \in B : c = d
    BY <1>3, <1>6, AtMostOne
  <1>9. \A c, d \in C : c = d
    BY <1>3, <1>6, AtMostOne
  <1>10. a # None /\ b # None => 1 \in C /\ 2 \in C
    BY <1>2
  <1>. QED  BY <1>2, <1>7, <1>8, <1>9, <1>10

LEMMA OneInFlight ==
    ASSUME L!RateLimiterAssumption, W!WebSocketsAssumption, InFlight <= 1
    PROVE  /\ \A c, d \in Conns : state[c] = "accepted" /\ state[d] = "accepted" => c = d
           /\ \A c, d \in Callers : call[c] # None /\ call[d] # None => c = d
           /\ sending = None \/ receiving = None
  <1>1. Busy(call, state, sending, receiving) <= 1
    BY DEF InFlight, Busy
  <1>. QED  BY <1>1, OneBusy

LEMMA OneInFlightNext ==
    ASSUME L!RateLimiterAssumption, W!WebSocketsAssumption, InFlight' <= 1
    PROVE  sending' = None \/ receiving' = None
  <1>1. Busy(call', state', sending', receiving') <= 1
    BY DEF InFlight, Busy
  <1>. QED  BY <1>1, OneBusy

LEMMA CapNext ==
    ASSUME L!RateLimiterAssumption, W!WebSocketsAssumption, GaugeInv, CapInv,
           [EdgesNext]_edgeVars
    PROVE  CapInv'
  <1>1. overlap' = overlap
    BY Choice
  <1>. SUFFICES ASSUME ~overlap
                PROVE  /\ Cardinality(W!Live') <= MaxConns
                       /\ \A c \in Conns : state'[c] = "accepted" =>
                             Cardinality(W!Live') < MaxConns
    BY <1>1 DEF CapInv
  <1>2. IsFiniteSet(Conns) /\ MaxConns \in Nat
    BY InstanceSets DEF W!WebSocketsAssumption
  <1>3. PICK n \in Nat : n = Cardinality(W!Live)
    BY <1>2, FS_Subset, FS_CardinalityType DEF W!Live
  <1>4. /\ n <= MaxConns /\ W!TypeOK /\ gauge = n + panics /\ panics \in Nat
        /\ \A c \in Conns : state[c] = "accepted" => n < MaxConns
    <2>1. panics \in Nat
      BY DEF GaugeInv, W!TypeOK, W!WebSocketsAssumption
    <2>2. W!TypeOK /\ gauge = n + panics
      BY <1>3, InstanceSets DEF GaugeInv, W!GaugeCountsOpen
    <2>. QED  BY <1>3, <2>1, <2>2 DEF CapInv
  <1>5. CASE UNCHANGED state
    <2>1. W!Live' = W!Live /\ state' = state
      BY <1>5 DEF W!Live
    <2>. QED  BY <1>3, <1>4, <2>1
  <1>6. ASSUME NEW c \in Conns, W!Accept(c), InFlight' <= 1 PROVE
               /\ Cardinality(W!Live') <= MaxConns
               /\ \A d \in Conns : state'[d] = "accepted" => Cardinality(W!Live') < MaxConns
    <2>1. W!Live' = W!Live
      BY <1>4, <1>6, LiveUnchanged DEF W!Accept, W!Goto, W!States
    <2>2. n < MaxConns
      <3>1. gauge < MaxConns
        BY <1>6 DEF W!Accept
      <3>2. gauge = n + panics /\ n \in Nat /\ panics \in Nat /\ MaxConns \in Nat
        BY <1>2, <1>4
      <3>. QED  BY ONLY <3>1, <3>2
    <2>3. Cardinality(W!Live') = n /\ n <= MaxConns
      BY <1>3, <1>4, <2>1
    <2>. QED  BY <2>2, <2>3
  <1>7. ASSUME NEW c \in Conns, W!Open(c), InFlight <= 1 PROVE
               /\ Cardinality(W!Live') <= MaxConns
               /\ \A d \in Conns : state'[d] = "accepted" => Cardinality(W!Live') < MaxConns
    <2>1. Cardinality(W!Live') = n + 1
      BY <1>2, <1>3, <1>4, <1>7, LiveAdded DEF W!Open, W!Goto
    <2>2. state[c] = "accepted" /\ state' = [state EXCEPT ![c] = "open"]
      BY <1>7 DEF W!Open, W!Goto
    <2>3. n < MaxConns
      BY <1>4, <2>2
    <2>4. \A d \in Conns : state'[d] # "accepted"
      <3>1. ASSUME NEW d \in Conns, state'[d] = "accepted" PROVE FALSE
        <4>1. d # c /\ state[d] = "accepted"
          BY <1>4, <2>2, <3>1 DEF W!TypeOK
        <4>. QED  BY <1>7, <2>2, <4>1, OneInFlight
      <3>. QED  BY <3>1
    <2>. QED  BY <1>2, <1>3, <2>1, <2>3, <2>4
  <1>8. ASSUME NEW c \in Conns, W!Loop(c) PROVE
               /\ Cardinality(W!Live') <= MaxConns
               /\ \A d \in Conns : state'[d] = "accepted" => Cardinality(W!Live') < MaxConns
    <2>1. /\ W!Live' \subseteq W!Live
          /\ \A d \in Conns : state'[d] = "accepted" => state[d] = "accepted"
      BY <1>4, <1>8 DEF W!Loop, W!Message, W!Answered, W!Close, W!Panic, W!Over, W!Goto, W!Live,
                        W!TypeOK
    <2>2. Cardinality(W!Live') <= n /\ Cardinality(W!Live') \in Nat
      <3>1. IsFiniteSet(W!Live) /\ IsFiniteSet(W!Live')
        BY <1>2, <2>1, FS_Subset DEF W!Live
      <3>. QED  BY <1>3, <2>1, <3>1, FS_Subset, FS_CardinalityType
    <2>3. PICK m \in Nat : m = Cardinality(W!Live')
      BY <2>2
    <2>4. m <= n
      BY <2>2, <2>3
    <2>5. m <= MaxConns
      BY <1>2, <1>4, <2>4
    <2>6. \A d \in Conns : state'[d] = "accepted" => m < MaxConns
      BY <1>2, <1>4, <2>1, <2>4
    <2>. QED  BY <2>3, <2>5, <2>6
  <1>9. \/ UNCHANGED state
        \/ InFlight <= 1 /\ InFlight' <= 1 /\ \E c \in Conns : W!Accept(c) \/ W!Open(c) \/ W!Loop(c)
    BY DEF EdgesNext, edgeVars, gates, sockets, Gate, W!Next, W!Tick
  <1>. QED  BY <1>5, <1>6, <1>7, <1>8, <1>9

\* The gauge of the connections counts those that are open and the tasks that
\* have panicked; no interval as long as a window holds more than two windows'
\* messages of a connection; and upgrades that do not overlap respect the cap
\* (handle_websocket, routes.rs).
THEOREM LimitedSockets ==
    ASSUME L!RateLimiterAssumption, W!WebSocketsAssumption
    PROVE  EdgesSpec => []SocketsAreLimited
  <1>. DEFINE Inv == GaugeInv /\ WindowsInv /\ CapInv
  <1>1. EdgesInit => Inv
    <2>. SUFFICES ASSUME EdgesInit PROVE Inv
      OBVIOUS
    <2>1. GaugeInv /\ WindowsInv
      BY GaugeInit, WindowsInit DEF EdgesInit
    <2>2. W!Live = {} /\ \A c \in Conns : state[c] # "accepted"
      BY DEF EdgesInit, W!Init, W!Live
    <2>3. CapInv
      BY <2>2, FS_EmptySet DEF CapInv, W!WebSocketsAssumption
    <2>. QED  BY <2>1, <2>3
  <1>2. Inv /\ [EdgesNext]_edgeVars => Inv'
    BY GaugeNext, WindowsNext, CapNext, Steps DEF GaugeInv
  <1>3. Inv => SocketsAreLimited
    <2>. SUFFICES ASSUME Inv PROVE SocketsAreLimited
      OBVIOUS
    <2>1. W!TwoWindowsAtMost
      <3>1. W!Times = Clock
        BY DEF Clock, W!Times
      <3>2. \A c \in Conns, t \in Clock : Total(served[c], t, t + Window - 1) <= 2 * MaxMessages
        BY DEF WindowsInv, Windowed
      <3>. QED  BY <3>1, <3>2, InstanceSums DEF W!TwoWindowsAtMost, Total
    <2>. QED  BY <2>1, InstanceSets DEF GaugeInv, CapInv, W!ConnectionCap, SocketsAreLimited
  <1>. QED  BY <1>1, <1>2, <1>3, PTL DEF EdgesSpec

-----------------------------------------------------------------------------
(* The polling listener of Telegram.                                       *)

TgWanted == {p \in TG!Posts : TG!Accepts(posted[p])}

\* The types the argument needs.
TgTypes == /\ posted \in Seq(Telegrams)
           /\ handed \in Seq(Nat)
           /\ lastUpdateId \in 0..Len(posted)
           /\ offered \subseteq TG!Posts /\ settled \subseteq TG!Posts

\* What is settled, and what the offset has passed, has been handed over.
PassedHanded == \A p \in TgWanted : p \in settled \/ p <= lastUpdateId => p \in ever

\* What the answer offers is beyond the offset, and what it leaves out up to
\* an update that it offers was settled before.
OfferedWhole ==
    \A q \in offered : /\ lastUpdateId < q
                       /\ \A p \in 1..q : \/ p <= lastUpdateId \/ p \in offered
                                          \/ p \in settled

\* What this start has handed over is not beyond the offset.
HandedPassed == \A i \in DOMAIN handed : handed[i] <= lastUpdateId

TgInv == TgTypes /\ PassedHanded /\ OfferedWhole /\ HandedPassed

\* Initially there is no message.
LEMMA TgInit == TG!Init => TgInv /\ TG!Feed!Init
  <1>. SUFFICES ASSUME TG!Init PROVE TgInv /\ TG!Feed!Init
    OBVIOUS
  <1>1. TgInv
    BY DEF TG!Init, TG!SharedInit, TgInv, TgTypes, PassedHanded, OfferedWhole, HandedPassed,
           TgWanted, TG!Posts
  <1>2. TG!OneRoom = << >>
    BY DEF TG!Init, TG!SharedInit, TG!OneRoom, TG!Posts
  <1>3. TG!Feed!Init
    BY <1>2 DEF TG!Init, TG!SharedInit, TgWanted, TG!Posts, TG!Feed!Init
  <1>. QED  BY <1>1, <1>3

\* A new message is beyond everything.
LEMMA TgPost ==
    ASSUME TgInv, TG!Post, UNCHANGED <<lastUpdateId, offered>>
    PROVE  TgInv' /\ TG!Feed!Next
  <1>1. PICK u \in Telegrams : posted' = Append(posted, u)
    BY DEF TG!Post
  <1>2. /\ posted' \in Seq(Telegrams) /\ Len(posted') = Len(posted) + 1
        /\ \A p \in TG!Posts : posted'[p] = posted[p]
        /\ TG!Posts = 1..Len(posted) /\ TG!Posts' = 1..(Len(posted) + 1)
    BY <1>1 DEF TgInv, TgTypes, TG!Posts
  <1>3. UNCHANGED <<settled, handed, ever, lastUpdateId, offered>>
    BY DEF TG!Post
  <1>4. \A p \in TG!Posts : p \in TgWanted' <=> p \in TgWanted
    BY <1>2 DEF TgWanted, TG!Accepts
  <1>5. TgWanted' \in {TgWanted, TgWanted \cup {Len(posted) + 1}}
    BY <1>2, <1>4 DEF TgWanted
  <1>6. TgTypes'
    BY <1>2, <1>3 DEF TgInv, TgTypes
  <1>7. PassedHanded'
    BY <1>2, <1>3, <1>4 DEF TgInv, TgTypes, PassedHanded, TgWanted
  <1>8. OfferedWhole' /\ HandedPassed'
    BY <1>3 DEF TgInv, OfferedWhole, HandedPassed
  <1>9. TG!Feed!Post
    BY <1>2, <1>3, <1>5 DEF TG!Feed!Post, TgWanted, TG!OneRoom
  <1>10. TG!Feed!Forgets
    BY <1>2, <1>3, <1>4 DEF TgInv, TgTypes, PassedHanded, TgWanted, TG!Feed!Forgets
  <1>. QED  BY <1>6, <1>7, <1>8, <1>9, <1>10 DEF TgInv, TG!Feed!Next

\* A request confirms what the offset has passed, and nothing else.
LEMMA PollStep == ASSUME TgInv, TG!Poll PROVE TgInv' /\ TG!Feed!Next
  <1>1. UNCHANGED <<posted, handed, ever, lastUpdateId>>
    BY DEF TG!Poll
  <1>2. settled' \in {settled, settled \cup 1..lastUpdateId}
    BY DEF TG!Poll
  <1>3. offered' \in {{}, TG!Offered(lastUpdateId + 1)}
    BY DEF TG!Poll
  <1>4. TgTypes'
    BY <1>1, <1>2, <1>3 DEF TgInv, TgTypes, TG!Offered, TG!Posts
  <1>5. PassedHanded'
    BY <1>1, <1>2 DEF TgInv, TgTypes, PassedHanded, TgWanted, TG!Posts, TG!Accepts
  <1>6. OfferedWhole'
    BY <1>1, <1>2, <1>3 DEF TgInv, TgTypes, OfferedWhole, TG!Offered, TG!Posts
  <1>7. HandedPassed'
    BY <1>1 DEF TgInv, HandedPassed
  <1>8. TG!Feed!Forgets
    BY <1>1, <1>2, <1>5 DEF TG!Feed!Forgets, TgInv, TgTypes, PassedHanded, TgWanted, TG!Posts, TG!Accepts
  <1>9. UNCHANGED <<Len(posted), TG!OneRoom, TgWanted, handed, ever>>
    BY <1>1 DEF TgWanted, TG!OneRoom, TG!Posts, TG!Accepts
  <1>. QED  BY <1>4, <1>5, <1>6, <1>7, <1>8, <1>9 DEF TgInv, TG!Feed!Next, TgWanted

\* The next update offered is the least one that is not settled.
LEMMA ProcessStep ==
    ASSUME TgInv, NEW p \in offered, TG!Process(p)
    PROVE  TgInv' /\ TG!Feed!Next
  <1>1. /\ p \in TG!Posts /\ p \notin offered' /\ offered' \subseteq offered
        /\ \A q \in offered : p <= q
        /\ lastUpdateId' = p /\ UNCHANGED <<posted, settled>>
    BY DEF TgInv, TgTypes, TG!Process, TG!IsNext
  <1>2. \/ p \in TgWanted /\ handed' = Append(handed, p) /\ ever' = ever \cup {p}
        \/ p \notin TgWanted /\ UNCHANGED <<handed, ever>>
    BY <1>1 DEF TG!Process, TG!Take, TG!Send, TgWanted
  <1>3. \A q \in TgWanted : q < p => q \in ever
    BY <1>1 DEF TgInv, TgTypes, PassedHanded, OfferedWhole, TgWanted, TG!Posts
  <1>4. TgTypes'
    BY <1>1, <1>2 DEF TgInv, TgTypes, TG!Posts
  <1>5. PassedHanded'
    BY <1>1, <1>2, <1>3 DEF TgInv, TgTypes, PassedHanded, TgWanted, TG!Posts, TG!Accepts
  <1>6. OfferedWhole'
    BY <1>1 DEF TgInv, TgTypes, OfferedWhole, TG!Posts, TG!Process
  <1>7. \A i \in DOMAIN handed : handed[i] < p
    BY <1>1 DEF TgInv, TgTypes, HandedPassed, OfferedWhole, TG!Posts
  <1>8. HandedPassed'
    <2>1. p \in Nat /\ handed \in Seq(Nat)
      BY <1>1 DEF TgInv, TgTypes, TG!Posts
    <2>2. CASE handed' = Append(handed, p)
      BY <1>1, <1>7, <2>1, <2>2 DEF HandedPassed
    <2>3. CASE handed' = handed
      BY <1>1, <1>7, <2>1, <2>3 DEF HandedPassed
    <2>. QED  BY <1>2, <2>2, <2>3
  <1>9. UNCHANGED <<Len(posted), TG!OneRoom, TgWanted, settled>>
    BY <1>1 DEF TgWanted, TG!OneRoom, TG!Posts, TG!Accepts
  <1>10. TG!Feed!Hand \/ UNCHANGED <<Len(posted), TG!OneRoom, TgWanted, handed, ever>>
    <2>1. \A i \in DOMAIN handed : handed[i] # p /\ handed[i] < p
      BY <1>1, <1>7 DEF TgInv, TgTypes, TG!Posts
    <2>2. CASE p \in TgWanted /\ handed' = Append(handed, p) /\ ever' = ever \cup {p}
      BY <1>9, <2>1, <2>2 DEF TG!Feed!Hand, TgWanted
    <2>. QED  BY <1>2, <1>9, <2>2
  <1>11. TG!Feed!Forgets
    BY <1>2, <1>9 DEF TG!Feed!Forgets, TgInv, PassedHanded, TgWanted
  <1>. QED  BY <1>4, <1>5, <1>6, <1>8, <1>10, <1>11 DEF TgInv, TG!Feed!Next, TgWanted

\* A restart forgets the offset, and offers everything anew.
LEMMA RestartStep == ASSUME TgInv, TG!Restart PROVE TgInv' /\ TG!Feed!Next
  <1>1. UNCHANGED <<posted, settled, ever>> /\ handed' = <<>>
    BY DEF TG!Restart, TG!Die
  <1>2. TgTypes'
    BY <1>1 DEF TgInv, TgTypes, TG!Posts, TG!Restart
  <1>3. PassedHanded'
    BY <1>1 DEF TgInv, TgTypes, PassedHanded, TgWanted, TG!Posts, TG!Accepts, TG!Restart
  <1>4. OfferedWhole' /\ HandedPassed'
    BY <1>1 DEF TG!Restart, OfferedWhole, HandedPassed
  <1>5. TG!Feed!Restart /\ TG!Feed!Forgets
    BY <1>1 DEF TG!Feed!Restart, TG!Feed!Forgets, TgInv, PassedHanded, TgWanted, TG!OneRoom,
                TG!Posts, TG!Accepts
  <1>. QED  BY <1>2, <1>3, <1>4, <1>5 DEF TgInv, TG!Feed!Next

\* What neither answers nor hands over anything leaves the promise alone.
LEMMA QuietStep ==
    ASSUME TgInv, UNCHANGED <<posted, settled, handed, ever, lastUpdateId, offered>>
    PROVE  TgInv' /\ UNCHANGED TG!Feed!vars
  BY DEF TgInv, TgTypes, PassedHanded, OfferedWhole, HandedPassed, TgWanted, TG!Posts,
         TG!OneRoom, TG!Accepts, TG!Feed!vars

\* Every step keeps the invariant and is one of ChannelFeed's.
LEMMA NextStep == TgInv /\ [TG!Next]_(TG!tgVars) => TgInv' /\ [TG!Feed!Next]_(TG!Feed!vars)
  <1>. SUFFICES ASSUME TgInv, [TG!Next]_(TG!tgVars) PROVE TgInv' /\ [TG!Feed!Next]_(TG!Feed!vars)
    OBVIOUS
  <1>1. CASE TG!Post /\ UNCHANGED <<lastUpdateId, offered>>
    BY <1>1, TgPost
  <1>2. CASE TG!Poll
    BY <1>2, PollStep
  <1>3. CASE \E p \in offered : TG!Process(p)
    BY <1>3, ProcessStep
  <1>4. CASE TG!Restart
    BY <1>4, RestartStep
  <1>5. CASE (TG!Shutdown /\ UNCHANGED <<lastUpdateId, offered>>) \/ UNCHANGED TG!tgVars
    BY <1>5, QuietStep DEF TG!Shutdown, TG!tgVars, TG!shared
  <1>. QED  BY <1>1, <1>2, <1>3, <1>4, <1>5 DEF TG!Next

\* The polling listener (start_listening, telegram.rs:327-424) keeps the promise
\* of ChannelFeed.
THEOREM TelegramFeeds == TG!Spec => TG!Feed!Spec
  <1>. QED  BY TgInit, NextStep, PTL DEF TG!Spec, TG!Feed!Spec

-----------------------------------------------------------------------------
(* The receipts of the webhooks.                                           *)

\* The handler of batch b has dealt with its first k messages.
Upto(b, k) ==
    /\ request[b] = SubSeq(Batch[b], k + 1, Len(Batch[b]))
    /\ \A i \in 1..k : H!Was(Batch[b][i]) \/ Batch[b][i] \in failed
    /\ b \notin given => \A i \in (k + 1)..Len(Batch[b]) : ~ H!Was(Batch[b][i])

\* Receipts is not inductive: it says nothing of a request under way, nor of a
\* batch that has not been posted yet or is to be posted again.
WayInv   == \A b \in H!Batches : request[b] # None => \E k \in 0..Len(Batch[b]) : Upto(b, k)
FreshInv == \A b \in H!Batches : b \notin given \cup answered /\ request[b] = None =>
                \A i \in DOMAIN Batch[b] : ~ H!Was(Batch[b][i])
DoneInv  == \A b \in answered : /\ request[b] = None
                                /\ \A i \in DOMAIN Batch[b] :
                                      H!Was(Batch[b][i]) \/ Batch[b][i] \in failed
OnceInv  == /\ \A i \in DOMAIN published : \E b \in H!Batches : \E j \in DOMAIN Batch[b] :
                  published[i] = Batch[b][j]
            /\ \A i, j \in DOMAIN published : \A b \in H!Batches : \A k \in DOMAIN Batch[b] :
                  i < j /\ published[i] = published[j] /\ published[i] = Batch[b][k]
                      => b \in given

\* The type invariant, set by set.
HookTypes == /\ setup \in Hooks /\ tries \in [H!Batches -> 0..MaxTries]
             /\ request \in [H!Batches -> Seq(Messages) \cup {None}]
             /\ answered \subseteq H!Batches
             /\ given \subseteq H!Batches
             /\ published \in Seq(Messages) /\ failed \subseteq Messages
             /\ fails \in 0..MaxFails

ReceiptsInv == HookTypes /\ WayInv /\ FreshInv /\ DoneInv /\ OnceInv

LEMMA ReceiptsInit == ASSUME H!WebhooksAssumption, H!Init PROVE ReceiptsInv
  BY DEF H!WebhooksAssumption, H!Init, ReceiptsInv, HookTypes, WayInv, FreshInv, DoneInv, OnceInv,
         H!Was

LEMMA HooksType ==
    ASSUME H!WebhooksAssumption, HookTypes, [H!Next]_(H!vars) PROVE HookTypes'
  <1>. USE DEF HookTypes, H!WebhooksAssumption, H!Batches
  <1>1. CASE UNCHANGED H!vars
    BY <1>1 DEF H!vars
  <1>2. ASSUME NEW b \in H!Batches, H!Arrive(b) PROVE HookTypes'
    <2>1. tries' \in [H!Batches -> 0..MaxTries]
      BY <1>2 DEF H!Arrive
    <2>2. Batch[b] \in Seq(Messages)
      OBVIOUS
    <2>. QED  BY <1>2, <2>1, <2>2 DEF H!Arrive
  <1>3. ASSUME NEW b \in H!Batches, H!Publish(b) PROVE HookTypes'
    <2>1. request[b] \in Seq(Messages) /\ request[b] # <<>>
      BY <1>3 DEF H!Publish
    <2>2. PICK m \in Messages, q \in Seq(Messages) : m = Head(request[b]) /\ q = Tail(request[b])
      <3>1. PICK r \in Seq(Messages) : r = request[b] /\ r # <<>>
        BY <2>1
      <3>2. Head(r) \in Messages /\ Tail(r) \in Seq(Messages)
        BY ONLY <3>1
      <3>. QED  BY <3>1, <3>2
    <2>3. /\ request' = [request EXCEPT ![b] = q]
          /\ \/ published' = Append(published, m) /\ failed' = failed /\ fails' = fails
             \/ published' = published /\ failed' = failed \cup {m} /\ fails' = fails + 1
                /\ fails < MaxFails
          /\ UNCHANGED <<setup, tries, answered, given>>
      BY <1>3, <2>2 DEF H!Publish
    <2>4. fails' \in 0..MaxFails
      BY <2>3
    <2>5. request' \in [H!Batches -> Seq(Messages) \cup {None}]
      BY <2>3
    <2>6. published' \in Seq(Messages)
      <3>1. Append(published, m) \in Seq(Messages)
        BY ONLY published \in Seq(Messages), m \in Messages
      <3>. QED  BY <2>3, <3>1
    <2>7. failed' \subseteq Messages
      BY <2>3
    <2>. QED  BY <2>3, <2>4, <2>5, <2>6, <2>7
  <1>4. ASSUME NEW b \in H!Batches, H!Answer(b) PROVE HookTypes'
    BY <1>4 DEF H!Answer
  <1>5. ASSUME NEW b \in H!Batches, H!GiveUp(b) PROVE HookTypes'
    BY <1>5 DEF H!GiveUp
  <1>. QED  BY <1>1, <1>2, <1>3, <1>4, <1>5 DEF H!Next

LEMMA SeqEqual ==
    ASSUME NEW S, NEW s \in Seq(S), NEW q \in Seq(S), Len(s) = Len(q),
           \A i \in 1..Len(s) : s[i] = q[i]
    PROVE  s = q
  OBVIOUS

\* What is left of a sequence, after none of its elements and after the next.
LEMMA Leftovers ==
    ASSUME NEW S, NEW s \in Seq(S), NEW k \in 0..Len(s), NEW rest, rest = SubSeq(s, k + 1, Len(s))
    PROVE  /\ rest \in Seq(S)
           /\ rest = <<>> => k = Len(s)
           /\ rest # <<>> => /\ k < Len(s)
                             /\ Head(rest) = s[k + 1]
                             /\ Tail(rest) = SubSeq(s, k + 2, Len(s))
           /\ SubSeq(s, 1, Len(s)) = s
  <1>1. /\ rest \in Seq(S) /\ Len(rest) = Len(s) - k
        /\ \A i \in 1..Len(rest) : rest[i] = s[k + i]
    OBVIOUS
  <1>2. ASSUME rest = <<>> PROVE k = Len(s)
    <2>1. Len(rest) = 0
      BY ONLY <1>2
    <2>. QED  BY ONLY <1>1, <2>1, k \in 0..Len(s), Len(s) \in Nat
  <1>3. ASSUME rest # <<>> PROVE k < Len(s) /\ Head(rest) = s[k + 1]
    BY <1>1, <1>3
  <1>4. ASSUME rest # <<>> PROVE Tail(rest) = SubSeq(s, k + 2, Len(s))
    <2>1. /\ Tail(rest) \in Seq(S) /\ Len(Tail(rest)) = Len(rest) - 1
          /\ \A i \in 1..Len(Tail(rest)) : Tail(rest)[i] = rest[i + 1]
      BY <1>1, <1>4
    <2>2. PICK last : last = SubSeq(s, k + 2, Len(s))
      OBVIOUS
    <2>3. /\ last \in Seq(S) /\ Len(last) = Len(s) - k - 1
          /\ \A i \in 1..Len(last) : last[i] = s[k + 1 + i]
      BY <1>3, <1>4, <2>2
    <2>4. PICK q \in Seq(S) : q = Tail(rest)
      BY <2>1
    <2>5. Len(q) = Len(last) /\ \A i \in 1..Len(q) : q[i] = last[i]
      BY <1>1, <2>1, <2>3, <2>4
    <2>6. q = last
      BY ONLY <2>3, <2>4, <2>5, SeqEqual
    <2>. QED  BY <2>2, <2>4, <2>6
  <1>5. SubSeq(s, 1, Len(s)) = s
    OBVIOUS
  <1>. QED  BY <1>1, <1>2, <1>3, <1>4, <1>5

\* No two batches have a message in common.
LEMMA Apart ==
    ASSUME H!WebhooksAssumption, NEW b \in H!Batches, NEW c \in H!Batches,
           NEW i \in DOMAIN Batch[b], NEW j \in DOMAIN Batch[c], Batch[b][i] = Batch[c][j]
    PROVE  b = c /\ i = j
  BY DEF H!WebhooksAssumption

LEMMA ReceiptsNext ==
    ASSUME H!WebhooksAssumption, ReceiptsInv, [H!Next]_(H!vars)
    PROVE  ReceiptsInv'
  <1>1. HookTypes' /\ HookTypes
    BY HooksType DEF ReceiptsInv
  <1>2. \A b \in H!Batches : Batch[b] \in Seq(Messages) /\ DOMAIN Batch[b] = 1..Len(Batch[b])
                             /\ Len(Batch[b]) \in Nat
    BY DEF H!WebhooksAssumption
  <1>3. None \notin Seq(Messages)
    BY DEF H!WebhooksAssumption
  <1>4. request \in [H!Batches -> Seq(Messages) \cup {None}] /\ published \in Seq(Messages)
    BY <1>1 DEF HookTypes
  <1>. USE DEF ReceiptsInv
  <1>5. CASE UNCHANGED H!vars
    <2>1. UNCHANGED <<request, answered, given, published, failed>>
      BY <1>5 DEF H!vars
    <2>2. \A x : H!Was(x)' <=> H!Was(x)
      BY <2>1 DEF H!Was
    <2>3. WayInv'
      BY <2>1, <2>2 DEF WayInv, Upto, H!Batches
    <2>4. FreshInv' /\ DoneInv'
      BY <2>1, <2>2 DEF FreshInv, DoneInv, H!Batches
    <2>5. OnceInv'
      BY <2>1 DEF OnceInv, H!Batches
    <2>. QED  BY <1>1, <2>3, <2>4, <2>5
  <1>6. ASSUME NEW b \in H!Batches, H!Arrive(b) PROVE ReceiptsInv'
    <2>1. /\ published' = published /\ failed' = failed /\ given' = given /\ answered' = answered
          /\ request[b] = None /\ b \notin answered
          /\ \A c \in H!Batches : c # b => request'[c] = request[c]
          /\ request'[b] \in {None, Batch[b]}
      BY <1>4, <1>6 DEF H!Arrive
    <2>2. \A x : H!Was(x)' <=> H!Was(x)
      BY <2>1 DEF H!Was
    <2>3. WayInv'
      <3>1. ASSUME NEW c \in H!Batches, request'[c] # None
            PROVE  \E k \in 0..Len(Batch[c]) : Upto(c, k)'
        <4>1. CASE c # b
          <5>1. PICK k \in 0..Len(Batch[c]) : Upto(c, k)
            BY <2>1, <3>1, <4>1 DEF WayInv
          <5>. QED  BY <2>1, <2>2, <4>1, <5>1 DEF Upto
        <4>2. CASE c = b
          <5>1. request'[b] = SubSeq(Batch[b], 0 + 1, Len(Batch[b]))
            BY <1>2, <2>1, <3>1, <4>2
          <5>2. b \notin given => \A i \in (0 + 1)..Len(Batch[b]) : ~ H!Was(Batch[b][i])
            BY <1>2, <2>1 DEF FreshInv
          <5>3. Upto(b, 0)'
            BY <1>2, <2>1, <2>2, <5>1, <5>2 DEF Upto
          <5>. QED  BY <1>2, <4>2, <5>3
        <4>. QED  BY <4>1, <4>2
      <3>. QED  BY <3>1 DEF WayInv, H!Batches
    <2>4. FreshInv' /\ DoneInv' /\ OnceInv'
      BY <1>1, <2>1, <2>2 DEF FreshInv, DoneInv, OnceInv, H!Batches, HookTypes
    <2>. QED  BY <1>1, <2>3, <2>4
  <1>7. ASSUME NEW b \in H!Batches, H!Publish(b) PROVE ReceiptsInv'
    <2>1. PICK k \in 0..Len(Batch[b]) : Upto(b, k)
      BY <1>7 DEF WayInv, H!Publish
    <2>2. request[b] = SubSeq(Batch[b], k + 1, Len(Batch[b])) /\ request[b] # <<>>
          /\ request[b] # None
      BY <1>7, <2>1 DEF H!Publish, Upto
    <2>3. PICK m : m = Batch[b][k + 1]
      OBVIOUS
    <2>4. /\ k + 1 \in 1..Len(Batch[b]) /\ Head(request[b]) = m
          /\ Tail(request[b]) = SubSeq(Batch[b], k + 2, Len(Batch[b]))
          /\ Tail(request[b]) \in Seq(Messages)
      BY <1>2, <2>2, <2>3, Leftovers
    <2>5. /\ given' = given /\ answered' = answered
          /\ \A c \in H!Batches : c # b => request'[c] = request[c]
          /\ request'[b] = SubSeq(Batch[b], k + 2, Len(Batch[b]))
          /\ \/ published' = Append(published, m) /\ failed' = failed
             \/ published' = published /\ failed' = failed \cup {m}
      BY <1>4, <1>7, <2>4 DEF H!Publish
    <2>6. \A x : (H!Was(x) => H!Was(x)') /\ (H!Was(x)' => H!Was(x) \/ x = m)
      <3>1. CASE published' = published
        BY <3>1 DEF H!Was
      <3>2. CASE published' = Append(published, m)
        <4>1. PICK n \in Nat : n = Len(published)
          BY <1>4
        <4>2. /\ DOMAIN published = 1..n /\ DOMAIN published' = 1..(n + 1)
              /\ published'[n + 1] = m
              /\ \A i \in 1..n : published'[i] = published[i]
          BY <1>4, <3>2, <4>1
        <4>. QED  BY <4>2 DEF H!Was
      <3>. QED  BY <2>5, <3>1, <3>2
    <2>7. H!Was(m)' \/ m \in failed'
      <3>1. CASE published' = Append(published, m)
        <4>1. Len(published) + 1 \in DOMAIN published' /\ published'[Len(published) + 1] = m
          BY <1>4, <3>1
        <4>. QED  BY <4>1 DEF H!Was
      <3>. QED  BY <2>5, <3>1
    <2>8. \A c \in H!Batches : \A i \in DOMAIN Batch[c] : Batch[c][i] = m => c = b /\ i = k + 1
      BY <1>2, <2>3, <2>4, Apart
    <2>9. WayInv'
      <3>1. ASSUME NEW c \in H!Batches, request'[c] # None
            PROVE  \E l \in 0..Len(Batch[c]) : Upto(c, l)'
        <4>1. CASE c # b
          <5>1. PICK l \in 0..Len(Batch[c]) : Upto(c, l)
            BY <2>5, <3>1, <4>1 DEF WayInv
          <5>2. \A i \in DOMAIN Batch[c] : H!Was(Batch[c][i])' <=> H!Was(Batch[c][i])
            BY <2>6, <2>8, <4>1
          <5>3. Upto(c, l)'
            BY <1>2, <2>5, <4>1, <5>1, <5>2 DEF Upto
          <5>. QED  BY <5>3
        <4>2. CASE c = b
          <5>1. k + 1 \in 0..Len(Batch[b]) /\ (k + 1) + 1 = k + 2 /\ k \in Nat
            BY <1>2, <2>4
          <5>2. \A i \in 1..(k + 1) : H!Was(Batch[b][i])' \/ Batch[b][i] \in failed'
            <6>1. ASSUME NEW i \in 1..(k + 1) PROVE H!Was(Batch[b][i])' \/ Batch[b][i] \in failed'
              <7>1. CASE i = k + 1
                BY <2>3, <2>7, <7>1
              <7>2. CASE i # k + 1
                <8>1. i \in 1..k
                  BY <5>1, <7>2
                <8>. QED  BY <2>1, <2>5, <2>6, <8>1 DEF Upto
              <7>. QED  BY <7>1, <7>2
            <6>. QED  BY <6>1
          <5>3. b \notin given => \A i \in (k + 2)..Len(Batch[b]) : ~ H!Was(Batch[b][i])'
            <6>1. ASSUME b \notin given, NEW i \in (k + 2)..Len(Batch[b])
                  PROVE  ~ H!Was(Batch[b][i])'
              <7>1. i \in (k + 1)..Len(Batch[b]) /\ i \in DOMAIN Batch[b] /\ i # k + 1
                BY <1>2, <5>1
              <7>2. ~ H!Was(Batch[b][i]) /\ Batch[b][i] # m
                BY <2>1, <2>8, <6>1, <7>1 DEF Upto
              <7>. QED  BY <2>6, <7>2
            <6>. QED  BY <6>1
          <5>4. Upto(b, k + 1)'
            BY <2>5, <5>1, <5>2, <5>3 DEF Upto
          <5>. QED  BY <4>2, <5>1, <5>4
        <4>. QED  BY <4>1, <4>2
      <3>. QED  BY <3>1 DEF WayInv, H!Batches
    <2>10. FreshInv'
      <3>1. request'[b] # None
        <4>1. request'[b] \in Seq(Messages)
          BY <2>4, <2>5
        <4>. QED  BY <1>3, <4>1
      <3>. QED  BY <2>5, <2>6, <2>8, <3>1 DEF FreshInv, H!Batches
    <2>11. DoneInv'
      <3>1. b \notin answered
        BY <2>2 DEF DoneInv
      <3>. QED  BY <1>1, <2>5, <2>6, <3>1 DEF DoneInv, H!Batches, HookTypes
    <2>12. OnceInv'
      <3>1. CASE published' = published
        BY <2>5, <3>1 DEF OnceInv, H!Batches
      <3>2. CASE published' = Append(published, m)
        <4>1. PICK n \in Nat : n = Len(published)
          BY <1>4
        <4>2. /\ DOMAIN published = 1..n /\ DOMAIN published' = 1..(n + 1)
              /\ published'[n + 1] = m
              /\ \A i \in 1..n : published'[i] = published[i]
          BY <1>4, <3>2, <4>1
        <4>3. \A i \in 1..n : published[i] = m => b \in given
          <5>1. ASSUME NEW i \in 1..n, published[i] = m, b \notin given PROVE FALSE
            <6>1. H!Was(Batch[b][k + 1])
              BY <2>3, <4>2, <5>1 DEF H!Was
            <6>2. k + 1 \in (k + 1)..Len(Batch[b])
              BY <1>2, <2>4
            <6>. QED  BY <2>1, <5>1, <6>1, <6>2 DEF Upto
          <5>. QED  BY <5>1
        <4>4. \A i \in 1..(n + 1) : \E c \in H!Batches : \E j \in DOMAIN Batch[c] :
                 published'[i] = Batch[c][j]
          <5>1. ASSUME NEW i \in 1..(n + 1)
                PROVE  \E c \in H!Batches : \E j \in DOMAIN Batch[c] : published'[i] = Batch[c][j]
            <6>1. CASE i = n + 1
              BY <1>2, <2>3, <2>4, <4>2, <6>1
            <6>2. CASE i # n + 1
              <7>1. i \in 1..n
                BY <4>1, <6>2
              <7>. QED  BY <4>2, <7>1 DEF OnceInv
            <6>. QED  BY <6>1, <6>2
          <5>. QED  BY <5>1
        <4>5. ASSUME NEW i \in 1..(n + 1), NEW j \in 1..(n + 1), NEW c \in H!Batches,
                     NEW l \in DOMAIN Batch[c],
                     i < j, published'[i] = published'[j], published'[i] = Batch[c][l]
              PROVE  c \in given
          <5>1. i \in 1..n
            BY <4>1, <4>5
          <5>2. CASE j = n + 1
            BY <2>8, <4>2, <4>3, <4>5, <5>1, <5>2
          <5>3. CASE j # n + 1
            <6>1. j \in 1..n
              BY <4>1, <5>3
            <6>. QED  BY <4>2, <4>5, <5>1, <6>1 DEF OnceInv
          <5>. QED  BY <5>2, <5>3
        <4>. QED  BY <2>5, <4>2, <4>4, <4>5 DEF OnceInv, H!Batches
      <3>. QED  BY <2>5, <3>1, <3>2
    <2>. QED  BY <1>1, <2>9, <2>10, <2>11, <2>12
  <1>8. ASSUME NEW b \in H!Batches, H!Answer(b) PROVE ReceiptsInv'
    <2>1. /\ published' = published /\ failed' = failed /\ given' = given
          /\ answered' = answered \cup {b} /\ request[b] = <<>> /\ request'[b] = None
          /\ \A c \in H!Batches : c # b => request'[c] = request[c]
      BY <1>4, <1>8 DEF H!Answer
    <2>2. \A x : H!Was(x)' <=> H!Was(x)
      BY <2>1 DEF H!Was
    <2>3. request[b] # None
      <3>1. <<>> \in Seq(Messages)
        OBVIOUS
      <3>. QED  BY <1>3, <2>1, <3>1
    <2>4. PICK k \in 0..Len(Batch[b]) : Upto(b, k)
      BY <2>3 DEF WayInv
    <2>5. k = Len(Batch[b])
      BY <1>2, <2>1, <2>4, Leftovers DEF Upto
    <2>6. \A i \in DOMAIN Batch[b] : H!Was(Batch[b][i]) \/ Batch[b][i] \in failed
      BY <1>2, <2>4, <2>5 DEF Upto
    <2>7. WayInv' /\ FreshInv' /\ OnceInv'
      BY <2>1, <2>2 DEF WayInv, Upto, FreshInv, OnceInv, H!Batches
    <2>8. DoneInv'
      BY <1>1, <2>1, <2>2, <2>6 DEF DoneInv, H!Batches, HookTypes
    <2>. QED  BY <1>1, <2>7, <2>8
  <1>9. ASSUME NEW b \in H!Batches, H!GiveUp(b) PROVE ReceiptsInv'
    <2>1. /\ published' = published /\ failed' = failed /\ given' = given \cup {b}
          /\ answered' = answered /\ request'[b] = None
          /\ \A c \in H!Batches : c # b => request'[c] = request[c]
      BY <1>4, <1>9 DEF H!GiveUp
    <2>2. \A x : H!Was(x)' <=> H!Was(x)
      BY <2>1 DEF H!Was
    <2>3. WayInv' /\ FreshInv' /\ DoneInv' /\ OnceInv'
      BY <1>1, <2>1, <2>2 DEF WayInv, Upto, FreshInv, DoneInv, OnceInv, H!Batches, HookTypes
    <2>. QED  BY <1>1, <2>3
  <1>. QED  BY <1>5, <1>6, <1>7, <1>8, <1>9 DEF H!Next

\* A batch the platform may forget has been published but for publications that
\* failed, and a message comes twice only when an attempt at its batch was cut
\* (the loops of the webhook handlers, routes.rs).
THEOREM ReceiptsHold ==
    ASSUME H!WebhooksAssumption PROVE EdgesSpec => []Receipts
  <1>1. EdgesInit => ReceiptsInv
    BY ReceiptsInit DEF EdgesInit
  <1>2. ReceiptsInv /\ [EdgesNext]_edgeVars => ReceiptsInv'
    BY Steps, ReceiptsNext
  <1>3. ReceiptsInv => Receipts
    <2>. SUFFICES ASSUME ReceiptsInv PROVE Receipts
      OBVIOUS
    <2>1. ASSUME NEW i \in DOMAIN published, NEW j \in DOMAIN published,
                 i < j, published[i] = published[j]
          PROVE  H!BatchOf(published[i]) \in given
      <3>1. PICK b \in H!Batches : \E k \in DOMAIN Batch[b] : published[i] = Batch[b][k]
        BY DEF ReceiptsInv, OnceInv
      <3>2. PICK k \in DOMAIN Batch[b] : published[i] = Batch[b][k]
        BY <3>1
      <3>3. b \in given
        BY <2>1, <3>2 DEF ReceiptsInv, OnceInv
      <3>4. H!BatchOf(published[i]) = b
        <4>1. /\ H!BatchOf(published[i]) \in H!Batches
              /\ \E l \in DOMAIN Batch[H!BatchOf(published[i])] :
                    Batch[H!BatchOf(published[i])][l] = published[i]
          BY <3>2 DEF H!BatchOf
        <4>. QED  BY <3>2, <4>1, Apart
      <3>. QED  BY <3>3, <3>4
    <2>. QED  BY <2>1 DEF Receipts, H!Receipts, ReceiptsInv, DoneInv
  <1>. QED  BY <1>1, <1>2, <1>3, PTL DEF EdgesSpec

-----------------------------------------------------------------------------
(* The way of a reply back to its chat.                                    *)

\* The index points at the adapter of its kind, and a kind that is wanted is
\* registered or is still to be.
IndexInv ==
    /\ todo \in Seq(RP!Kinds) /\ enrolled \in Seq(RP!Kinds)
    /\ DOMAIN adapterIndex \subseteq RP!Kinds
    /\ \A k \in DOMAIN adapterIndex :
          adapterIndex[k] \in 0..(Len(enrolled) - 1) /\ enrolled[adapterIndex[k] + 1] = k
    /\ \A k \in RP!Kinds : RP!Wanted(k) =>
          k \in DOMAIN adapterIndex \/ \E i \in DOMAIN todo : todo[i] = k

\* A message carries the channel of its chat, and has an adapter unless its
\* channel came in through a webhook without one.
Carried(m) == /\ m.from \in Chats /\ m.kind = m.from.kind /\ m.channel = m.from.id
              /\ m.kind \in DOMAIN adapterIndex \/ channelsOn[m.kind] \in {"bare", "idle"}

\* RepliesReachPlainChats is not inductive: it says nothing of the index, nor
\* of the messages that are on their way.
MailInv == /\ channelsOn \in Configured
           /\ arrived \in Seq([kind : RP!Kinds, channel : Nat, from : Chats])
           /\ \A i \in DOMAIN arrived : Carried(arrived[i])

RepliesInv == IndexInv /\ MailInv /\ RP!RepliesReachPlainChats

LEMMA RepliesInit == ASSUME RP!RepliesAssumption, RP!Init PROVE RepliesInv
  <1>1. todo = RP!Order /\ enrolled = <<>> /\ DOMAIN adapterIndex = {} /\ arrived = <<>>
        /\ replied = {} /\ unrouted = {} /\ channelsOn \in Configured
    BY DEF RP!Init
  <1>2. RP!Order \in Seq(RP!Kinds)
    BY DEF RP!Order, RP!Kinds
  <1>3. \A k \in RP!Kinds : \E i \in DOMAIN RP!Order : RP!Order[i] = k
    BY DEF RP!Kinds
  <1>4. IndexInv
    BY <1>1, <1>2, <1>3 DEF IndexInv
  <1>5. MailInv
    BY <1>1 DEF MailInv
  <1>. QED  BY <1>1, <1>4, <1>5 DEF RepliesInv, RP!RepliesReachPlainChats, RP!ToItsChat

\* What is delivered to the adapter of a plain chat comes to that chat.
LEMMA PlainDelivered ==
    ASSUME RP!RepliesAssumption, NEW home \in Chats, RP!Plain(home)
    PROVE  RP!Delivered(home.kind, home.id) = home
  <1>. DEFINE known ==
                {c \in Chats :  /\ c.kind = home.kind /\ c.id = home.id
                                /\ (home.kind = "signal" \/ (home.kind = "whatsapp" /\ RP!Native)
                                       => c.form = "direct")
                                /\ home.kind = "teams" => c.region = "amer"}
  <1>1. \A c, d \in Chats : c.kind = d.kind /\ c.id = d.id => c = d
    BY DEF RP!RepliesAssumption
  <1>2. home \in known
    BY DEF RP!Plain
  <1>3. ASSUME NEW c \in known PROVE c = home
    <2>1. c \in Chats /\ c.kind = home.kind /\ c.id = home.id
      OBVIOUS
    <2>. QED  BY <1>1, <2>1
  <1>4. RP!Delivered(home.kind, home.id) =
            IF known = {} THEN RP!NoChat ELSE CHOOSE c \in known : TRUE
    BY DEF RP!Delivered
  <1>. HIDE DEF known
  <1>5. (CHOOSE c \in known : TRUE) \in known /\ known # {}
    BY <1>2
  <1>. QED  BY <1>3, <1>4, <1>5

\* An adapter is registered, or a kind is passed over.
LEMMA RegisterStep ==
    ASSUME RP!RepliesAssumption, RepliesInv, RP!Register PROVE IndexInv'
  <1>1. /\ todo # <<>> /\ todo' = Tail(todo) /\ todo \in Seq(RP!Kinds)
        /\ channelsOn' = channelsOn /\ enrolled \in Seq(RP!Kinds)
        /\ DOMAIN adapterIndex \subseteq RP!Kinds
    BY DEF RP!Register, RepliesInv, IndexInv
  <1>2. PICK kind \in RP!Kinds : kind = Head(todo)
    BY <1>1
  <1>3. /\ todo' \in Seq(RP!Kinds)
        /\ \A i \in DOMAIN todo : i = 1 \/ (i - 1 \in DOMAIN todo' /\ todo'[i - 1] = todo[i])
        /\ todo[1] = kind
    <2>1. PICK p \in Seq(RP!Kinds), q \in Seq(RP!Kinds) : p = todo /\ q = todo'
      BY <1>1
    <2>2. p # <<>> /\ q = Tail(p) /\ kind = Head(p)
      BY <1>1, <1>2, <2>1
    <2>3. p[1] = kind
      BY ONLY <2>2, p \in Seq(RP!Kinds)
    <2>4. \A i \in DOMAIN p : i = 1 \/ (i - 1 \in DOMAIN q /\ q[i - 1] = p[i])
      <3>1. PICK m \in Nat : m = Len(p) /\ m # 0
        BY ONLY <2>2, p \in Seq(RP!Kinds)
      <3>2. /\ DOMAIN p = 1..m /\ DOMAIN q = 1..(m - 1)
            /\ \A i \in 1..(m - 1) : q[i] = p[i + 1]
        BY ONLY <2>2, <3>1, p \in Seq(RP!Kinds), q \in Seq(RP!Kinds)
      <3>3. \A i \in 1..m : i = 1 \/ (i - 1 \in 1..(m - 1) /\ (i - 1) + 1 = i)
        BY ONLY m \in Nat
      <3>. QED  BY <3>2, <3>3
    <2>. QED  BY <2>1, <2>3, <2>4
  <1>4. PICK n \in Nat : n = Len(enrolled)
    BY <1>1
  <1>5. CASE RP!Wanted(kind)
    <2>1. RP!Enrol(kind)
      BY <1>2, <1>5 DEF RP!Register
    <2>2. /\ enrolled' = Append(enrolled, kind)
          /\ DOMAIN adapterIndex' = DOMAIN adapterIndex \cup {kind}
          /\ adapterIndex'[kind] = n
          /\ \A k \in DOMAIN adapterIndex \ {kind} : adapterIndex'[k] = adapterIndex[k]
      BY <1>4, <2>1 DEF RP!Enrol
    <2>3. /\ enrolled' \in Seq(RP!Kinds) /\ Len(enrolled') = n + 1 /\ enrolled'[n + 1] = kind
          /\ \A i \in 1..n : enrolled'[i] = enrolled[i]
      BY <1>1, <1>4, <2>2
    <2>4. \A k \in DOMAIN adapterIndex' :
             adapterIndex'[k] \in 0..(Len(enrolled') - 1) /\ enrolled'[adapterIndex'[k] + 1] = k
      <3>1. ASSUME NEW k \in DOMAIN adapterIndex', k # kind
            PROVE  adapterIndex'[k] \in 0..n /\ enrolled'[adapterIndex'[k] + 1] = k
        <4>1. k \in DOMAIN adapterIndex /\ adapterIndex'[k] = adapterIndex[k]
          BY <2>2, <3>1
        <4>2. adapterIndex[k] \in 0..(n - 1) /\ enrolled[adapterIndex[k] + 1] = k
          BY <1>4, <4>1 DEF RepliesInv, IndexInv
        <4>. QED  BY <2>3, <4>1, <4>2
      <3>2. adapterIndex'[kind] \in 0..n /\ enrolled'[adapterIndex'[kind] + 1] = kind
        BY <2>2, <2>3
      <3>3. Len(enrolled') - 1 = n
        BY <2>3
      <3>. QED  BY <3>1, <3>2, <3>3
    <2>5. \A k \in RP!Kinds : RP!Wanted(k)' =>
             k \in DOMAIN adapterIndex' \/ \E i \in DOMAIN todo' : todo'[i] = k
      <3>1. ASSUME NEW k \in RP!Kinds, RP!Wanted(k), k \notin DOMAIN adapterIndex'
            PROVE  \E i \in DOMAIN todo' : todo'[i] = k
        <4>1. PICK i \in DOMAIN todo : todo[i] = k
          BY <2>2, <3>1 DEF RepliesInv, IndexInv
        <4>2. i # 1
          BY <1>3, <2>2, <3>1, <4>1
        <4>. QED  BY <1>3, <4>1, <4>2
      <3>2. \A k : RP!Wanted(k)' <=> RP!Wanted(k)
        BY <1>1 DEF RP!Wanted
      <3>. QED  BY <3>1, <3>2
    <2>. QED  BY <1>1, <1>3, <2>2, <2>3, <2>4, <2>5 DEF IndexInv
  <1>6. CASE ~ RP!Wanted(kind)
    <2>1. enrolled' = enrolled /\ adapterIndex' = adapterIndex
      BY <1>2, <1>6 DEF RP!Register
    <2>2. \A k \in RP!Kinds : RP!Wanted(k)' =>
             k \in DOMAIN adapterIndex' \/ \E i \in DOMAIN todo' : todo'[i] = k
      <3>1. ASSUME NEW k \in RP!Kinds, RP!Wanted(k), k \notin DOMAIN adapterIndex
            PROVE  \E i \in DOMAIN todo' : todo'[i] = k
        <4>1. PICK i \in DOMAIN todo : todo[i] = k
          BY <3>1 DEF RepliesInv, IndexInv
        <4>2. i # 1
          BY <1>3, <1>6, <3>1, <4>1
        <4>. QED  BY <1>3, <4>1, <4>2
      <3>2. \A k : RP!Wanted(k)' <=> RP!Wanted(k)
        BY <1>1 DEF RP!Wanted
      <3>. QED  BY <2>1, <3>1, <3>2
    <2>. QED  BY <1>3, <2>1, <2>2 DEF RepliesInv, IndexInv
  <1>. QED  BY <1>5, <1>6

LEMMA RepliesNext ==
    ASSUME RP!RepliesAssumption, RepliesInv, [RP!Next]_(RP!vars) PROVE RepliesInv'
  <1>. USE DEF RepliesInv
  <1>1. channelsOn' = channelsOn
    BY DEF RP!Next, RP!vars, RP!Register, RP!Route, RP!ShutdownAll, RP!Inbound
  <1>2. \A home : RP!Plain(home)' <=> RP!Plain(home)
    BY <1>1 DEF RP!Plain, RP!Native
  <1>3. CASE UNCHANGED <<todo, enrolled, adapterIndex, arrived, replied, unrouted>>
    <2>1. IndexInv'
      BY <1>1, <1>3 DEF IndexInv, RP!Wanted
    <2>2. MailInv'
      BY <1>1, <1>3 DEF MailInv, Carried
    <2>3. RP!RepliesReachPlainChats'
      BY <1>1, <1>2, <1>3 DEF RP!RepliesReachPlainChats, RP!ToItsChat
    <2>. QED  BY <2>1, <2>2, <2>3
  <1>4. CASE RP!Register
    <2>1. arrived' = arrived /\ replied' = replied /\ unrouted' = unrouted
      BY <1>4 DEF RP!Register
    <2>2. DOMAIN adapterIndex \subseteq DOMAIN adapterIndex'
      BY <1>4 DEF RP!Register, RP!Enrol
    <2>3. MailInv'
      BY <1>1, <2>1, <2>2 DEF MailInv, Carried
    <2>4. RP!RepliesReachPlainChats'
      BY <1>1, <1>2, <2>1 DEF RP!RepliesReachPlainChats, RP!ToItsChat
    <2>. QED  BY <1>4, <2>3, <2>4, RegisterStep
  <1>5. ASSUME NEW home \in Chats, RP!Inbound(home) PROVE RepliesInv'
    <2>1. PICK m : m = [kind |-> home.kind, channel |-> home.id, from |-> home]
      OBVIOUS
    <2>2. /\ arrived' = Append(arrived, m) /\ todo = <<>>
          /\ UNCHANGED <<todo, enrolled, adapterIndex, replied, unrouted>>
      BY <1>5, <2>1 DEF RP!Inbound
    <2>3. home.kind \in RP!Kinds /\ home.id \in Nat
      BY DEF RP!RepliesAssumption, RP!Chat
    <2>4. m \in [kind : RP!Kinds, channel : Nat, from : Chats]
      BY <2>1, <2>3
    <2>5. m.kind \in DOMAIN adapterIndex \/ channelsOn[m.kind] \in {"bare", "idle"}
      <3>1. RP!ByListener(home.kind) \/ RP!ByWebhook(home.kind)
        BY <1>5 DEF RP!Inbound
      <3>2. \/ home.kind \in DOMAIN adapterIndex
            \/ channelsOn[home.kind] \in {"bare", "idle", "full"}
        BY <3>1 DEF RP!ByListener, RP!ByWebhook
      <3>3. channelsOn[home.kind] = "full" => home.kind \in DOMAIN adapterIndex
        BY <2>2, <2>3 DEF IndexInv, RP!Wanted
      <3>. QED  BY <2>1, <3>2, <3>3
    <2>6. Carried(m)
      BY <2>1, <2>5 DEF Carried
    <2>7. IndexInv'
      BY <1>1, <2>2 DEF IndexInv, RP!Wanted
    <2>8. MailInv'
      <3>1. PICK n \in Nat : n = Len(arrived)
        BY DEF MailInv
      <3>2. /\ arrived' \in Seq([kind : RP!Kinds, channel : Nat, from : Chats])
            /\ DOMAIN arrived = 1..n /\ DOMAIN arrived' = 1..(n + 1) /\ arrived'[n + 1] = m
            /\ \A i \in 1..n : arrived'[i] = arrived[i]
        BY <2>2, <2>4, <3>1 DEF MailInv
      <3>3. \A x : Carried(x)' <=> Carried(x)
        BY <1>1, <2>2 DEF Carried
      <3>4. \A i \in 1..(n + 1) : Carried(arrived'[i])
        BY <2>6, <3>1, <3>2 DEF MailInv
      <3>. QED  BY <1>1, <3>2, <3>3, <3>4 DEF MailInv
    <2>9. RP!RepliesReachPlainChats'
      BY <1>1, <1>2, <2>2 DEF RP!RepliesReachPlainChats, RP!ToItsChat
    <2>. QED  BY <2>7, <2>8, <2>9
  <1>6. CASE RP!Route
    <2>1. PICK m : m = Head(arrived)
      OBVIOUS
    <2>2. /\ arrived # <<>> /\ arrived' = Tail(arrived)
          /\ UNCHANGED <<todo, enrolled, adapterIndex>>
          /\ m.kind \notin DOMAIN adapterIndex =>
                unrouted' = unrouted \cup {m.from} /\ replied' = replied
          /\ m.kind \in DOMAIN adapterIndex =>
                /\ unrouted' = unrouted
                /\ \/ replied' = replied \cup
                        {<<m.from, RP!Delivered(enrolled[adapterIndex[m.kind] + 1], m.channel)>>}
                   \/ replied' = replied
      BY <1>6, <2>1 DEF RP!Route
    <2>3. /\ Carried(m)
          /\ arrived' \in Seq([kind : RP!Kinds, channel : Nat, from : Chats])
          /\ \A i \in DOMAIN arrived' : i + 1 \in DOMAIN arrived /\ arrived'[i] = arrived[i + 1]
      BY <2>1, <2>2 DEF MailInv
    <2>4. IndexInv'
      BY <1>1, <2>2 DEF IndexInv, RP!Wanted
    <2>5. MailInv'
      <3>1. \A x : Carried(x)' <=> Carried(x)
        BY <1>1, <2>2 DEF Carried
      <3>2. \A i \in DOMAIN arrived' : Carried(arrived'[i])
        BY <2>3 DEF MailInv
      <3>. QED  BY <1>1, <2>3, <3>1, <3>2 DEF MailInv
    <2>6. ASSUME NEW home \in Chats, RP!Plain(home), m.from = home, m.kind \in DOMAIN adapterIndex
          PROVE  RP!Delivered(enrolled[adapterIndex[m.kind] + 1], m.channel) = home
      <3>1. enrolled[adapterIndex[m.kind] + 1] = home.kind /\ m.channel = home.id
        BY <2>3, <2>6 DEF IndexInv, Carried
      <3>. QED  BY <2>6, <3>1, PlainDelivered
    <2>7. \A home \in Chats : RP!Plain(home) => RP!ToItsChat(home)'
      <3>1. ASSUME NEW home \in Chats, RP!Plain(home), NEW r \in replied', r[1] = home
            PROVE  r[2] = home
        <4>1. CASE r \in replied
          BY <3>1, <4>1 DEF RP!RepliesReachPlainChats, RP!ToItsChat
        <4>2. CASE r \notin replied
          BY <2>2, <2>6, <3>1, <4>2
        <4>. QED  BY <4>1, <4>2
      <3>. QED  BY <3>1 DEF RP!ToItsChat
    <2>8. \A home \in unrouted' : channelsOn[home.kind] \in {"bare", "idle"}
      BY <2>2, <2>3 DEF RP!RepliesReachPlainChats, Carried
    <2>9. RP!RepliesReachPlainChats'
      BY <1>1, <1>2, <2>7, <2>8 DEF RP!RepliesReachPlainChats
    <2>. QED  BY <2>4, <2>5, <2>9
  <1>7. CASE RP!ShutdownAll
    BY <1>3, <1>7 DEF RP!ShutdownAll
  <1>8. CASE UNCHANGED RP!vars
    BY <1>3, <1>8 DEF RP!vars
  <1>. QED  BY <1>4, <1>5, <1>6, <1>7, <1>8 DEF RP!Next

\* Whatever is configured, a reply to a plain chat goes to that chat, and finds
\* no adapter only when its channel has no token or is not enabled
\* (register_channel_adapter and route_to_adapter, plugins.rs; the inbound
\* worker, lib.rs).
THEOREM RepliesArrive ==
    ASSUME RP!RepliesAssumption PROVE EdgesSpec => []RepliesReachPlainChats
  <1>1. EdgesInit => RepliesInv
    BY RepliesInit DEF EdgesInit
  <1>2. RepliesInv /\ [EdgesNext]_edgeVars => RepliesInv'
    BY Steps, RepliesNext
  <1>3. RepliesInv => RepliesReachPlainChats
    BY DEF RepliesInv, RepliesReachPlainChats
  <1>. QED  BY <1>1, <1>2, <1>3, PTL DEF EdgesSpec

-----------------------------------------------------------------------------
(* The rate limiter.                                                       *)

\* The window that ends at b, a beginning of a queue that is outside it, and
\* how many of a queue's timestamps are in it.
Span(b)    == Clock \cap (b - Window)..b
Skips(q, f, S) == \A i \in 1..(f - 1) : q[i] \notin S
Held(q, S) == Cardinality({i \in 1..Len(q) : q[i] \in S})

LEMMA ShiftCount ==
    ASSUME NEW A \in SUBSET Int, IsFiniteSet(A), NEW d \in Int
    PROVE  Cardinality({i + d : i \in A}) = Cardinality(A)
  <1>0. PICK B : B = {i + d : i \in A}
    OBVIOUS
  <1>1. PICK f : f = [i \in A |-> i + d]
    OBVIOUS
  <1>2. f \in [A -> B] /\ (\A x, y \in A : f[x] = f[y] => x = y) /\ \A z \in B : \E x \in A : f[x] = z
    BY <1>0, <1>1
  <1>3. f \in Bijection(A, B)
    BY <1>2 DEF Bijection, Injection, Surjection, IsInjective
  <1>. QED  BY <1>0, <1>3, FS_Bijection DEF ExistsBijection

LEMMA HeldType ==
    ASSUME NEW q, Len(q) \in Nat, NEW S
    PROVE  /\ IsFiniteSet({i \in 1..Len(q) : q[i] \in S})
           /\ Held(q, S) \in Nat /\ Held(q, S) <= Len(q)
  <1>1. PICK n \in Nat : n = Len(q)
    OBVIOUS
  <1>2. IsFiniteSet(1..n) /\ Cardinality(1..n) = n
    BY FS_Interval
  <1>3. PICK A : A = {i \in 1..n : q[i] \in S}
    OBVIOUS
  <1>4. A \in SUBSET (1..n)
    BY <1>3
  <1>5. IsFiniteSet(A) /\ Cardinality(A) \in Nat /\ Cardinality(A) <= n
    BY <1>2, <1>4, FS_Subset, FS_CardinalityType
  <1>. QED  BY <1>1, <1>3, <1>5 DEF Held

LEMMA HeldAppend ==
    ASSUME NEW q \in Seq(Clock), NEW t \in Clock, NEW S
    PROVE  /\ t \in S => Held(Append(q, t), S) = Held(q, S) + 1
           /\ t \notin S => Held(Append(q, t), S) = Held(q, S)
  <1>1. PICK n \in Nat : n = Len(q)
    OBVIOUS
  <1>2. PICK r : r = Append(q, t)
    OBVIOUS
  <1>3. Len(r) = n + 1 /\ r[n + 1] = t /\ \A i \in 1..n : r[i] = q[i]
    BY <1>1, <1>2
  <1>4. PICK A, B : A = {i \in 1..n : q[i] \in S} /\ B = {i \in 1..(n + 1) : r[i] \in S}
    OBVIOUS
  <1>5. IsFiniteSet(A) /\ n + 1 \notin A
    <2>1. IsFiniteSet({i \in 1..Len(q) : q[i] \in S})
      BY HeldType
    <2>. QED  BY <1>1, <1>4, <2>1
  <1>6. ASSUME t \in S PROVE Cardinality(B) = Cardinality(A) + 1
    <2>1. B = A \cup {n + 1}
      BY <1>3, <1>4, <1>6
    <2>. QED  BY <1>5, <2>1, FS_AddElement
  <1>7. ASSUME t \notin S PROVE B = A
    BY <1>3, <1>4, <1>7
  <1>8. Held(q, S) = Cardinality(A) /\ Held(r, S) = Cardinality(B)
    BY <1>1, <1>3, <1>4 DEF Held
  <1>. QED  BY <1>2, <1>6, <1>7, <1>8

\* What a queue holds without its first timestamps.
LEMMA HeldSuffix ==
    ASSUME NEW q \in Seq(Clock), NEW f \in 1..(Len(q) + 1), NEW r, r = SubSeq(q, f, Len(q)),
           NEW S
    PROVE  /\ r \in Seq(Clock) /\ Len(r) = Len(q) - f + 1
           /\ \A i \in 1..Len(r) : r[i] = q[i + (f - 1)]
           /\ Held(r, S) <= Held(q, S)
           /\ Skips(q, f, S) => Held(r, S) = Held(q, S)
  <1>1. /\ r \in Seq(Clock) /\ Len(r) = Len(q) - f + 1
        /\ \A i \in 1..Len(r) : r[i] = q[i + (f - 1)]
    OBVIOUS
  <1>2. PICK n \in Nat, g \in Nat : n = Len(q) /\ g = f - 1 /\ g <= n
    OBVIOUS
  <1>3. Len(r) = n - g /\ \A i \in 1..(n - g) : r[i] = q[i + g]
    BY <1>1, <1>2
  <1>4. PICK A, B, D : /\ A = {i \in 1..(n - g) : r[i] \in S}
                       /\ B = {i + g : i \in A}
                       /\ D = {i \in 1..n : q[i] \in S}
    OBVIOUS
  <1>5. IsFiniteSet(A) /\ IsFiniteSet(D)
    <2>1. Len(r) = n - g /\ Len(r) \in Nat /\ Len(q) = n
      BY <1>1, <1>2, <1>3
    <2>2. /\ IsFiniteSet({i \in 1..Len(r) : r[i] \in S})
          /\ IsFiniteSet({i \in 1..Len(q) : q[i] \in S})
      BY <2>1, HeldType
    <2>. QED  BY <1>4, <2>1, <2>2
  <1>6. Cardinality(B) = Cardinality(A)
    <2>1. A \in SUBSET Int /\ g \in Int
      BY <1>4
    <2>2. Cardinality({i + g : i \in A}) = Cardinality(A)
      BY <1>5, <2>1, ShiftCount
    <2>. QED  BY <1>4, <2>2
  <1>7. B \in SUBSET D
    <2>1. ASSUME NEW i \in A PROVE i + g \in D
      <3>1. i \in 1..(n - g) /\ r[i] \in S
        BY <1>4
      <3>2. i + g \in 1..n /\ r[i] = q[i + g]
        BY <1>2, <1>3, <3>1
      <3>. QED  BY <1>4, <3>1, <3>2
    <2>. QED  BY <1>4, <2>1
  <1>8. Cardinality(B) <= Cardinality(D)
    BY <1>5, <1>7, FS_Subset
  <1>9. ASSUME Skips(q, f, S) PROVE B = D
    <2>1. ASSUME NEW j \in D PROVE j \in B
      <3>1. j \in 1..n /\ j \notin 1..g
        BY <1>2, <1>4, <1>9, <2>1 DEF Skips
      <3>2. j - g \in 1..(n - g) /\ (j - g) + g = j
        BY <3>1
      <3>3. r[j - g] = q[j]
        BY <1>3, <3>2
      <3>4. j - g \in A
        BY <1>4, <2>1, <3>2, <3>3
      <3>. QED  BY <1>4, <3>2, <3>4
    <2>. QED  BY <1>7, <2>1
  <1>10. Held(r, S) = Cardinality(A) /\ Held(q, S) = Cardinality(D)
    BY <1>2, <1>3, <1>4 DEF Held
  <1>. QED  BY <1>1, <1>6, <1>8, <1>9, <1>10

\* The draining of a queue takes its leading timestamps before the cutoff.
LEMMA DrainedIs ==
    ASSUME NEW q \in Seq(Nat), NEW cutoff \in Int
    PROVE  \E f \in 1..(Len(q) + 1) :
              /\ L!Drained(q, cutoff) = SubSeq(q, f, Len(q))
              /\ \A i \in 1..(f - 1) : q[i] < cutoff
              /\ f <= Len(q) => q[f] >= cutoff
  <1>1. PICK I : I = {i \in 1..Len(q) : q[i] >= cutoff}
    OBVIOUS
  <1>2. CASE I = {}
    <2>1. L!Drained(q, cutoff) = <<>>
      BY <1>1, <1>2 DEF L!Drained, L!SelectInSeq
    <2>2. SubSeq(q, Len(q) + 1, Len(q)) = <<>>
      OBVIOUS
    <2>3. \A i \in 1..Len(q) : q[i] < cutoff
      <3>1. \A i \in 1..Len(q) : q[i] \in Nat
        OBVIOUS
      <3>. QED  BY <1>1, <1>2, <3>1
    <2>4. Len(q) + 1 \in 1..(Len(q) + 1) /\ (Len(q) + 1) - 1 = Len(q) /\ ~ (Len(q) + 1 <= Len(q))
      OBVIOUS
    <2>. QED  BY <2>1, <2>2, <2>3, <2>4
  <1>3. CASE I # {}
    <2>1. I \in SUBSET Nat
      BY <1>1
    <2>2. PICK m \in I : \A i \in I : m <= i
      BY <1>3, <2>1, LeastIn
    <2>3. L!Min(I) \in I /\ \A i \in I : L!Min(I) <= i
      BY <2>2 DEF L!Min
    <2>4. PICK f \in I : f = L!Min(I)
      BY <2>3
    <2>5. L!Drained(q, cutoff) = SubSeq(q, f, Len(q))
      <3>1. L!SelectInSeq(q, LAMBDA t : t >= cutoff) = f
        BY <1>1, <1>3, <2>4 DEF L!SelectInSeq
      <3>2. f # 0
        BY <1>1
      <3>. QED  BY <3>1, <3>2 DEF L!Drained
    <2>6. f \in 1..Len(q) /\ q[f] >= cutoff
      BY <1>1
    <2>7. \A i \in 1..(f - 1) : q[i] < cutoff
      <3>1. ASSUME NEW i \in 1..(f - 1) PROVE q[i] < cutoff
        <4>1. i \in 1..Len(q) /\ i < f
          BY <2>6
        <4>2. i \notin I
          BY <2>1, <2>3, <2>4, <4>1
        <4>3. q[i] \in Nat
          BY <4>1
        <4>. QED  BY <1>1, <4>1, <4>2, <4>3
      <3>. QED  BY <3>1
    <2>8. f \in 1..(Len(q) + 1)
      BY <2>6
    <2>. QED  BY <2>5, <2>6, <2>7, <2>8
  <1>. QED  BY <1>2, <1>3

\* A queue holds no more of a window than was admitted in it.  And either
\* nothing of the window has been drained, so that the length of the queue
\* bounds what was admitted in it; or the window is over, and what was admitted
\* and the u requests that may still be are few enough.
Kept(q, f, b) == Held(q, Span(b)) <= Total(f, b - Window, b)
Safe(q, f, n, u, b) ==
    \/ Total(f, b - Window, b) <= Held(q, Span(b))
    \/ n > b /\ Total(f, b - Window, b) + u <= MaxRequests + Cardinality(Callers) - 1

LEMMA LimiterConstants ==
    ASSUME L!RateLimiterAssumption
    PROVE  /\ MaxRequests \in Nat /\ Window \in Nat /\ MaxTime \in Nat
           /\ IsFiniteSet(Callers) /\ Cardinality(Callers) \in Nat \ {0}
           /\ L!Times = Clock
           /\ \A b \in Clock : b \in Int /\ b - Window \in Int
  <1>1. IsFiniteSet(Callers) /\ Callers # {}
    BY InstanceSets DEF L!RateLimiterAssumption
  <1>2. Cardinality(Callers) \in Nat /\ Cardinality(Callers) # 0
    BY <1>1, FS_CardinalityType, FS_EmptySet
  <1>. QED  BY <1>1, <1>2 DEF L!RateLimiterAssumption, L!Times, Clock

\* A request of time t can be checked at n: of the window that ends at b, u
\* requests may be admitted before, and v after it.
Checkable(q, f, t, n, u, v, b) ==
    /\ q \in Seq(Clock) /\ Len(q) <= MaxRequests /\ f \in [Clock -> Nat]
    /\ t \in Clock /\ n \in Clock /\ t <= n /\ b \in Clock
    /\ u \in Nat /\ v \in Nat /\ v <= Cardinality(Callers) - 1
    /\ t \in Span(b) => u = v + 1
    /\ t \notin Span(b) => u = v
    /\ Kept(q, f, b) /\ Safe(q, f, n, u, b)

\* The request drains the queue to r, and is refused or admitted.
Checked(q, f, t, n, v, b, r) ==
    /\ r \in Seq(Clock) /\ Len(r) <= Len(q)
    /\ Kept(r, f, b) /\ Safe(r, f, n, v, b)
    /\ \A e \in [Clock -> Nat] :
          e[t] = f[t] + 1 /\ (\A x \in Clock : x # t => e[x] = f[x]) =>
             Kept(Append(r, t), e, b) /\ Safe(Append(r, t), e, n, v, b)

LEMMA CheckStep ==
    ASSUME L!RateLimiterAssumption,
           NEW q, NEW f, NEW t, NEW n, NEW u, NEW v, NEW b, Checkable(q, f, t, n, u, v, b),
           NEW r, r = L!Drained(q, t - Window)
    PROVE  Checked(q, f, t, n, v, b, r)
  <1>0. /\ q \in Seq(Clock) /\ Len(q) <= MaxRequests /\ f \in [Clock -> Nat]
        /\ t \in Clock /\ n \in Clock /\ t <= n /\ b \in Clock
        /\ u \in Nat /\ v \in Nat /\ v <= Cardinality(Callers) - 1
        /\ t \in Span(b) => u = v + 1
        /\ t \notin Span(b) => u = v
        /\ Kept(q, f, b) /\ Safe(q, f, n, u, b)
    BY DEF Checkable
  <1>. USE <1>0
  <1>1. /\ MaxRequests \in Nat /\ Window \in Nat /\ MaxTime \in Nat
        /\ t \in Int /\ b \in Int /\ n \in Int /\ Clock \subseteq Nat
    BY LimiterConstants DEF Clock
  <1>2. q \in Seq(Nat)
    BY <1>1
  <1>3. PICK g \in 1..(Len(q) + 1) : /\ r = SubSeq(q, g, Len(q))
                                     /\ \A i \in 1..(g - 1) : q[i] < t - Window
    <2>1. PICK w \in Int : w = t - Window
      BY <1>1
    <2>2. PICK g \in 1..(Len(q) + 1) : /\ L!Drained(q, w) = SubSeq(q, g, Len(q))
                                       /\ \A i \in 1..(g - 1) : q[i] < w
      BY <1>2, DrainedIs
    <2>. QED  BY <2>1, <2>2
  <1>4. /\ r \in Seq(Clock) /\ Len(r) = Len(q) - g + 1
        /\ Held(r, Span(b)) <= Held(q, Span(b))
        /\ (\A i \in 1..(g - 1) : q[i] \notin Span(b)) => Held(r, Span(b)) = Held(q, Span(b))
    <2>1. PICK S : S = Span(b)
      OBVIOUS
    <2>2. r \in Seq(Clock) /\ Len(r) = Len(q) - g + 1 /\ Held(r, S) <= Held(q, S)
      BY ONLY <1>3, q \in Seq(Clock), HeldSuffix
    <2>3. Skips(q, g, S) => Held(r, S) = Held(q, S)
      BY ONLY <1>3, q \in Seq(Clock), HeldSuffix
    <2>. QED  BY <2>1, <2>2, <2>3 DEF Skips
  <1>5. Len(r) <= Len(q)
    BY <1>4
  <1>6. PICK old, has, a, m, k \in Nat : /\ old = Held(q, Span(b)) /\ has = Held(r, Span(b))
                                      /\ a = Total(f, b - Window, b) /\ m = Len(q)
                                      /\ k = Cardinality(Callers)
    <2>1. Held(q, Span(b)) \in Nat /\ Held(r, Span(b)) \in Nat
      <3>1. Len(q) \in Nat /\ Len(r) \in Nat
        BY <1>4
      <3>. QED  BY <3>1, HeldType
    <2>2. Total(f, b - Window, b) \in Nat
      BY <1>1, TotalGrows
    <2>3. Cardinality(Callers) \in Nat /\ Len(q) \in Nat
      BY LimiterConstants
    <2>. QED  BY <2>1, <2>2, <2>3
  <1>7. /\ has <= old /\ old <= m /\ m <= MaxRequests /\ old <= a /\ v <= k - 1
        /\ a <= old \/ (n > b /\ a + u <= MaxRequests + k - 1)
    BY <1>4, <1>6, HeldType DEF Kept, Safe
  <1>8. CASE t \in Span(b)
    <2>1. t <= b /\ u = v + 1
      BY <1>1, <1>8 DEF Span
    <2>2. has = old
      <3>1. ASSUME NEW i \in 1..(g - 1) PROVE q[i] \notin Span(b)
        <4>1. q[i] \in Nat /\ q[i] < t - Window
          BY <1>2, <1>3
        <4>2. ~ (b - Window <= q[i])
          BY <1>1, <2>1, <4>1
        <4>. QED  BY <1>1, <4>2 DEF Span
      <3>. QED  BY <1>4, <1>6, <3>1
    <2>3. Kept(r, f, b) /\ Safe(r, f, n, v, b)
      <3>1. has <= a
        BY <1>7, <2>2
      <3>2. a <= has \/ (n > b /\ a + v <= MaxRequests + k - 1)
        BY <1>1, <1>7, <2>1, <2>2
      <3>. QED  BY <1>6, <3>1, <3>2 DEF Kept, Safe
    <2>4. ASSUME NEW e \in [Clock -> Nat], e[t] = f[t] + 1, \A x \in Clock : x # t => e[x] = f[x]
          PROVE  Kept(Append(r, t), e, b) /\ Safe(Append(r, t), e, n, v, b)
      <3>1. Held(Append(r, t), Span(b)) = has + 1
        BY <1>4, <1>6, <1>8, HeldAppend
      <3>2. Total(e, b - Window, b) = a + 1
        <4>1. b - Window <= t /\ b - Window \in Int
          BY <1>1, <1>8 DEF Span
        <4>2. PICK w \in Int : w = b - Window
          BY <4>1
        <4>3. Total(e, w, b) = Total(f, w, b) + 1
          <5>1. w <= t /\ t <= b /\ b \in Int /\ MaxTime \in Nat
            BY <1>1, <2>1, <4>1, <4>2
          <5>. QED  BY <2>4, <5>1, TotalIncrement
        <4>. QED  BY <1>6, <4>2, <4>3
      <3>3. has + 1 <= a + 1
        BY <1>7, <2>2
      <3>4. a + 1 <= has + 1 \/ (n > b /\ (a + 1) + v <= MaxRequests + k - 1)
        BY <1>1, <1>7, <2>1, <2>2
      <3>. QED  BY <1>6, <3>1, <3>2, <3>3, <3>4 DEF Kept, Safe
    <2>. QED  BY <1>4, <1>5, <2>3, <2>4 DEF Checked
  <1>9. CASE t \notin Span(b)
    <2>1. u = v
      BY <1>9
    <2>2. a <= has \/ (n > b /\ a + v <= MaxRequests + k - 1)
      <3>1. CASE t > b
        <4>1. n > b
          BY <1>1, <3>1
        <4>2. a <= MaxRequests \/ a + v <= MaxRequests + k - 1
          BY <1>1, <1>7, <2>1
        <4>3. a + v <= MaxRequests + k - 1
          BY <1>1, <1>7, <4>2
        <4>. QED  BY <4>1, <4>3
      <3>2. CASE ~ (t > b)
        <4>1. t < b - Window
          BY <1>1, <1>9, <3>2 DEF Span
        <4>2. ASSUME NEW i \in 1..(g - 1) PROVE q[i] \notin Span(b)
          <5>1. q[i] \in Nat /\ q[i] < t - Window
            BY <1>2, <1>3
          <5>2. ~ (b - Window <= q[i])
            BY <1>1, <4>1, <5>1
          <5>. QED  BY <1>1, <5>2 DEF Span
        <4>3. has = old
          BY <1>4, <1>6, <4>2
        <4>. QED  BY <1>7, <2>1, <4>3
      <3>. QED  BY <3>1, <3>2
    <2>3. has <= a
      BY <1>7
    <2>4. ASSUME NEW e \in [Clock -> Nat], e[t] = f[t] + 1, \A x \in Clock : x # t => e[x] = f[x]
          PROVE  Kept(Append(r, t), e, b) /\ Safe(Append(r, t), e, n, v, b)
      <3>1. Held(Append(r, t), Span(b)) = has
        BY <1>4, <1>6, <1>9, HeldAppend
      <3>2. Total(e, b - Window, b) = a
        <4>1. ~ (b - Window <= t /\ t <= b) /\ b - Window \in Int
          BY <1>1, <1>9 DEF Span
        <4>2. PICK w \in Int : w = b - Window
          BY <4>1
        <4>3. Total(e, w, b) = Total(f, w, b)
          <5>1. ~ (w <= t /\ t <= b) /\ b \in Int /\ MaxTime \in Nat
            BY <1>1, <4>1, <4>2
          <5>. QED  BY <2>4, <5>1, TotalIncrement
        <4>. QED  BY <1>6, <4>2, <4>3
      <3>. QED  BY <1>6, <2>2, <2>3, <3>1, <3>2 DEF Kept, Safe
    <2>5. Kept(r, f, b) /\ Safe(r, f, n, v, b)
      BY <1>6, <2>2, <2>3 DEF Kept, Safe
    <2>. QED  BY <1>4, <1>5, <2>4, <2>5 DEF Checked
  <1>. QED  BY <1>8, <1>9

\* The requests in flight that may still be admitted in a window.
Under(k, b) == {c \in Callers : call[c] # None /\ call[c].key = k /\ call[c].time \in Span(b)}

LimiterTypes == /\ now \in Clock /\ queue \in [Keys -> Seq(Clock)]
                /\ call \in [Callers -> L!Call \cup {None}]
                /\ admitted \in [Keys -> [Clock -> Nat]]
                /\ \A k \in Keys : Len(queue[k]) <= MaxRequests

\* Nobody has read the clock ahead of its time.
LateInv == /\ \A k \in Keys : \A i \in 1..Len(queue[k]) : queue[k][i] <= now
           /\ \A c \in Callers : call[c] # None => call[c].time <= now

ExactInv == \A k \in Keys, b \in Clock :
                /\ Kept(queue[k], admitted[k], b)
                /\ Safe(queue[k], admitted[k], now, Cardinality(Under(k, b)), b)

\* ExcessBounded is not inductive: it says nothing of the queues, nor of the
\* requests in flight.
LimiterInv == LimiterTypes /\ LateInv /\ ExactInv

LEMMA LimiterInit == ASSUME L!RateLimiterAssumption, L!Init PROVE LimiterInv
  <1>1. /\ now = 0 /\ 0 \in Clock /\ queue = [k \in Keys |-> <<>>]
        /\ call = [c \in Callers |-> None] /\ admitted = [k \in Keys |-> [t \in Clock |-> 0]]
    BY LimiterConstants DEF L!Init, Clock
  <1>2. MaxRequests \in Nat /\ MaxTime \in Nat /\ \A b \in Clock : b \in Int /\ b - Window \in Int
    BY LimiterConstants
  <1>3. LimiterTypes
    BY <1>1, <1>2 DEF LimiterTypes
  <1>4. LateInv
    BY <1>1 DEF LateInv
  <1>5. ASSUME NEW k \in Keys, NEW b \in Clock
        PROVE  /\ Kept(queue[k], admitted[k], b)
               /\ Safe(queue[k], admitted[k], now, Cardinality(Under(k, b)), b)
    <2>1. admitted[k] = [t \in Clock |-> 0] /\ queue[k] = <<>>
      BY <1>1
    <2>2. Total(admitted[k], b - Window, b) = 0
      BY <1>2, <2>1, TotalEmpty
    <2>3. Held(queue[k], Span(b)) = 0
      <3>1. {i \in 1..Len(queue[k]) : queue[k][i] \in Span(b)} = {}
        BY <2>1
      <3>. QED  BY <3>1, FS_EmptySet DEF Held
    <2>. QED  BY <2>2, <2>3 DEF Kept, Safe
  <1>. QED  BY <1>3, <1>4, <1>5 DEF LimiterInv, ExactInv

\* What a check does, with a key and a time for its request.
LEMMA CheckIs ==
    ASSUME L!RateLimiterAssumption, LimiterTypes, NEW c \in Callers, L!Check(c)
    PROVE  \E k \in Keys, t \in Clock, r \in Seq(Clock) :
              /\ call[c] # None /\ call[c].key = k /\ call[c].time = t
              /\ r = L!Drained(queue[k], t - Window)
              /\ now' = now /\ call' = [call EXCEPT ![c] = None]
              /\ \/ /\ Len(r) < MaxRequests
                    /\ queue' = [queue EXCEPT ![k] = Append(r, t)]
                    /\ admitted' = [admitted EXCEPT ![k][t] = @ + 1]
                 \/ /\ Len(r) >= MaxRequests
                    /\ queue' = [queue EXCEPT ![k] = r] /\ admitted' = admitted
  <1>1. call[c] # None /\ call[c] \in L!Call
    BY DEF L!Check, LimiterTypes
  <1>2. PICK k \in Keys, t \in Clock : call[c].key = k /\ call[c].time = t
    BY <1>1, LimiterConstants DEF L!Call
  <1>3. PICK r : r = L!Drained(queue[k], t - Window)
    OBVIOUS
  <1>4. r \in Seq(Clock)
    <2>1. queue[k] \in Seq(Clock) /\ queue[k] \in Seq(Nat) /\ t - Window \in Int
      BY LimiterConstants DEF LimiterTypes, Clock
    <2>2. \E f \in 1..(Len(queue[k]) + 1) : r = SubSeq(queue[k], f, Len(queue[k]))
      BY <1>3, <2>1, DrainedIs
    <2>. QED  BY <2>1, <2>2, HeldSuffix
  <1>5. now' = now /\ call' = [call EXCEPT ![c] = None] /\ (L!Admit(c, r) \/ L!Refuse(c, r))
    BY <1>2, <1>3 DEF L!Check
  <1>6. CASE L!Admit(c, r)
    BY <1>1, <1>2, <1>3, <1>4, <1>5, <1>6 DEF L!Admit
  <1>7. CASE L!Refuse(c, r)
    BY <1>1, <1>2, <1>3, <1>4, <1>5, <1>7 DEF L!Refuse
  <1>. QED  BY <1>5, <1>6, <1>7

LEMMA UnderCount ==
    ASSUME L!RateLimiterAssumption, NEW k, NEW b
    PROVE  /\ IsFiniteSet(Under(k, b)) /\ Cardinality(Under(k, b)) \in Nat
           /\ \A c \in Callers : Cardinality(Under(k, b) \ {c}) <= Cardinality(Callers) - 1
  <1>1. IsFiniteSet(Callers) /\ Under(k, b) \in SUBSET Callers
    BY LimiterConstants DEF Under
  <1>2. IsFiniteSet(Under(k, b)) /\ Cardinality(Under(k, b)) \in Nat
    BY <1>1, FS_Subset, FS_CardinalityType
  <1>3. ASSUME NEW c \in Callers
        PROVE  Cardinality(Under(k, b) \ {c}) <= Cardinality(Callers) - 1
    <2>1. IsFiniteSet(Callers \ {c}) /\ Cardinality(Callers \ {c}) = Cardinality(Callers) - 1
      BY <1>1, FS_RemoveElement
    <2>2. Under(k, b) \ {c} \in SUBSET (Callers \ {c})
      BY <1>1
    <2>. QED  BY <2>1, <2>2, FS_Subset
  <1>. QED  BY <1>2, <1>3

LEMMA LimiterNext ==
    ASSUME L!RateLimiterAssumption, LimiterInv, [L!Next]_(L!vars)
    PROVE  LimiterInv'
  <1>. USE DEF LimiterInv
  <1>1. /\ now \in Clock /\ queue \in [Keys -> Seq(Clock)]
        /\ call \in [Callers -> L!Call \cup {None}]
        /\ admitted \in [Keys -> [Clock -> Nat]]
        /\ \A k \in Keys : Len(queue[k]) <= MaxRequests
    BY DEF LimiterTypes
  <1>2. MaxRequests \in Nat /\ MaxTime \in Nat /\ Clock \subseteq Nat /\ L!Times = Clock
        /\ None \notin L!Call
    BY LimiterConstants DEF Clock, L!RateLimiterAssumption, L!Call
  <1>3. CASE UNCHANGED L!vars
    BY <1>3 DEF L!vars, LimiterTypes, LateInv, ExactInv, Under, Kept, Safe, Span, Total, Clock, Held
  <1>4. CASE L!Tick
    <2>1. now' = now + 1 /\ queue' = queue /\ call' = call /\ admitted' = admitted
          /\ now' \in Clock
      BY <1>1, <1>2, <1>4 DEF L!Tick, Clock
    <2>2. LimiterTypes'
      BY <1>1, <2>1 DEF LimiterTypes, Clock
    <2>3. LateInv'
      <3>1. ASSUME NEW k \in Keys, NEW i \in 1..Len(queue[k]) PROVE queue[k][i] <= now + 1
        <4>1. queue[k][i] \in Clock /\ now \in Clock
          <5>1. queue[k] \in Seq(Clock)
            BY <1>1
          <5>. QED  BY <1>1, <5>1
        <4>2. queue[k][i] <= now
          BY DEF LateInv
        <4>3. PICK x, y \in Nat : x = queue[k][i] /\ y = now
          BY <1>2, <4>1
        <4>4. x <= y + 1
          BY <4>2, <4>3
        <4>. QED  BY <4>3, <4>4
      <3>2. ASSUME NEW c \in Callers, call[c] # None PROVE call[c].time <= now + 1
        <4>1. call[c].time \in Nat /\ now \in Nat
          BY <1>1, <1>2, <3>2 DEF L!Call
        <4>2. call[c].time <= now
          BY <3>2 DEF LateInv
        <4>. QED  BY <4>1, <4>2
      <3>. QED  BY <2>1, <3>1, <3>2 DEF LateInv
    <2>4. ExactInv'
      <3>1. ASSUME NEW k \in Keys, NEW b \in Clock
            PROVE  /\ Kept(queue[k], admitted[k], b)
                   /\ Safe(queue[k], admitted[k], now + 1, Cardinality(Under(k, b)), b)
        <4>1. /\ Kept(queue[k], admitted[k], b)
              /\ Safe(queue[k], admitted[k], now, Cardinality(Under(k, b)), b)
          BY DEF ExactInv
        <4>2. now > b => now + 1 > b
          BY <1>1, <1>2
        <4>. QED  BY <4>1, <4>2 DEF Safe
      <3>2. \A k, b : Under(k, b)' = Under(k, b)
        BY <2>1 DEF Under, Span, Clock
      <3>. QED  BY <2>1, <3>1, <3>2 DEF ExactInv, Kept, Safe, Span, Total, Clock, Held
    <2>. QED  BY <2>2, <2>3, <2>4
  <1>5. ASSUME NEW c \in Callers, NEW k \in Keys, L!ReadClock(c, k) PROVE LimiterInv'
    <2>1. PICK m : m = [key |-> k, time |-> now]
      OBVIOUS
    <2>2. /\ now' = now /\ queue' = queue /\ admitted' = admitted
          /\ call' = [call EXCEPT ![c] = m] /\ call[c] = None
          /\ m \in L!Call /\ m.key = k /\ m.time = now
      BY <1>1, <1>2, <1>5, <2>1 DEF L!ReadClock, L!Call
    <2>3. LimiterTypes'
      BY <1>1, <2>2 DEF LimiterTypes, Clock, L!Call
    <2>4. LateInv'
      <3>1. now <= now
        BY <1>1, <1>2
      <3>. QED  BY <1>1, <2>2, <3>1 DEF LateInv
    <2>5. ASSUME NEW j \in Keys, NEW b \in Clock, now > b
          PROVE  Under(j, b)' = Under(j, b)
      <3>1. now \notin Span(b)
        BY <1>1, <1>2, <2>5 DEF Span
      <3>2. \A d \in Callers \ {c} : call'[d] = call[d]
        BY <1>1, <2>2
      <3>3. call'[c].time = now
        BY <1>1, <2>2
      <3>4. c \notin Under(j, b) /\ c \notin Under(j, b)'
        BY <2>2, <3>1, <3>3 DEF Under, Span, Clock
      <3>. QED  BY <3>2, <3>4 DEF Under, Span, Clock
    <2>6. ASSUME NEW j \in Keys, NEW b \in Clock
          PROVE  /\ Kept(queue[j], admitted[j], b)
                 /\ Safe(queue[j], admitted[j], now, Cardinality(Under(j, b)'), b)
      <3>1. /\ Kept(queue[j], admitted[j], b)
            /\ Safe(queue[j], admitted[j], now, Cardinality(Under(j, b)), b)
        BY DEF ExactInv
      <3>. QED  BY <2>5, <3>1 DEF Safe
    <2>7. ExactInv'
      BY <2>2, <2>6 DEF ExactInv, Kept, Safe, Span, Total, Clock, Held
    <2>. QED  BY <2>3, <2>4, <2>7
  <1>6. ASSUME NEW c \in Callers, L!Check(c) PROVE LimiterInv'
    <2>1. PICK k \in Keys, t \in Clock, r \in Seq(Clock) :
              /\ call[c] # None /\ call[c].key = k /\ call[c].time = t
              /\ r = L!Drained(queue[k], t - Window)
              /\ now' = now /\ call' = [call EXCEPT ![c] = None]
              /\ \/ /\ Len(r) < MaxRequests
                    /\ queue' = [queue EXCEPT ![k] = Append(r, t)]
                    /\ admitted' = [admitted EXCEPT ![k][t] = @ + 1]
                 \/ /\ Len(r) >= MaxRequests
                    /\ queue' = [queue EXCEPT ![k] = r] /\ admitted' = admitted
      BY <1>6, CheckIs
    <2>2. PICK q, f : q = queue[k] /\ f = admitted[k]
      OBVIOUS
    <2>3. /\ q \in Seq(Clock) /\ Len(q) <= MaxRequests /\ f \in [Clock -> Nat] /\ t <= now
          /\ \A i \in 1..Len(q) : q[i] <= now
      BY <1>1, <2>1, <2>2 DEF LateInv
    <2>4. PICK e : e = [f EXCEPT ![t] = @ + 1]
      OBVIOUS
    <2>5. /\ e \in [Clock -> Nat] /\ e[t] = f[t] + 1 /\ \A x \in Clock : x # t => e[x] = f[x]
      BY <2>3, <2>4
    <2>6. /\ \A j \in Keys : j # k => queue'[j] = queue[j] /\ admitted'[j] = admitted[j]
          /\ \/ Len(r) < MaxRequests /\ queue'[k] = Append(r, t) /\ admitted'[k] = e
             \/ queue'[k] = r /\ admitted'[k] = f
          /\ DOMAIN queue' = Keys /\ DOMAIN admitted' = Keys
          /\ queue' = [j \in Keys |-> queue'[j]] /\ admitted' = [j \in Keys |-> admitted'[j]]
      BY <1>1, <2>1, <2>2, <2>4
    <2>7. \A d \in Callers : d # c => call'[d] = call[d]
      BY <1>1, <2>1
    <2>8. call'[c] = None /\ call' \in [Callers -> L!Call \cup {None}]
      BY <1>1, <2>1
    <2>9. \A j, b : Under(j, b)' = Under(j, b) \ {c}
      BY <2>7, <2>8 DEF Under, Span, Clock
    <2>10. \A j \in Keys, b \in Clock : c \in Under(j, b) <=> j = k /\ t \in Span(b)
      BY <2>1 DEF Under
    <2>11. /\ \E g \in 1..(Len(q) + 1) : r = SubSeq(q, g, Len(q))
           /\ t - Window \in Int
      <3>1. q \in Seq(Nat)
        BY <1>2, <2>3
      <3>2. t - Window \in Int
        BY LimiterConstants
      <3>. QED  BY <2>1, <2>2, <3>1, <3>2, DrainedIs
    <2>12. PICK g \in 1..(Len(q) + 1) : r = SubSeq(q, g, Len(q))
      BY <2>11
    <2>13. /\ Len(r) <= Len(q) /\ \A i \in 1..Len(r) : r[i] <= now
      <3>1. Len(r) = Len(q) - g + 1 /\ \A i \in 1..Len(r) : r[i] = q[i + (g - 1)]
        BY <2>3, <2>12, HeldSuffix
      <3>2. Len(q) \in Nat
        BY <2>3
      <3>3. \A i \in 1..Len(r) : i + (g - 1) \in 1..Len(q)
        BY <3>1, <3>2
      <3>4. Len(r) <= Len(q)
        BY <3>1, <3>2
      <3>. QED  BY <2>3, <3>1, <3>3, <3>4
    <2>14. /\ Append(r, t) \in Seq(Clock) /\ Len(Append(r, t)) = Len(r) + 1
           /\ \A i \in 1..(Len(r) + 1) : Append(r, t)[i] <= now
      <3>1. Append(r, t) \in Seq(Clock) /\ Len(Append(r, t)) = Len(r) + 1 /\ Len(r) \in Nat
            /\ Append(r, t)[Len(r) + 1] = t /\ \A i \in 1..Len(r) : Append(r, t)[i] = r[i]
        OBVIOUS
      <3>. QED  BY <2>3, <2>13, <3>1
    <2>15. LimiterTypes'
      <3>1. queue'[k] \in Seq(Clock) /\ Len(queue'[k]) <= MaxRequests
        <4>1. Len(r) \in Nat /\ Len(q) \in Nat
          BY <2>3
        <4>2. Len(r) < MaxRequests => Len(r) + 1 <= MaxRequests
          BY <1>2, <4>1
        <4>3. Len(r) <= MaxRequests
          BY <1>2, <2>3, <2>13, <4>1
        <4>. QED  BY <2>6, <2>14, <4>2, <4>3
      <3>2. queue' \in [Keys -> Seq(Clock)] /\ \A j \in Keys : Len(queue'[j]) <= MaxRequests
        BY <1>1, <2>6, <3>1
      <3>3. admitted'[k] \in [Clock -> Nat]
        BY <2>3, <2>5, <2>6
      <3>4. admitted' \in [Keys -> [Clock -> Nat]]
        BY <1>1, <2>6, <3>3
      <3>. QED  BY <1>1, <2>1, <2>8, <3>2, <3>4 DEF LimiterTypes, Clock, L!Call
    <2>16. LateInv'
      <3>1. \A i \in 1..Len(queue'[k]) : queue'[k][i] <= now
        BY <2>6, <2>13, <2>14
      <3>2. \A j \in Keys : \A i \in 1..Len(queue'[j]) : queue'[j][i] <= now
        BY <2>6, <3>1 DEF LateInv
      <3>3. \A d \in Callers : call'[d] # None => call'[d].time <= now
        BY <2>7, <2>8 DEF LateInv
      <3>. QED  BY <2>1, <3>2, <3>3 DEF LateInv
    <2>17. ASSUME NEW j \in Keys, NEW b \in Clock
           PROVE  /\ Kept(queue'[j], admitted'[j], b)
                  /\ Safe(queue'[j], admitted'[j], now, Cardinality(Under(j, b) \ {c}), b)
      <3>1. /\ Kept(queue[j], admitted[j], b)
            /\ Safe(queue[j], admitted[j], now, Cardinality(Under(j, b)), b)
        BY DEF ExactInv
      <3>2. CASE j # k
        <4>1. Under(j, b) \ {c} = Under(j, b)
          BY <2>10, <3>2
        <4>. QED  BY <2>6, <3>1, <3>2, <4>1
      <3>3. CASE j = k
        <4>1. PICK u, v : u = Cardinality(Under(k, b)) /\ v = Cardinality(Under(k, b) \ {c})
          OBVIOUS
        <4>2. u \in Nat /\ v \in Nat /\ v <= Cardinality(Callers) - 1
          <5>1. IsFiniteSet(Under(k, b) \ {c})
            BY UnderCount, FS_Subset
          <5>. QED  BY <4>1, <5>1, UnderCount, FS_CardinalityType
        <4>3. t \in Span(b) => u = v + 1
          <5>1. ASSUME t \in Span(b) PROVE u = v + 1
            <6>1. c \in Under(k, b)
              BY <2>10, <5>1
            <6>2. v = u - 1
              BY <4>1, <6>1, UnderCount, FS_RemoveElement
            <6>. QED  BY <4>2, <6>2
          <5>. QED  BY <5>1
        <4>4. t \notin Span(b) => u = v
          <5>1. ASSUME t \notin Span(b) PROVE u = v
            <6>1. Under(k, b) \ {c} = Under(k, b)
              BY <2>10, <5>1
            <6>. QED  BY <4>1, <6>1
          <5>. QED  BY <5>1
        <4>5. Kept(q, f, b) /\ Safe(q, f, now, u, b)
          BY <2>2, <3>1, <3>3, <4>1
        <4>6. /\ Kept(r, f, b) /\ Safe(r, f, now, v, b)
              /\ Kept(Append(r, t), e, b) /\ Safe(Append(r, t), e, now, v, b)
          <5>1. PICK n \in Clock : n = now
            BY <1>1
          <5>2. Checkable(q, f, t, n, u, v, b)
            BY <2>3, <4>2, <4>3, <4>4, <4>5, <5>1 DEF Checkable
          <5>3. r = L!Drained(q, t - Window)
            BY <2>1, <2>2
          <5>4. Checked(q, f, t, n, v, b, r)
            BY <5>2, <5>3, CheckStep
          <5>. QED  BY <2>5, <5>1, <5>4 DEF Checked
        <4>. QED  BY <2>6, <3>3, <4>1, <4>6
      <3>. QED  BY <3>2, <3>3
    <2>18. ExactInv'
      BY <2>1, <2>9, <2>17 DEF ExactInv, Kept, Safe, Span, Total, Clock, Held
    <2>. QED  BY <2>15, <2>16, <2>18
  <1>. QED  BY <1>3, <1>4, <1>5, <1>6 DEF L!Next

\* Where requests do not overlap, a queue is in the order of its timestamps,
\* and the request in flight has read the clock after all of them.
Sorted(q) == \A i, j \in 1..Len(q) : i < j => q[i] <= q[j]

TurnsInv == ~overlap =>
    \A k \in Keys : /\ Sorted(queue[k])
                    /\ \A c \in Callers : call[c] # None =>
                          \A i \in 1..Len(queue[k]) : queue[k][i] <= call[c].time

\* A queue stays sorted when it is drained and when a later timestamp is added.
LEMMA SortedSuffix ==
    ASSUME NEW q \in Seq(Clock), Sorted(q), NEW cutoff \in Int, NEW t \in Clock, MaxTime \in Nat,
           \A i \in 1..Len(q) : q[i] <= t, NEW r, r = L!Drained(q, cutoff)
    PROVE  /\ Sorted(r) /\ Sorted(Append(r, t))
           /\ \A i \in 1..Len(r) : r[i] <= t
           /\ \A i \in 1..Len(r) : cutoff <= r[i]
           /\ \A S : Held(r, S) <= Held(q, S)
           /\ r \in Seq(Clock)
  <1>1. q \in Seq(Nat) /\ Clock \subseteq Nat
    BY DEF Clock
  <1>2. PICK g \in 1..(Len(q) + 1) : /\ r = SubSeq(q, g, Len(q))
                                     /\ g <= Len(q) => q[g] >= cutoff
    BY <1>1, DrainedIs
  <1>3. /\ r \in Seq(Clock) /\ Len(r) = Len(q) - g + 1
        /\ \A i \in 1..Len(r) : r[i] = q[i + (g - 1)]
        /\ \A S : Held(r, S) <= Held(q, S)
    BY <1>2, HeldSuffix
  <1>4. PICK n \in Nat, d \in Nat : n = Len(r) /\ d = g - 1
    <2>1. Len(r) \in Nat /\ g - 1 \in Nat
      BY <1>3
    <2>. QED  BY <2>1
  <1>5. \A i \in 1..n : i + d \in 1..Len(q) /\ r[i] = q[i + d] /\ r[i] \in Nat
    BY <1>1, <1>3, <1>4
  <1>6. ASSUME NEW i \in 1..n, NEW j \in 1..n, i < j PROVE r[i] <= r[j]
    <2>1. i + d < j + d
      BY <1>6
    <2>. QED  BY <1>5, <2>1 DEF Sorted
  <1>7. \A i \in 1..n : r[i] <= t
    BY <1>5
  <1>8. ASSUME NEW i \in 1..n PROVE cutoff <= r[i]
    <2>1. g \in 1..Len(q) /\ q[g] >= cutoff /\ q[g] \in Nat
      BY <1>1, <1>2, <1>3, <1>4, <1>8
    <2>2. CASE i = 1
      <3>1. i + d = g
        BY <1>4, <2>2
      <3>. QED  BY <1>5, <2>1, <3>1
    <2>3. CASE i # 1
      <3>1. i + d \in 1..Len(q) /\ g < i + d
        BY <1>4, <1>5, <2>3
      <3>2. q[g] <= q[i + d]
        BY <2>1, <3>1 DEF Sorted
      <3>. QED  BY <1>5, <2>1, <3>2
    <2>. QED  BY <2>2, <2>3
  <1>9. Sorted(Append(r, t))
    <2>1. PICK s : s = Append(r, t)
      OBVIOUS
    <2>2. Len(s) = n + 1 /\ s[n + 1] = t /\ \A i \in 1..n : s[i] = r[i]
      <3>1. r \in Seq(Clock) /\ Len(r) = n
        BY <1>3, <1>4
      <3>. QED  BY ONLY <2>1, <3>1, n \in Nat, t \in Clock
    <2>3. ASSUME NEW i \in 1..(n + 1), NEW j \in 1..(n + 1), i < j PROVE s[i] <= s[j]
      <3>1. i \in 1..n
        BY <2>3
      <3>2. CASE j = n + 1
        BY <1>7, <2>2, <3>1, <3>2
      <3>3. CASE j # n + 1
        <4>1. j \in 1..n
          BY <3>3
        <4>. QED  BY <1>6, <2>2, <2>3, <3>1, <4>1
      <3>. QED  BY <3>2, <3>3
    <2>. QED  BY <2>1, <2>2, <2>3 DEF Sorted
  <1>. QED  BY <1>3, <1>4, <1>6, <1>7, <1>8, <1>9 DEF Sorted

\* Calls that do not overlap keep their order, and are refused only when their
\* window is full.
LEMMA TurnsNext ==
    ASSUME L!RateLimiterAssumption, W!WebSocketsAssumption, LimiterInv, TurnsInv,
           [EdgesNext]_edgeVars
    PROVE  /\ TurnsInv'
           /\ part = "limiter" /\ ~overlap => L!RefusesWhenFull
  <1>1. overlap' = overlap /\ [L!Next]_(L!vars)
    BY Choice, Steps
  <1>2. /\ now \in Clock /\ queue \in [Keys -> Seq(Clock)]
        /\ call \in [Callers -> L!Call \cup {None}]
        /\ admitted \in [Keys -> [Clock -> Nat]]
    BY DEF LimiterInv, LimiterTypes
  <1>3. /\ MaxRequests \in Nat /\ MaxTime \in Nat /\ Window \in Nat /\ Clock \subseteq Nat
        /\ L!Times = Clock
    BY LimiterConstants DEF Clock
  <1>4. CASE overlap
    BY <1>1, <1>4 DEF TurnsInv
  <1>5. CASE ~overlap /\ UNCHANGED <<queue, call>>
    BY <1>1, <1>5 DEF TurnsInv, Sorted, L!RefusesWhenFull
  <1>6. ASSUME ~overlap, NEW c \in Callers, NEW k \in Keys, L!ReadClock(c, k)
        PROVE  TurnsInv' /\ L!RefusesWhenFull
    <2>1. /\ queue' = queue /\ call[c] = None
          /\ \A d \in Callers : d # c => call'[d] = call[d]
          /\ call'[c].time = now
      BY <1>2, <1>6 DEF L!ReadClock
    <2>2. TurnsInv'
      <3>1. \A j \in Keys : \A i \in 1..Len(queue[j]) : queue[j][i] <= now
        BY DEF LimiterInv, LateInv
      <3>2. \A d \in Callers : call'[d] # None =>
               \A j \in Keys : \A i \in 1..Len(queue[j]) : queue[j][i] <= call'[d].time
        BY <1>6, <2>1, <3>1 DEF TurnsInv
      <3>. QED  BY <1>6, <2>1, <3>2 DEF TurnsInv, Sorted
    <2>3. L!RefusesWhenFull
      BY <2>1 DEF L!RefusesWhenFull
    <2>. QED  BY <2>2, <2>3
  <1>7. ASSUME ~overlap, NEW c \in Callers, L!Check(c), InFlight <= 1
        PROVE  TurnsInv' /\ L!RefusesWhenFull
    <2>1. PICK k \in Keys, t \in Clock, r \in Seq(Clock) :
              /\ call[c] # None /\ call[c].key = k /\ call[c].time = t
              /\ r = L!Drained(queue[k], t - Window)
              /\ now' = now /\ call' = [call EXCEPT ![c] = None]
              /\ \/ /\ Len(r) < MaxRequests
                    /\ queue' = [queue EXCEPT ![k] = Append(r, t)]
                    /\ admitted' = [admitted EXCEPT ![k][t] = @ + 1]
                 \/ /\ Len(r) >= MaxRequests
                    /\ queue' = [queue EXCEPT ![k] = r] /\ admitted' = admitted
      BY <1>7, CheckIs DEF LimiterInv
    <2>2. \A d \in Callers : call'[d] = None
      <3>1. \A d \in Callers : d # c => call[d] = None
        BY <1>7, <2>1, OneInFlight
      <3>. QED  BY <1>2, <2>1, <3>1
    <2>3. PICK q : q = queue[k]
      OBVIOUS
    <2>4. /\ q \in Seq(Clock) /\ Sorted(q) /\ \A i \in 1..Len(q) : q[i] <= t
      BY <1>2, <1>7, <2>1, <2>3 DEF TurnsInv
    <2>5. /\ Sorted(r) /\ Sorted(Append(r, t))
          /\ \A i \in 1..Len(r) : r[i] <= t
          /\ \A i \in 1..Len(r) : t - Window <= r[i]
          /\ \A S : Held(r, S) <= Held(q, S)
      <3>1. PICK w \in Int : w = t - Window
        BY <1>3
      <3>2. r = L!Drained(q, w)
        BY <2>1, <2>3, <3>1
      <3>3. /\ Sorted(r) /\ Sorted(Append(r, t))
            /\ \A i \in 1..Len(r) : r[i] <= t
            /\ \A i \in 1..Len(r) : w <= r[i]
            /\ \A S : Held(r, S) <= Held(q, S)
        BY <1>3, <2>4, <3>2, SortedSuffix
      <3>. QED  BY <3>1, <3>3
    <2>6. \A j \in Keys : Sorted(queue'[j])
      <3>1. \A j \in Keys : j # k => queue'[j] = queue[j]
        BY <1>2, <2>1
      <3>2. queue'[k] \in {r, Append(r, t)}
        BY <1>2, <2>1
      <3>. QED  BY <1>7, <2>5, <3>1, <3>2 DEF TurnsInv
    <2>7. TurnsInv'
      BY <2>2, <2>6 DEF TurnsInv, Sorted
    <2>8. ASSUME admitted' = admitted PROVE Total(admitted[k], t - Window, t) >= MaxRequests
      <3>1. Len(r) >= MaxRequests
        <4>1. ~ (admitted' = [admitted EXCEPT ![k][t] = @ + 1])
          <5>1. admitted[k][t] \in Nat
            BY <1>2
          <5>2. admitted[k][t] + 1 # admitted[k][t]
            BY <5>1
          <5>3. [admitted EXCEPT ![k][t] = @ + 1][k][t] = admitted[k][t] + 1
            BY <1>2
          <5>. QED  BY <2>8, <5>2, <5>3
        <4>. QED  BY <2>1, <4>1
      <3>2. Held(r, Span(t)) = Len(r)
        <4>1. \A i \in 1..Len(r) : r[i] \in Span(t)
          <5>1. \A i \in 1..Len(r) : r[i] \in Clock
            OBVIOUS
          <5>2. t \in Int /\ Window \in Int /\ Clock \subseteq Int
            BY <1>3
          <5>3. ASSUME NEW i \in 1..Len(r) PROVE r[i] \in (t - Window)..t
            <6>1. r[i] \in Int /\ t - Window <= r[i] /\ r[i] <= t
              BY <2>5, <5>1, <5>2
            <6>. QED  BY <5>2, <6>1
          <5>. QED  BY <5>1, <5>3 DEF Span
        <4>2. {i \in 1..Len(r) : r[i] \in Span(t)} = 1..Len(r)
          BY <4>1
        <4>3. PICK n \in Nat : n = Len(r)
          OBVIOUS
        <4>4. Cardinality(1..n) = n
          BY FS_Interval
        <4>. QED  BY <4>2, <4>3, <4>4 DEF Held
      <3>3. Held(q, Span(t)) <= Total(admitted[k], t - Window, t)
        BY <2>3 DEF LimiterInv, ExactInv, Kept
      <3>4. PICK x, y, z \in Nat : /\ x = Len(r) /\ y = Held(q, Span(t))
                                   /\ z = Total(admitted[k], t - Window, t)
        <4>1. Total(admitted[k], t - Window, t) \in Nat
          BY <1>2, <1>3, LimiterConstants, TotalGrows
        <4>2. Held(q, Span(t)) \in Nat
          <5>1. Len(q) \in Nat
            BY <2>4
          <5>. QED  BY <5>1, HeldType
        <4>. QED  BY <4>1, <4>2
      <3>5. x >= MaxRequests /\ x <= y /\ y <= z
        BY <2>5, <3>1, <3>2, <3>3, <3>4
      <3>6. z >= MaxRequests
        BY <1>3, <3>5
      <3>. QED  BY <3>4, <3>6
    <2>9. ASSUME NEW d \in Callers, call[d] # None, call'[d] = None, admitted' = admitted
          PROVE  L!Admissions(call[d].key, call[d].time - Window, call[d].time) >= MaxRequests
      <3>1. d = c
        BY <1>7, <2>1, <2>9, OneInFlight
      <3>. QED  BY <1>3, <2>1, <2>8, <2>9, <3>1, InstanceSums DEF L!Admissions, Total
    <2>. QED  BY <2>7, <2>9 DEF L!RefusesWhenFull
  <1>8. ~overlap => InFlight <= 1 \/ UNCHANGED <<queue, call>>
    BY DEF EdgesNext, edgeVars, gates, limiter
  <1>9. CASE L!Tick \/ UNCHANGED L!vars
    BY <1>4, <1>5, <1>9 DEF L!Tick, L!vars
  <1>. QED  BY <1>1, <1>4, <1>5, <1>6, <1>7, <1>8, <1>9 DEF L!Next

\* Requests that overlap exceed the maximum of any window by less than their
\* number; requests that do not are refused only when their window is full
\* (RateLimiterState::check, rate_limit.rs).
THEOREM ExactLimiter ==
    ASSUME L!RateLimiterAssumption, W!WebSocketsAssumption
    PROVE  EdgesSpec => LimiterIsExact
  <1>1. EdgesInit => LimiterInv /\ TurnsInv
    BY LimiterInit DEF EdgesInit, L!Init, TurnsInv, Sorted
  <1>2. LimiterInv /\ [EdgesNext]_edgeVars => LimiterInv'
    BY Steps, LimiterNext
  <1>3. LimiterInv /\ TurnsInv /\ [EdgesNext]_edgeVars =>
            TurnsInv' /\ [part = "limiter" /\ ~overlap => L!RefusesWhenFull]_edgeVars
    BY TurnsNext
  <1>4. LimiterInv => L!ExcessBounded
    <2>. SUFFICES ASSUME LimiterInv, NEW k \in Keys, NEW b \in Clock
                  PROVE  L!Admissions(k, b - Window, b) < MaxRequests + L!Cardinality(Callers)
      BY LimiterConstants DEF L!ExcessBounded
    <2>1. /\ Kept(queue[k], admitted[k], b)
          /\ Safe(queue[k], admitted[k], now, Cardinality(Under(k, b)), b)
          /\ queue[k] \in Seq(Clock) /\ Len(queue[k]) <= MaxRequests
          /\ admitted[k] \in [Clock -> Nat]
      BY DEF LimiterInv, ExactInv, LimiterTypes
    <2>2. PICK a, has, m, u, j \in Nat :
             /\ a = Total(admitted[k], b - Window, b) /\ has = Held(queue[k], Span(b))
             /\ m = Len(queue[k]) /\ u = Cardinality(Under(k, b)) /\ j = Cardinality(Callers)
      <3>1. Total(admitted[k], b - Window, b) \in Nat
        BY <2>1, LimiterConstants, TotalGrows
      <3>2. Held(queue[k], Span(b)) \in Nat /\ Len(queue[k]) \in Nat
        <4>1. Len(queue[k]) \in Nat
          BY <2>1
        <4>. QED  BY <4>1, HeldType
      <3>3. Cardinality(Under(k, b)) \in Nat /\ Cardinality(Callers) \in Nat
        BY UnderCount, LimiterConstants
      <3>. QED  BY <3>1, <3>2, <3>3
    <2>3. a <= has \/ a + u <= MaxRequests + j - 1
      BY <2>1, <2>2 DEF Safe
    <2>4. has <= m /\ m <= MaxRequests /\ j # 0 /\ MaxRequests \in Nat
      BY <2>1, <2>2, HeldType, LimiterConstants
    <2>5. a < MaxRequests + j
      BY <2>3, <2>4
    <2>6. L!Admissions(k, b - Window, b) = Total(admitted[k], b - Window, b)
      BY LimiterConstants, InstanceSums DEF L!Admissions, Total
    <2>. QED  BY <2>2, <2>5, <2>6, InstanceSets
  <1>. QED  BY <1>1, <1>2, <1>3, <1>4, PTL DEF EdgesSpec, LimiterIsExact

-----------------------------------------------------------------------------
\* q lists members of 1..n in their order, none of them in S.
Lists(q, n, S) == /\ q \in Seq(1..n)
                  /\ \A i \in 1..Len(q) : q[i] \notin S
                  /\ \A i, j \in 1..Len(q) : i < j => q[i] < q[j]

\* f lists for each k <= n what of 1..k is not in S.
Listed(f, n, S) ==
    f = [i \in 0..n |-> IF i = 0 THEN <<>>
                        ELSE IF i \in S THEN f[i - 1] ELSE Append(f[i - 1], i)]

\* What such a list has at each place.
LEMMA ListedAt ==
    ASSUME NEW n \in Nat, NEW S, NEW f, Listed(f, n, S), NEW i \in 1..n
    PROVE  f[i] = IF i \in S THEN f[i - 1] ELSE Append(f[i - 1], i)
  <1>. DEFINE F(x) == IF x = 0 THEN <<>> ELSE IF x \in S THEN f[x - 1] ELSE Append(f[x - 1], x)
  <1>1. f = [x \in 0..n |-> F(x)]
    BY DEF Listed
  <1>2. i \in 0..n /\ i # 0
    OBVIOUS
  <1>3. f[i] = F(i)
    <2>. HIDE DEF F
    <2>. QED  BY <1>1, <1>2
  <1>. QED  BY <1>2, <1>3

\* A number that is greater than all may be added.
LEMMA ListsAppend ==
    ASSUME NEW n \in Nat \ {0}, NEW S, NEW q, Lists(q, n - 1, S)
    PROVE  /\ Lists(q, n, S)
           /\ n \notin S => Lists(Append(q, n), n, S)
  <1>1. 1..(n - 1) \subseteq 1..n /\ n \in 1..n
    OBVIOUS
  <1>2. q \in Seq(1..(n - 1))
    BY DEF Lists
  <1>3. q \in Seq(1..n) /\ Append(q, n) \in Seq(1..n)
    BY <1>1, <1>2
  <1>4. PICK l \in Nat : l = Len(q)
    BY <1>3
  <1>5. \A i \in 1..l : q[i] \in 1..(n - 1)
    BY <1>2, <1>4
  <1>6. Lists(q, n, S)
    BY <1>3 DEF Lists
  <1>7. ASSUME n \notin S PROVE Lists(Append(q, n), n, S)
    <2>. DEFINE r == Append(q, n)
    <2>1. Len(r) = l + 1 /\ r[l + 1] = n /\ \A i \in 1..l : r[i] = q[i]
      BY <1>2, <1>4
    <2>2. 1..(l + 1) = (1..l) \cup {l + 1} /\ r \in Seq(1..n)
      BY <1>3
    <2>. HIDE DEF r
    <2>3. \A i \in 1..Len(r) : r[i] \notin S
      BY <1>4, <1>7, <2>1, <2>2 DEF Lists
    <2>4. ASSUME NEW i \in 1..(l + 1), NEW j \in 1..(l + 1), i < j PROVE r[i] < r[j]
      <3>1. i \in 1..l
        BY <2>4
      <3>2. CASE j = l + 1
        BY <1>5, <2>1, <3>1, <3>2
      <3>3. CASE j \in 1..l
        BY <1>4, <2>1, <2>4, <3>1, <3>3 DEF Lists
      <3>. QED  BY <2>2, <3>2, <3>3
    <2>5. Lists(r, n, S)
      BY <2>1, <2>2, <2>3, <2>4 DEF Lists
    <2>. QED  BY <2>5 DEF r
  <1>. QED  BY <1>6, <1>7

\* There is such a list of every beginning.
LEMMA ListedExists ==
    ASSUME NEW n \in Nat, NEW S
    PROVE  \E f : Listed(f, n, S)
  <1>. DEFINE N == {k \in 0..n : ~ \E f : Listed(f, k, S)}
  <1>. SUFFICES ASSUME ~ \E f : Listed(f, n, S) PROVE FALSE
    OBVIOUS
  <1>1. N \in SUBSET Nat /\ n \in N
    OBVIOUS
  <1>2. PICK k \in N : \A j \in N : k <= j
    <2>. HIDE DEF N
    <2>. QED  BY <1>1, LeastIn
  <1>3. k # 0
    <2>1. Listed([i \in 0..0 |-> <<>>], 0, S)
      BY DEF Listed
    <2>. QED  BY <2>1
  <1>4. k \in 1..n /\ k - 1 \in 0..n
    BY <1>3
  <1>5. PICK f : Listed(f, k - 1, S)
    <2>1. k - 1 \notin N
      <3>1. ~ (k <= k - 1)
        BY <1>4
      <3>. HIDE DEF N
      <3>. QED  BY <1>2, <3>1
    <2>. QED  BY <1>4, <2>1
  <1>. DEFINE last == IF k \in S THEN f[k - 1] ELSE Append(f[k - 1], k)
              g == [i \in 0..k |-> IF i = k THEN last ELSE f[i]]
  <1>6. \A i \in 0..k : g[i] = IF i = 0 THEN <<>>
                               ELSE IF i \in S THEN g[i - 1] ELSE Append(g[i - 1], i)
    <2>. SUFFICES ASSUME NEW i \in 0..k
                  PROVE  g[i] = IF i = 0 THEN <<>>
                                ELSE IF i \in S THEN g[i - 1] ELSE Append(g[i - 1], i)
      OBVIOUS
    <2>1. CASE i = k
      <3>1. g[k - 1] = f[k - 1] /\ g[k] = last
        BY <1>4
      <3>. HIDE DEF g
      <3>. QED  BY <1>3, <2>1, <3>1
    <2>2. CASE i = 0
      <3>1. f[0] = <<>>
        BY <1>4, <1>5 DEF Listed
      <3>2. g[0] = f[0]
        BY <1>3
      <3>. QED  BY <2>2, <3>1, <3>2
    <2>3. CASE i \in 1..(k - 1)
      <3>1. f[i] = IF i \in S THEN f[i - 1] ELSE Append(f[i - 1], i)
        BY <1>4, <1>5, <2>3, ListedAt
      <3>2. g[i] = f[i] /\ g[i - 1] = f[i - 1]
        BY <1>4, <2>3
      <3>. HIDE DEF g
      <3>. QED  BY <2>3, <3>1, <3>2
    <2>. QED  BY <1>4, <2>1, <2>2, <2>3
  <1>7. g = [i \in 0..k |-> g[i]]
    OBVIOUS
  <1>. HIDE DEF g
  <1>8. Listed(g, k, S)
    BY <1>6, <1>7 DEF Listed
  <1>. QED  BY <1>2, <1>8

\* And every such list is one in order.
LEMMA ListedLists ==
    ASSUME NEW n \in Nat, NEW S, NEW f, Listed(f, n, S)
    PROVE  Lists(f[n], n, S)
  <1>. DEFINE N == {k \in 0..n : ~ Lists(f[k], k, S)}
  <1>. SUFFICES ASSUME ~ Lists(f[n], n, S) PROVE FALSE
    OBVIOUS
  <1>1. N \in SUBSET Nat /\ n \in N
    OBVIOUS
  <1>2. PICK k \in N : \A j \in N : k <= j
    <2>. HIDE DEF N
    <2>. QED  BY <1>1, LeastIn
  <1>3. k # 0
    <2>1. f[0] = <<>>
      BY DEF Listed
    <2>2. Lists(<<>>, 0, S)
      BY DEF Lists
    <2>. QED  BY <2>1, <2>2
  <1>4. k \in 1..n /\ k - 1 \in 0..n
    BY <1>3
  <1>5. Lists(f[k - 1], k - 1, S)
    <2>1. k - 1 \notin N
      <3>1. ~ (k <= k - 1)
        BY <1>4
      <3>. HIDE DEF N
      <3>. QED  BY <1>2, <3>1
    <2>. QED  BY <1>4, <2>1
  <1>6. f[k] = IF k \in S THEN f[k - 1] ELSE Append(f[k - 1], k)
    BY <1>4, ListedAt
  <1>7. Lists(f[k - 1], k, S) /\ (k \notin S => Lists(Append(f[k - 1], k), k, S))
    BY <1>4, <1>5, ListsAppend
  <1>8. Lists(f[k], k, S)
    BY <1>6, <1>7
  <1>. QED  BY <1>2, <1>8

\* Slack's side of a connection: what it has sent is in order and not yet
\* acknowledged.  The adapter's side: what it read, or handed over, is
\* acknowledged or was to be, and what it reads once more was not.
SlackTypes == /\ posted \in Seq(Slacks) /\ settled \subseteq SL!Posts
              /\ handed \in Seq(SL!Posts) /\ reading \in SL!Posts \cup {0}
WireInv == Lists(wire, Len(posted), settled)
ReadInv == /\ reading # 0 => reading \in settled \cup unacked
           /\ \A i \in 1..Len(handed) : handed[i] \in settled \cup unacked
           /\ \A i \in 1..Len(handed) : handed[i] = reading => reading \in unacked
SlackInv == SlackTypes /\ WireInv /\ ReadInv /\ SL!AckedIsHanded /\ SL!TwiceOnlyUnacked

LEMMA SlackInit == ASSUME SL!Init PROVE SlackInv
  <1>. USE DEF SL!Init, SL!SharedInit
  <1>1. SlackTypes
    BY DEF SlackTypes
  <1>2. WireInv /\ ReadInv
    BY DEF WireInv, ReadInv, Lists
  <1>3. SL!AckedIsHanded /\ SL!TwiceOnlyUnacked
    BY DEF SL!AckedIsHanded, SL!TwiceOnlyUnacked
  <1>. QED  BY <1>1, <1>2, <1>3 DEF SlackInv

\* Slack offers in order what was not acknowledged.
LEMMA EnvelopesAre ==
    ASSUME posted \in Seq(Slacks)
    PROVE  Lists(SL!Envelopes, Len(posted), settled)
  <1>. DEFINE n == Len(posted)
              F(g) == [i \in 0..n |-> IF i = 0 THEN <<>>
                          ELSE IF i \in settled THEN g[i - 1] ELSE Append(g[i - 1], i)]
              upTo == CHOOSE g : g = F(g)
  <1>1. n \in Nat
    OBVIOUS
  <1>2. PICK f : Listed(f, n, settled)
    BY <1>1, ListedExists
  <1>3. f = F(f)
    BY <1>2 DEF Listed
  <1>4. upTo = F(upTo)
    <2>. HIDE DEF F
    <2>. QED  BY <1>3
  <1>5. SL!Envelopes = upTo[n]
    BY DEF SL!Envelopes
  <1>. HIDE DEF upTo
  <1>6. Listed(upTo, n, settled)
    BY <1>4 DEF Listed
  <1>. HIDE DEF n
  <1>7. Lists(upTo[n], n, settled)
    BY <1>1, <1>6, ListedLists
  <1>. QED  BY <1>5, <1>7 DEF n

\* The adapter takes the first envelope.
LEMMA ListsTail ==
    ASSUME NEW n \in Nat, NEW S, NEW q, Lists(q, n, S), q # <<>>
    PROVE  /\ Head(q) \in 1..n /\ Head(q) \notin S
           /\ Lists(Tail(q), n, S) /\ Lists(Tail(q), n, S \cup {Head(q)})
  <1>1. q \in Seq(1..n)
    BY DEF Lists
  <1>2. PICK l \in Nat \ {0} : l = Len(q)
    BY <1>1
  <1>3. Head(q) = q[1] /\ q[1] \in 1..n
    BY <1>1, <1>2
  <1>4. PICK r \in Seq(1..n) : r = Tail(q) /\ Len(r) = l - 1 /\ \A i \in 1..(l - 1) : r[i] = q[i + 1]
    <2>1. Tail(q) \in Seq(1..n) /\ Len(Tail(q)) = l - 1
      BY <1>1, <1>2
    <2>2. \A i \in 1..(l - 1) : Tail(q)[i] = q[i + 1]
      BY <1>1, <1>2
    <2>. QED  BY <2>1, <2>2
  <1>5. ASSUME NEW i \in 1..(l - 1)
        PROVE  /\ r[i] \notin S /\ r[i] # q[1]
               /\ \A j \in 1..(l - 1) : i < j => r[i] < r[j]
    <2>1. i + 1 \in 1..l /\ 1 \in 1..l /\ 1 < i + 1
      BY <1>2
    <2>2. q[i + 1] \notin S /\ q[1] < q[i + 1]
      BY <1>2, <2>1 DEF Lists
    <2>3. q[i + 1] # q[1]
      BY <1>3, <2>2
    <2>4. ASSUME NEW j \in 1..(l - 1), i < j PROVE q[i + 1] < q[j + 1]
      <3>1. j + 1 \in 1..l /\ i + 1 < j + 1
        BY <1>2, <2>4
      <3>. QED  BY <1>2, <2>1, <3>1 DEF Lists
    <2>. QED  BY <1>4, <2>2, <2>3, <2>4
  <1>6. Lists(r, n, S) /\ Lists(r, n, S \cup {q[1]})
    BY <1>4, <1>5 DEF Lists
  <1>7. q[1] \notin S
    BY <1>2 DEF Lists
  <1>. QED  BY <1>3, <1>4, <1>6, <1>7

\* Every step of Slack and of its adapter keeps this.
LEMMA SlackNext == ASSUME SlackInv, [SL!Next]_(SL!slVars) PROVE SlackInv'
  <1>. USE DEF SL!shared, SL!conn, SL!Posts
  <1>. DEFINE n == Len(posted)
  <1>0. /\ n \in Nat /\ SL!Posts = 1..n /\ DOMAIN handed = 1..Len(handed) /\ Len(handed) \in Nat
        /\ SlackTypes /\ Lists(wire, n, settled)
    BY DEF SlackInv, SlackTypes, WireInv
  <1>. USE <1>0
  <1>1. ASSUME UNCHANGED <<posted, settled, handed, ever, unacked, cut>>,
               \/ UNCHANGED <<wire, reading>>
               \/ reading = 0 /\ reading' = 0 /\ wire' = <<>>
        PROVE  SlackInv'
    <2>1. Lists(<<>>, n, settled)
      BY DEF Lists
    <2>. QED  BY <1>1, <2>1 DEF SlackInv, SlackTypes, WireInv, ReadInv, SL!AckedIsHanded,
                                SL!TwiceOnlyUnacked, SL!Accepts
  <1>2. CASE UNCHANGED SL!slVars
    BY <1>1, <1>2 DEF SL!slVars
  <1>3. CASE SL!Shutdown /\ UNCHANGED <<listener, SL!conn, unacked, cut>>
    BY <1>1, <1>3 DEF SL!Shutdown
  <1>4. CASE SL!Start
    BY <1>1, <1>4 DEF SL!Start
  <1>5. CASE SL!Drop
    BY <1>1, <1>5 DEF SL!Drop
  <1>6. CASE SL!Mute
    BY <1>1, <1>6 DEF SL!Mute
  <1>7. CASE SL!Connect
    <2>1. Lists(wire', n, settled)
      BY <1>7, EnvelopesAre DEF SL!Connect, SlackTypes
    <2>. QED  BY <1>7, <2>1 DEF SL!Connect, SlackInv, SlackTypes, WireInv, ReadInv,
                                SL!AckedIsHanded, SL!TwiceOnlyUnacked, SL!Accepts
  <1>8. CASE SL!Write
    <2>. USE <1>8 DEF SL!Write, SL!Post
    <2>1. /\ posted' \in Seq(Slacks) /\ Len(posted') = n + 1 /\ n + 1 \in Nat \ {0}
          /\ \A p \in 1..n : posted'[p] = posted[p]
      BY DEF SlackTypes
    <2>2. SL!Posts' = 1..(n + 1) /\ n + 1 \notin 1..n /\ 1..n \subseteq 1..(n + 1)
      BY <2>1
    <2>3. n + 1 \notin settled
      BY <2>2 DEF SlackTypes
    <2>4. Lists(wire, n + 1, settled) /\ Lists(Append(wire, n + 1), n + 1, settled)
      <3>1. n + 1 - 1 = n
        OBVIOUS
      <3>. HIDE DEF n
      <3>. QED  BY <2>1, <2>3, <3>1, ListsAppend
    <2>5. WireInv'
      BY <2>1, <2>4 DEF WireInv
    <2>6. SlackTypes'
      BY <2>1, <2>2 DEF SlackTypes
    <2>7. ReadInv' /\ SL!TwiceOnlyUnacked'
      BY DEF SlackInv, ReadInv, SL!TwiceOnlyUnacked
    <2>8. SL!AckedIsHanded'
      BY <2>1 DEF SlackInv, SlackTypes, SL!AckedIsHanded, SL!Accepts
    <2>. QED  BY <2>5, <2>6, <2>7, <2>8 DEF SlackInv
  <1>9. CASE SL!Ack
    <2>. DEFINE p == Head(wire)
    <2>1. /\ reading = 0 /\ reading' = p /\ wire' = Tail(wire)
          /\ UNCHANGED <<posted, handed, ever, cut>>
          /\ \/ settled' = settled \cup {p} /\ unacked' = unacked
             \/ settled' = settled /\ unacked' = unacked \cup {p}
      BY <1>9 DEF SL!Ack
    <2>2. /\ p \in 1..n /\ p \notin settled
          /\ Lists(Tail(wire), n, settled) /\ Lists(Tail(wire), n, settled \cup {p})
      <3>1. wire # <<>>
        BY <1>9 DEF SL!Ack
      <3>. HIDE DEF n
      <3>. QED  BY <3>1, ListsTail
    <2>. HIDE DEF p
    <2>3. SlackTypes'
      BY <2>1, <2>2 DEF SlackTypes
    <2>4. WireInv'
      BY <2>1, <2>2 DEF WireInv
    <2>5. ReadInv'
      BY <2>1, <2>2 DEF SlackInv, ReadInv
    <2>6. SL!AckedIsHanded'
      BY <2>1 DEF SlackInv, SlackTypes, SL!AckedIsHanded, SL!Accepts
    <2>7. SL!TwiceOnlyUnacked'
      BY <2>1 DEF SlackInv, SL!TwiceOnlyUnacked
    <2>. QED  BY <2>3, <2>4, <2>5, <2>6, <2>7 DEF SlackInv
  <1>10. CASE SL!Deliver
    <2>1. /\ reading \in 1..n /\ reading' = 0
          /\ UNCHANGED <<posted, settled, wire, unacked, cut>>
      BY <1>10 DEF SL!Deliver, SlackTypes
    <2>2. WireInv'
      BY <2>1 DEF WireInv
    <2>3. CASE UNCHANGED <<handed, ever>> /\ ~ SL!Accepts(posted[reading])
      BY <2>1, <2>2, <2>3 DEF SlackInv, SlackTypes, ReadInv, SL!AckedIsHanded,
                              SL!TwiceOnlyUnacked, SL!Accepts
    <2>4. CASE SL!Send(reading)
      <3>1. /\ handed' \in Seq(SL!Posts) /\ Len(handed') = Len(handed) + 1
            /\ handed'[Len(handed) + 1] = reading
            /\ \A i \in 1..Len(handed) : handed'[i] = handed[i]
            /\ ever' = ever \cup {reading}
        BY <2>1, <2>4 DEF SL!Send, SlackTypes
      <3>2. PICK l \in Nat : l = Len(handed)
        OBVIOUS
      <3>3. 1..(l + 1) = (1..l) \cup {l + 1}
        BY <3>2
      <3>4. SlackTypes'
        BY <2>1, <3>1 DEF SlackTypes
      <3>5. \A i \in 1..(l + 1) : handed'[i] \in settled \cup unacked
        BY <2>1, <3>1, <3>2, <3>3 DEF SlackInv, ReadInv
      <3>6. \A i \in 1..(l + 1) : handed'[i] # 0
        BY <2>1, <3>1, <3>2, <3>3 DEF SlackTypes
      <3>7. ReadInv'
        BY <2>1, <3>1, <3>2, <3>5, <3>6 DEF ReadInv
      <3>8. \A i \in 1..l : handed[i] = reading => reading \in unacked
        BY <3>2 DEF SlackInv, ReadInv
      <3>9. \A i, j \in 1..(l + 1) : i # j /\ handed'[i] = handed'[j] => handed'[i] \in unacked
        BY <3>1, <3>2, <3>3, <3>8 DEF SlackInv, SL!TwiceOnlyUnacked
      <3>10. SL!TwiceOnlyUnacked'
        <4>1. DOMAIN handed' = 1..(l + 1)
          BY <3>1, <3>2
        <4>. QED  BY <2>1, <3>9, <4>1 DEF SL!TwiceOnlyUnacked
      <3>11. SL!AckedIsHanded'
        BY <2>1, <3>1 DEF SlackInv, SL!AckedIsHanded, SL!Accepts
      <3>. QED  BY <2>2, <3>4, <3>7, <3>10, <3>11 DEF SlackInv
    <2>. QED  BY <1>10, <2>3, <2>4 DEF SL!Deliver, SL!Take
  <1>11. CASE SL!Restart
    <2>. USE <1>11 DEF SL!Restart, SL!Die
    <2>1. Lists(<<>>, n, settled)
      BY DEF Lists
    <2>2. SlackTypes' /\ WireInv' /\ ReadInv'
      BY <2>1 DEF SlackTypes, WireInv, ReadInv
    <2>3. SL!TwiceOnlyUnacked'
      BY DEF SL!TwiceOnlyUnacked
    <2>4. SL!AckedIsHanded'
      BY DEF SlackInv, SlackTypes, SL!AckedIsHanded, SL!Accepts
    <2>. QED  BY <2>2, <2>3, <2>4 DEF SlackInv
  <1>. QED  BY <1>2, <1>3, <1>4, <1>5, <1>6, <1>7, <1>8, <1>9, <1>10, <1>11 DEF SL!Next

\* Whatever users write and whenever connections and the process end, Slack
\* forgets only what was handed over or cut off, and an event is handed over
\* twice only where an acknowledgement was lost.
THEOREM SlackIsAccounted == EdgesSpec => []SlackAccounts
  <1>. DEFINE Inv == part = "slack" => SlackInv
  <1>1. EdgesInit => Inv
    BY SlackInit DEF EdgesInit
  <1>2. Inv /\ [EdgesNext]_edgeVars => Inv'
    BY Choice, ListenerSteps, SlackNext
  <1>3. Inv => SlackAccounts
    BY DEF SlackInv, SlackAccounts
  <1>. QED  BY <1>1, <1>2, <1>3, PTL DEF EdgesSpec

-----------------------------------------------------------------------------
\* The connections of the WhatsApp client and the queue to its task.
\* shutdown() closes the client only after it has cleared the adapter's flag.
LinkTypes == [open : BOOLEAN, loop : {"none", "holding", "handling"}, wire : Seq(Nat)]
HaltTypes == [stop : {"none", "flag", "done"}, closing : {"nobody", "shutdown", "task"},
              notes : Nat]
DownInv   == /\ links \in Seq(LinkTypes) /\ events \in Seq(Int) /\ halting \in HaltTypes
             /\ halting.stop # "none" \/ halting.closing = "shutdown" => ~ running
             /\ WA!DownIsNoticed

LEMMA DownInit == ASSUME WA!Init PROVE DownInv
  <1>1. halting \in HaltTypes /\ halting.stop = "none" /\ halting.closing = "nobody"
    BY DEF WA!Init, WA!Running, HaltTypes
  <1>. QED  BY <1>1 DEF WA!Init, DownInv, WA!DownIsNoticed

\* What is put on the queue does not take an end away, and is noticed itself.
LEMMA Queued ==
    ASSUME NEW q \in Seq(Int), NEW p \in Seq(Int)
    PROVE  /\ q \o p \in Seq(Int)
           /\ \A j \in DOMAIN q : j \in DOMAIN (q \o p) /\ (q \o p)[j] = q[j]
           /\ \A j \in DOMAIN p : \E m \in DOMAIN (q \o p) : (q \o p)[m] = p[j]
  <1>1. PICK l \in Nat, m \in Nat : l = Len(q) /\ m = Len(p)
    OBVIOUS
  <1>2. \A j \in 1..m : l + j \in 1..(l + m) /\ (q \o p)[l + j] = p[j]
    BY <1>1
  <1>3. DOMAIN q = 1..l /\ DOMAIN p = 1..m /\ DOMAIN (q \o p) = 1..(l + m) /\ q \o p \in Seq(Int)
    BY <1>1
  <1>4. \A j \in 1..l : j \in 1..(l + m) /\ (q \o p)[j] = q[j]
    BY <1>1
  <1>. QED  BY <1>2, <1>3, <1>4

\* One of them changes.
LEMMA LinkChanges ==
    ASSUME NEW q \in Seq(LinkTypes), NEW i \in DOMAIN q
    PROVE  /\ \A l \in {"none", "holding", "handling"} : \A w \in Seq(Nat) :
                 /\ [q EXCEPT ![i].loop = l] \in Seq(LinkTypes)
                 /\ [q EXCEPT ![i].wire = w] \in Seq(LinkTypes)
                 /\ [q EXCEPT ![i].loop = l, ![i].wire = w] \in Seq(LinkTypes)
                 /\ [q EXCEPT ![i].open = FALSE, ![i].wire = w] \in Seq(LinkTypes)
           /\ \A r \in LinkTypes : [q EXCEPT ![i] = r] \in Seq(LinkTypes)
  <1>1. q[i] \in LinkTypes
    OBVIOUS
  <1>2. ASSUME NEW r \in LinkTypes PROVE [q EXCEPT ![i] = r] \in Seq(LinkTypes)
    OBVIOUS
  <1>3. ASSUME NEW l \in {"none", "holding", "handling"}, NEW w \in Seq(Nat)
        PROVE  /\ [q[i] EXCEPT !.loop = l] \in LinkTypes
               /\ [q[i] EXCEPT !.wire = w] \in LinkTypes
               /\ [q[i] EXCEPT !.loop = l, !.wire = w] \in LinkTypes
               /\ [q[i] EXCEPT !.open = FALSE, !.wire = w] \in LinkTypes
    BY <1>1 DEF LinkTypes
  <1>4. ASSUME NEW l \in {"none", "holding", "handling"}, NEW w \in Seq(Nat)
        PROVE  /\ [q EXCEPT ![i].loop = l] = [q EXCEPT ![i] = [q[i] EXCEPT !.loop = l]]
               /\ [q EXCEPT ![i].wire = w] = [q EXCEPT ![i] = [q[i] EXCEPT !.wire = w]]
               /\ [q EXCEPT ![i].loop = l, ![i].wire = w]
                    = [q EXCEPT ![i] = [q[i] EXCEPT !.loop = l, !.wire = w]]
               /\ [q EXCEPT ![i].open = FALSE, ![i].wire = w]
                    = [q EXCEPT ![i] = [q[i] EXCEPT !.open = FALSE, !.wire = w]]
    OBVIOUS
  <1>5. ASSUME NEW l \in {"none", "holding", "handling"}, NEW w \in Seq(Nat)
        PROVE  /\ [q EXCEPT ![i].loop = l] \in Seq(LinkTypes)
               /\ [q EXCEPT ![i].wire = w] \in Seq(LinkTypes)
               /\ [q EXCEPT ![i].loop = l, ![i].wire = w] \in Seq(LinkTypes)
               /\ [q EXCEPT ![i].open = FALSE, ![i].wire = w] \in Seq(LinkTypes)
    <2>1. [q EXCEPT ![i].loop = l] \in Seq(LinkTypes)
      BY ONLY <1>2, <1>3, <1>4, <1>5
    <2>2. [q EXCEPT ![i].wire = w] \in Seq(LinkTypes)
      BY ONLY <1>2, <1>3, <1>4, <1>5
    <2>3. [q EXCEPT ![i].loop = l, ![i].wire = w] \in Seq(LinkTypes)
      <3>1. PICK r \in LinkTypes : r = [q[i] EXCEPT !.loop = l, !.wire = w]
        BY ONLY <1>3, <1>5
      <3>2. [q EXCEPT ![i].loop = l, ![i].wire = w] = [q EXCEPT ![i] = r]
        BY ONLY <1>4, <1>5, <3>1
      <3>. QED  BY ONLY <1>2, <3>1, <3>2
    <2>4. [q EXCEPT ![i].open = FALSE, ![i].wire = w] \in Seq(LinkTypes)
      BY ONLY <1>2, <1>3, <1>4, <1>5
    <2>. QED  BY <2>1, <2>2, <2>3, <2>4
  <1>. QED  BY <1>2, <1>5

\* A loop that reads a node keeps this, whatever it tells the task.
LEMMA DownRead ==
    ASSUME DownInv, NEW i \in DOMAIN links, NEW w \in Seq(Nat), NEW news \in Seq(Int),
           WA!Read(i, w, news)
    PROVE  DownInv'
  <1>. USE DEF WA!Read, WA!shared
  <1>1. links' \in Seq(LinkTypes)
    BY LinkChanges DEF DownInv
  <1>2. events' \in Seq(Int) /\ (WA!Announced => WA!Announced')
    BY Queued DEF DownInv, WA!Announced
  <1>. QED  BY <1>1, <1>2 DEF DownInv, WA!DownIsNoticed

\* Every step of the client and of its task keeps this: the flag of the
\* client falls only with a word to the task, and the task that takes it
\* stops listening until it has tried again.
LEMMA DownNext ==
    ASSUME DownInv, posted \in Seq(WhatsApps), [WA!Next]_(WA!waVars)
    PROVE  DownInv'
  <1>. USE DEF WA!shared
  <1>0. links \in Seq(LinkTypes) /\ events \in Seq(Int)
    BY DEF DownInv
  <1>1. ASSUME links' \in Seq(LinkTypes),
               UNCHANGED <<task, running, connected, down, events, halting>>
        PROVE  DownInv'
    BY <1>0, <1>1 DEF DownInv, WA!DownIsNoticed, WA!Announced
  <1>2. CASE UNCHANGED WA!waVars
    BY <1>0, <1>1, <1>2 DEF WA!waVars
  <1>3. ASSUME WA!Linked PROVE links' \in Seq(LinkTypes) /\ events' \in Seq(Int) /\ connected'
    <2>1. WA!Link("holding") \in LinkTypes
      BY DEF WA!Link, LinkTypes
    <2>2. WA!Connected \in Int
      BY DEF WA!Connected
    <2>. QED  BY <1>0, <1>3, <2>1, <2>2 DEF WA!Linked
  <1>4. CASE WA!Begin
    <2>1. <<WA!Link("none")>> \in Seq(LinkTypes)
      BY DEF WA!Link, LinkTypes
    <2>. QED  BY <1>0, <1>3, <1>4, <2>1 DEF WA!Begin, WA!Goes, DownInv, WA!DownIsNoticed
  <1>5. CASE WA!PairingRef \/ WA!ShowQr
    BY <1>0, <1>5 DEF WA!PairingRef, WA!ShowQr, DownInv, WA!DownIsNoticed
  <1>6. CASE WA!Write
    <2>. DEFINE i == WA!Current
                w == Append(links[i].wire, Len(posted'))
    <2>1. CASE links # <<>> /\ links[i].open /\ links' = [links EXCEPT ![i].wire = w]
      <3>1. i \in DOMAIN links
        BY <1>0, <2>1 DEF WA!Current
      <3>2. links[i].wire \in Seq(Nat) /\ posted' \in Seq(WhatsApps)
        <4>1. links[i] \in LinkTypes
          BY <1>0, <3>1
        <4>. QED  BY <1>6, <4>1 DEF LinkTypes, WA!Write, WA!Post
      <3>3. w \in Seq(Nat)
        BY <3>2
      <3>. HIDE DEF i, w
      <3>4. links' \in Seq(LinkTypes)
        BY <1>0, <2>1, <3>1, <3>3, LinkChanges
      <3>. QED  BY <1>1, <1>6, <3>4 DEF WA!Write, WA!Post
    <2>2. CASE links' = links
      BY <1>0, <1>1, <1>6, <2>2 DEF WA!Write, WA!Post
    <2>. QED  BY <1>6, <2>1, <2>2 DEF WA!Write
  <1>7. CASE WA!Handle
    <2>1. events' \in Seq(Int) /\ links' \in Seq(LinkTypes)
      BY <1>0, <1>7 DEF WA!Handle
    <2>2. UNCHANGED <<running, connected, down, halting>>
      BY <1>7 DEF WA!Handle
    <2>3. ASSUME WA!Announced, Head(events) # WA!Disconnected PROVE WA!Announced'
      <3>1. PICK j \in DOMAIN events : events[j] = WA!Disconnected
        BY <2>3 DEF WA!Announced
      <3>2. PICK l \in Nat : l = Len(events)
        BY <1>0
      <3>3. j \in 1..l /\ j # 1 /\ l # 0 /\ events # <<>>
        BY <1>0, <2>3, <3>1, <3>2
      <3>4. j - 1 \in 1..(l - 1) /\ j = (j - 1) + 1
        BY <3>2, <3>3
      <3>5. Len(Tail(events)) = l - 1 /\ \A m \in 1..(l - 1) : Tail(events)[m] = events[m + 1]
        BY <1>0, <3>2, <3>3
      <3>6. DOMAIN Tail(events) = 1..(l - 1) /\ Tail(events)[j - 1] = WA!Disconnected
        BY <1>0, <3>1, <3>4, <3>5
      <3>. QED  BY <1>7, <3>4, <3>6 DEF WA!Handle, WA!Announced, WA!Disconnected
    <2>4. WA!DownIsNoticed'
      <3>. SUFFICES ASSUME task' = "listening", running, ~ connected, ~ down PROVE WA!Announced'
        BY <2>2 DEF WA!DownIsNoticed
      <3>1. Head(events) # WA!Disconnected
        <4>. SUFFICES ASSUME Head(events) = WA!Disconnected PROVE FALSE
          OBVIOUS
        <4>. QED  BY <1>7 DEF WA!Handle
      <3>2. WA!Announced
        BY <1>7, <3>1 DEF WA!Handle, DownInv, WA!DownIsNoticed
      <3>. QED  BY <2>3, <3>1, <3>2
    <2>. QED  BY <2>1, <2>2, <2>4 DEF DownInv
  <1>8. CASE WA!Reconnect
    BY <1>0, <1>3, <1>8 DEF WA!Reconnect, WA!Goes, DownInv, WA!DownIsNoticed
  <1>9. CASE WA!Reply \/ WA!Ask \/ WA!Answer \/ WA!Sent
    BY <1>0, <1>1, <1>9 DEF WA!Reply, WA!Ask, WA!Answer, WA!Sent
  <1>10. CASE WA!StopFlag \/ WA!StopEarly
    <2>1. ~ running' /\ halting' \in HaltTypes /\ UNCHANGED <<links, events>>
      <3>1. CASE WA!StopFlag
        BY <3>1 DEF WA!StopFlag, WA!Shutdown, DownInv, HaltTypes
      <3>2. CASE WA!StopEarly
        BY <3>2 DEF WA!StopEarly, DownInv, HaltTypes
      <3>. QED  BY <1>10, <3>1, <3>2
    <2>. QED  BY <1>0, <2>1 DEF DownInv, WA!DownIsNoticed
  <1>13. CASE WA!Stop \/ WA!Leave
    <2>1. PICK who \in {"shutdown", "task"} :
             /\ WA!Disconnect(who)
             /\ (who = "shutdown" /\ halting.stop = "flag") \/ (who = "task" /\ task = "leaving")
      BY <1>13 DEF WA!Stop, WA!Leave
    <2>2. PICK n \in Nat : halting' = [halting EXCEPT !.closing = who, !.notes = n]
      <3>1. 1 \in Nat /\ halting.notes + 1 \in Nat
        BY DEF DownInv, HaltTypes
      <3>. QED  BY <2>1, <3>1 DEF WA!Disconnect
    <2>3. halting' \in HaltTypes /\ halting'.stop = halting.stop /\ halting'.closing = who
      BY <2>2 DEF DownInv, HaltTypes
    <2>4. UNCHANGED <<links, events, running, task, down>>
      BY <2>1 DEF WA!Disconnect
    <2>. QED  BY <1>0, <2>1, <2>3, <2>4 DEF DownInv, WA!DownIsNoticed
  <1>14. CASE WA!Closed
    <2>1. links' \in Seq(LinkTypes)
      <3>. DEFINE i == WA!Current
                  none == <<>>
                  next == [links EXCEPT ![i].open = FALSE, ![i].wire = none]
      <3>0. links' = next
        BY <1>14 DEF WA!Closed
      <3>1. CASE links = <<>>
        <4>1. links \in [1..0 -> LinkTypes] /\ i \notin 1..0
          BY <3>1
        <4>2. next \in [1..0 -> LinkTypes]
          BY <4>1
        <4>. QED  BY <3>0, <4>2
      <3>2. CASE links # <<>>
        <4>1. i \in DOMAIN links
          BY <1>0, <3>2 DEF WA!Current
        <4>2. none \in Seq(Nat)
          OBVIOUS
        <4>. HIDE DEF i, none
        <4>. QED  BY <1>0, <3>0, <4>1, <4>2, LinkChanges
      <3>. QED  BY <3>1, <3>2
    <2>2. /\ halting' \in HaltTypes /\ halting'.closing = "nobody"
          /\ halting'.stop = halting.stop \/ halting.closing = "shutdown"
      BY <1>14 DEF WA!Closed, DownInv, HaltTypes
    <2>3. UNCHANGED <<events, running, connected, down>> /\ task' \in {task, "gone"}
      BY <1>14 DEF WA!Closed
    <2>. QED  BY <1>0, <2>1, <2>2, <2>3 DEF DownInv, WA!DownIsNoticed, WA!Announced
  <1>11. CASE WA!Restart
    <2>1. halting' \in HaltTypes /\ halting'.stop = "none" /\ halting'.closing = "nobody"
      BY <1>11 DEF WA!Restart, WA!Running, HaltTypes
    <2>. QED  BY <1>11, <2>1 DEF WA!Restart, WA!Die, DownInv, WA!DownIsNoticed
  <1>12. ASSUME NEW i \in DOMAIN links,
                \/ WA!ReadMessage(i) \/ WA!ReadControl(i) \/ WA!ReadStreamError(i)
                \/ WA!Relock(i) \/ WA!Close(i) \/ WA!EndLoop(i) \/ WA!Notified(i)
         PROVE  DownInv'
    <2>1. links[i].wire \in Seq(Nat) /\ <<>> \in Seq(Nat) /\ <<>> \in Seq(Int)
      <3>1. links[i] \in LinkTypes
        BY <1>0
      <3>. QED  BY <3>1 DEF LinkTypes
    <2>2. CASE WA!ReadMessage(i)
      <3>. DEFINE w == links[i].wire
                  news == IF WA!Accepts(posted[Head(w)]) THEN <<Head(w)>> ELSE <<>>
      <3>1. w # <<>> /\ WA!Read(i, Tail(w), news)
        BY <2>2 DEF WA!ReadMessage
      <3>2. Tail(w) \in Seq(Nat) /\ Head(w) \in Nat
        BY <2>1, <3>1
      <3>3. news \in Seq(Int)
        BY <3>2
      <3>. HIDE DEF w, news
      <3>. QED  BY <3>1, <3>2, <3>3, DownRead
    <2>3. CASE WA!ReadControl(i)
      BY <2>1, <2>3, DownRead DEF WA!ReadControl
    <2>4. CASE WA!ReadStreamError(i)
      <3>1. <<WA!Disconnected>> \in Seq(Int)
        BY DEF WA!Disconnected
      <3>. QED  BY <2>1, <2>4, <3>1, DownRead DEF WA!ReadStreamError
    <2>5. CASE WA!Relock(i)
      <3>1. links' \in Seq(LinkTypes)
        BY <1>0, <2>1, <2>5, LinkChanges DEF WA!Relock
      <3>. QED  BY <1>1, <2>5, <3>1 DEF WA!Relock
    <2>6. CASE WA!Close(i)
      <3>1. links' \in Seq(LinkTypes)
        BY <1>0, <2>1, <2>6, LinkChanges DEF WA!Close
      <3>. QED  BY <1>1, <2>6, <3>1 DEF WA!Close
    <2>7. CASE WA!EndLoop(i)
      <3>1. links' \in Seq(LinkTypes)
        BY <1>0, <2>1, <2>7, LinkChanges DEF WA!EndLoop
      <3>2. PICK l \in Nat : l = Len(events)
        BY <1>0
      <3>3. events' = Append(events, WA!Disconnected) /\ WA!Disconnected \in Int
        BY <2>7 DEF WA!EndLoop, WA!Disconnected
      <3>4. /\ events' \in Seq(Int) /\ l + 1 \in DOMAIN events'
            /\ events'[l + 1] = WA!Disconnected
        BY <1>0, <3>2, <3>3
      <3>5. WA!Announced'
        BY <3>4 DEF WA!Announced, WA!Disconnected
      <3>. QED  BY <2>7, <3>1, <3>4, <3>5 DEF WA!EndLoop, DownInv, WA!DownIsNoticed
    <2>8. CASE WA!Notified(i)
      <3>1. links' \in Seq(LinkTypes)
        BY <1>0, <2>1, <2>8, LinkChanges DEF WA!Notified
      <3>2. halting' \in HaltTypes /\ halting'.stop = halting.stop
            /\ halting'.closing = halting.closing
        BY <2>8 DEF WA!Notified, DownInv, HaltTypes
      <3>. QED  BY <1>0, <2>8, <3>1, <3>2 DEF WA!Notified, DownInv, WA!DownIsNoticed, WA!Announced
    <2>. QED  BY <1>12, <2>2, <2>3, <2>4, <2>5, <2>6, <2>7, <2>8
  <1>. QED  BY <1>2, <1>4, <1>5, <1>6, <1>7, <1>8, <1>9, <1>10, <1>11, <1>12, <1>13, <1>14
            DEF WA!Next

\* Whatever connections end in whatever order, the adapter of WhatsApp is
\* never left listening to nothing unless its one new attempt has failed.
THEOREM EndsAreNoticed == EdgesSpec => []DownIsNoticed
  <1>. DEFINE Inv == part = "whatsapp" => DownInv /\ posted \in Seq(WhatsApps)
  <1>1. EdgesInit => Inv
    <2>. SUFFICES ASSUME WA!Init PROVE Inv
      BY DEF EdgesInit
    <2>1. posted \in Seq(WhatsApps)
      BY DEF WA!Init, WA!SharedInit
    <2>. QED  BY <2>1, DownInit
  <1>2. Inv /\ [EdgesNext]_edgeVars => Inv'
    <2>. SUFFICES ASSUME DownInv, posted \in Seq(WhatsApps), part = "whatsapp",
                         [EdgesNext]_edgeVars
                  PROVE  DownInv' /\ posted' \in Seq(WhatsApps)
      BY Choice
    <2>1. [WA!Next]_(WA!waVars)
      BY ListenerSteps
    <2>2. DownInv'
      BY <2>1, DownNext
    <2>3. posted' \in Seq(WhatsApps)
      <3>1. UNCHANGED posted \/ WA!Post
        BY <2>1 DEF WA!Next, WA!waVars, WA!shared, WA!Begin, WA!PairingRef, WA!ShowQr,
                    WA!Write, WA!Handle, WA!Reconnect, WA!Reply, WA!Ask, WA!Answer, WA!Sent,
                    WA!StopFlag, WA!Shutdown, WA!Stop, WA!StopEarly, WA!Leave, WA!Disconnect,
                    WA!Closed, WA!Restart, WA!Die, WA!ReadMessage, WA!ReadControl,
                    WA!ReadStreamError, WA!Read, WA!Relock, WA!Close, WA!EndLoop, WA!Notified
      <3>. QED  BY <3>1 DEF WA!Post
    <2>. QED  BY <2>2, <2>3
  <1>3. Inv => DownIsNoticed
    BY DEF DownInv, DownIsNoticed
  <1>. QED  BY <1>1, <1>2, <1>3, PTL DEF EdgesSpec

-----------------------------------------------------------------------------
\* q lists, in order, some of the first n messages, and none of them is up to
\* one of S.
Ahead(q, S, n) == /\ Lists(q, n, {}) /\ S \subseteq 1..n
                  /\ \A p \in S : \A i \in 1..Len(q) : p < q[i]

LEMMA AheadNone == ASSUME NEW n \in Nat, NEW S \in SUBSET (1..n) PROVE Ahead(<<>>, S, n)
  BY DEF Ahead, Lists

\* The first is taken, and may join S.
LEMMA AheadTail ==
    ASSUME NEW n \in Nat, NEW S, NEW q, Ahead(q, S, n), q # <<>>
    PROVE  /\ Head(q) \in 1..n /\ \A p \in S : p < Head(q)
           /\ Ahead(Tail(q), S, n) /\ Ahead(Tail(q), S \cup {Head(q)}, n)
  <1>1. q \in Seq(1..n)
    BY DEF Ahead, Lists
  <1>2. PICK l \in Nat \ {0} : l = Len(q)
    BY <1>1
  <1>3. Head(q) = q[1] /\ q[1] \in 1..n
    BY <1>1, <1>2
  <1>4. PICK r \in Seq(1..n) : r = Tail(q) /\ Len(r) = l - 1 /\ \A i \in 1..(l - 1) : r[i] = q[i + 1]
    <2>1. Tail(q) \in Seq(1..n) /\ Len(Tail(q)) = l - 1
      BY <1>1, <1>2
    <2>2. \A i \in 1..(l - 1) : Tail(q)[i] = q[i + 1]
      BY <1>1, <1>2
    <2>. QED  BY <2>1, <2>2
  <1>5. Lists(r, n, {})
    BY <1>2, <1>4, ListsTail DEF Ahead
  <1>6. ASSUME NEW i \in 1..(l - 1) PROVE q[1] < r[i] /\ \A p \in S : p < r[i]
    <2>1. i + 1 \in 1..l /\ 1 \in 1..l /\ 1 < i + 1
      BY <1>2
    <2>. QED  BY <1>2, <1>4, <2>1 DEF Ahead, Lists
  <1>7. Ahead(r, S, n) /\ Ahead(r, S \cup {q[1]}, n)
    BY <1>3, <1>4, <1>5, <1>6 DEF Ahead
  <1>8. \A p \in S : p < q[1]
    BY <1>2 DEF Ahead
  <1>. QED  BY <1>3, <1>4, <1>7, <1>8

\* A message that is greater than all others may be added.
LEMMA AheadPost ==
    ASSUME NEW n \in Nat, NEW S, NEW q, Ahead(q, S, n)
    PROVE  Ahead(q, S, n + 1) /\ Ahead(Append(q, n + 1), S, n + 1)
  <1>1. Lists(q, n + 1, {}) /\ Lists(Append(q, n + 1), n + 1, {})
    <2>1. n + 1 \in Nat \ {0} /\ (n + 1) - 1 = n /\ Lists(q, n, {})
      BY DEF Ahead
    <2>. QED  BY <2>1, ListsAppend
  <1>2. PICK l \in Nat : l = Len(q)
    BY DEF Ahead, Lists
  <1>3. S \subseteq 1..n /\ 1..n \subseteq 1..(n + 1) /\ \A p \in 1..n : p < n + 1
    BY DEF Ahead
  <1>. DEFINE r == Append(q, n + 1)
  <1>4. Len(r) = l + 1 /\ r[l + 1] = n + 1 /\ \A i \in 1..l : r[i] = q[i]
    BY <1>2 DEF Ahead, Lists
  <1>5. 1..(l + 1) = (1..l) \cup {l + 1}
    BY <1>2
  <1>. HIDE DEF r
  <1>6. \A p \in S : \A i \in 1..(l + 1) : p < r[i]
    BY <1>2, <1>3, <1>4, <1>5 DEF Ahead
  <1>7. Ahead(r, S, n + 1)
    BY <1>1, <1>3, <1>4, <1>6 DEF Ahead, r
  <1>. QED  BY <1>1, <1>3, <1>7 DEF Ahead, r

\* What is handed over joins what was.
LEMMA HandedOver ==
    ASSUME NEW n, NEW q \in Seq(1..n), NEW p \in 1..n
    PROVE  Append(q, p) \in Seq(1..n) /\ Range(Append(q, p)) = Range(q) \cup {p}
  <1>1. PICK l \in Nat : l = Len(q)
    OBVIOUS
  <1>2. /\ Append(q, p) \in Seq(1..n) /\ DOMAIN Append(q, p) = 1..(l + 1) /\ DOMAIN q = 1..l
        /\ Append(q, p)[l + 1] = p /\ \A i \in 1..l : Append(q, p)[i] = q[i]
    BY <1>1
  <1>3. 1..(l + 1) = (1..l) \cup {l + 1}
    BY <1>1
  <1>. QED  BY <1>2, <1>3 DEF Range

\* The bound may be another one that holds.
LEMMA AheadWithin ==
    ASSUME NEW n \in Nat, NEW S, NEW q, Ahead(q, S, n), NEW m \in Nat,
           S \subseteq 1..m, \A i \in 1..Len(q) : q[i] <= m
    PROVE  Ahead(q, S, m)
  <1>1. q \in Seq(1..n)
    BY DEF Ahead, Lists
  <1>2. PICK l \in Nat : l = Len(q) /\ q \in [1..l -> 1..n]
    BY <1>1
  <1>3. \A i \in 1..l : q[i] \in 1..m
    BY <1>2
  <1>4. q \in [1..l -> 1..m]
    BY <1>2, <1>3
  <1>5. q \in Seq(1..m)
    BY <1>4
  <1>. QED  BY <1>5 DEF Ahead, Lists

(* The socket of Discord.                                                  *)

DcWanted == {p \in DC!Posts : DC!Accepts(posted[p])}

\* What is in transit was written after all that was handed over.
DcInv == /\ posted \in Seq(Discords) /\ handed \in Seq(1..Len(posted))
         /\ Ahead(wire, Range(handed), Len(posted))

LEMMA DcInit == DC!Init => DcInv /\ DC!Feed!Init
  <1>. SUFFICES ASSUME DC!Init PROVE DcInv /\ DC!Feed!Init
    OBVIOUS
  <1>1. posted = <<>> /\ handed = <<>> /\ wire = <<>> /\ settled = {} /\ ever = {}
    BY DEF DC!Init, DC!SharedInit
  <1>2. Range(handed) = {}
    BY <1>1 DEF Range
  <1>3. Ahead(<<>>, {}, 0)
    <2>1. 0 \in Nat /\ {} \in SUBSET (1..0)
      OBVIOUS
    <2>. QED  BY <2>1, AheadNone
  <1>4. DcInv
    <2>1. posted \in Seq(Discords) /\ Len(posted) = 0 /\ handed \in Seq(1..0)
      BY <1>1
    <2>. QED  BY <1>1, <1>2, <1>3, <2>1 DEF DcInv
  <1>5. DC!OneRoom = <<>>
    BY <1>1 DEF DC!OneRoom, DC!Posts
  <1>6. DC!Feed!Init
    BY <1>1, <1>5 DEF DC!Feed!Init, DC!Posts
  <1>. QED  BY <1>4, <1>6

\* A new message is beyond all others.
LEMMA DcWrite == ASSUME DcInv, DC!Write PROVE DcInv' /\ DC!Feed!Next
  <1>. DEFINE n == Len(posted)
  <1>1. PICK u \in Discords : posted' = Append(posted, u)
    BY DEF DC!Write, DC!Post
  <1>2. /\ posted' \in Seq(Discords) /\ Len(posted') = n + 1 /\ n \in Nat
        /\ \A p \in DC!Posts : posted'[p] = posted[p]
        /\ DC!Posts = 1..n /\ DC!Posts' = 1..(n + 1)
    BY <1>1 DEF DcInv, DC!Posts
  <1>3. UNCHANGED <<settled, handed, ever>> /\ wire' \in {wire, Append(wire, n + 1)}
    BY <1>2 DEF DC!Write, DC!Post
  <1>4. \A p \in DC!Posts : p \in DcWanted' <=> p \in DcWanted
    BY <1>2 DEF DcWanted, DC!Accepts
  <1>5. DcWanted' \in {DcWanted, DcWanted \cup {n + 1}}
    BY <1>2, <1>4 DEF DcWanted
  <1>6. Ahead(wire', Range(handed), n + 1)
    <2>. HIDE DEF n
    <2>. QED  BY <1>2, <1>3, AheadPost DEF DcInv, n
  <1>7. handed' \in Seq(1..(n + 1))
    BY <1>2, <1>3 DEF DcInv
  <1>8. DcInv'
    BY <1>2, <1>3, <1>6, <1>7 DEF DcInv
  <1>9. DC!Feed!Post /\ DC!Feed!Forgets
    BY <1>2, <1>3, <1>5 DEF DC!Feed!Post, DC!Feed!Forgets, DcWanted, DC!OneRoom
  <1>. QED  BY <1>8, <1>9 DEF DC!Feed!Next

\* The event that is read is the next one.
LEMMA DcRead == ASSUME DcInv, DC!Read PROVE DcInv' /\ DC!Feed!Next
  <1>. DEFINE n == Len(posted)
              p == Head(wire)
  <1>1. /\ UNCHANGED <<posted, settled>> /\ wire # <<>> /\ wire' \in {Tail(wire), <<>>}
        /\ n \in Nat /\ DC!Posts = 1..n /\ posted \in Seq(Discords) /\ handed \in Seq(1..n)
    BY DEF DC!Read, DcInv, DC!Posts
  <1>2. /\ p \in 1..n /\ (\A q \in Range(handed) : q < p)
        /\ Ahead(Tail(wire), Range(handed), n) /\ Ahead(Tail(wire), Range(handed) \cup {p}, n)
    <2>. HIDE DEF n
    <2>. QED  BY <1>1, AheadTail DEF DcInv, n
  <1>3. \/ p \in DcWanted /\ handed' = Append(handed, p) /\ ever' = ever \cup {p}
        \/ UNCHANGED <<handed, ever>>
    BY <1>1, <1>2 DEF DC!Read, DC!Take, DC!Send, DcWanted
  <1>. HIDE DEF n, p
  <1>4. handed' \in Seq(1..n) /\ Range(handed') \in {Range(handed), Range(handed) \cup {p}}
    <2>1. CASE handed' = Append(handed, p)
      BY <1>1, <1>2, <2>1, HandedOver
    <2>2. CASE handed' = handed
      BY <1>1, <2>2
    <2>. QED  BY <1>3, <2>1, <2>2
  <1>5. Ahead(wire', Range(handed'), n)
    <2>1. CASE wire' = <<>>
      <3>1. Range(handed') \in SUBSET (1..n)
        BY <1>2, <1>4 DEF Ahead
      <3>. QED  BY <1>1, <2>1, <3>1, AheadNone
    <2>2. CASE wire' = Tail(wire)
      BY <1>2, <1>4, <2>2
    <2>. QED  BY <1>1, <2>1, <2>2
  <1>6. DcInv'
    BY <1>1, <1>4, <1>5 DEF DcInv, n
  <1>7. UNCHANGED <<Len(posted), DC!OneRoom, DcWanted, settled>>
    BY <1>1 DEF DcWanted, DC!OneRoom, DC!Posts, DC!Accepts
  <1>8. \A i \in DOMAIN handed : handed[i] # p /\ handed[i] < p
    BY <1>1, <1>2 DEF Range
  <1>9. DC!Feed!Hand \/ UNCHANGED <<Len(posted), DC!OneRoom, DcWanted, handed, ever>>
    BY <1>3, <1>7, <1>8 DEF DC!Feed!Hand, DcWanted
  <1>10. DC!Feed!Forgets
    BY <1>7 DEF DC!Feed!Forgets
  <1>. QED  BY <1>6, <1>9, <1>10 DEF DC!Feed!Next, DcWanted

LEMMA DcNext == ASSUME DcInv, [DC!Next]_(DC!dcVars) PROVE DcInv' /\ DC!Feed!Next
  <1>. USE DEF DC!shared
  <1>0. Len(posted) \in Nat /\ Range(handed) \in SUBSET (1..Len(posted))
    BY DEF DcInv, Ahead
  <1>1. ASSUME UNCHANGED <<posted, handed, ever>>, wire' \in {wire, <<>>}, settled \subseteq settled'
        PROVE  DcInv' /\ DC!Feed!Next
    <2>1. Ahead(wire', Range(handed), Len(posted))
      BY <1>0, <1>1, AheadNone DEF DcInv
    <2>2. UNCHANGED <<DcWanted, DC!OneRoom>>
      BY <1>1 DEF DcWanted, DC!OneRoom, DC!Posts, DC!Accepts
    <2>. QED  BY <1>1, <2>1, <2>2 DEF DcInv, DC!Feed!Next, DC!Feed!Forgets, DcWanted
  <1>2. CASE UNCHANGED DC!dcVars
    BY <1>1, <1>2 DEF DC!dcVars
  <1>3. CASE \/ DC!Shutdown /\ UNCHANGED <<socket, wire>>
             \/ DC!Connect
             \/ DC!Identify
    BY <1>1, <1>3 DEF DC!Shutdown, DC!Connect, DC!Identify
  <1>4. CASE DC!Drop
    BY <1>1, <1>4 DEF DC!Drop
  <1>5. CASE DC!Write
    BY <1>5, DcWrite
  <1>6. CASE DC!Read
    BY <1>6, DcRead
  <1>7. CASE DC!Restart
    <2>1. /\ UNCHANGED <<posted, settled, ever>> /\ handed' = <<>> /\ wire' = <<>>
          /\ Range(handed') = {}
      BY <1>7 DEF DC!Restart, DC!Die, Range
    <2>2. DcInv'
      BY <1>0, <2>1, AheadNone DEF DcInv
    <2>3. UNCHANGED <<DcWanted, DC!OneRoom>>
      BY <2>1 DEF DcWanted, DC!OneRoom, DC!Posts, DC!Accepts
    <2>. QED  BY <2>1, <2>2, <2>3 DEF DC!Feed!Next, DC!Feed!Restart, DC!Feed!Forgets, DcWanted
  <1>. QED  BY <1>2, <1>3, <1>4, <1>5, <1>6, <1>7 DEF DC!Next

(* The child of the Signal adapter.                                        *)

SgWanted == {p \in SG!Posts : SG!Accepts(posted[p])}

\* The service gives away its messages in their order, and what is in the
\* pipe was given away after all that was handed over.
SgInv == /\ posted \in Seq(Signals) /\ handed \in Seq(1..Len(posted))
         /\ Ahead(pipe, Range(handed), Len(posted))
         /\ settled \subseteq 1..Len(posted) /\ \A p \in settled : 1..p \subseteq settled
         /\ Range(handed) \subseteq settled /\ \A i \in 1..Len(pipe) : pipe[i] \in settled

LEMMA SgInit == SG!Init => SgInv /\ SG!Feed!Init
  <1>. SUFFICES ASSUME SG!Init PROVE SgInv /\ SG!Feed!Init
    OBVIOUS
  <1>1. posted = <<>> /\ handed = <<>> /\ pipe = <<>> /\ settled = {} /\ ever = {}
    BY DEF SG!Init, SG!SharedInit
  <1>2. Range(handed) = {}
    BY <1>1 DEF Range
  <1>3. Ahead(<<>>, {}, 0)
    <2>1. 0 \in Nat /\ {} \in SUBSET (1..0)
      OBVIOUS
    <2>. QED  BY <2>1, AheadNone
  <1>4. SgInv
    <2>1. posted \in Seq(Signals) /\ Len(posted) = 0 /\ handed \in Seq(1..0) /\ 1..Len(pipe) = {}
      BY <1>1
    <2>. QED  BY <1>1, <1>2, <1>3, <2>1 DEF SgInv
  <1>5. SG!OneRoom = <<>>
    BY <1>1 DEF SG!OneRoom, SG!Posts
  <1>6. SG!Feed!Init
    BY <1>1, <1>5 DEF SG!Feed!Init, SG!Posts
  <1>. QED  BY <1>4, <1>6

\* A new message is beyond all others.
LEMMA SgPost == ASSUME SgInv, SG!Post, UNCHANGED pipe PROVE SgInv' /\ SG!Feed!Next
  <1>. DEFINE n == Len(posted)
  <1>1. PICK u \in Signals : posted' = Append(posted, u)
    BY DEF SG!Post
  <1>2. /\ posted' \in Seq(Signals) /\ Len(posted') = n + 1 /\ n \in Nat
        /\ \A p \in SG!Posts : posted'[p] = posted[p]
        /\ SG!Posts = 1..n /\ SG!Posts' = 1..(n + 1) /\ 1..n \subseteq 1..(n + 1)
    BY <1>1 DEF SgInv, SG!Posts
  <1>3. UNCHANGED <<settled, handed, ever, pipe>>
    BY DEF SG!Post
  <1>4. \A p \in SG!Posts : p \in SgWanted' <=> p \in SgWanted
    BY <1>2 DEF SgWanted, SG!Accepts
  <1>5. SgWanted' \in {SgWanted, SgWanted \cup {n + 1}}
    BY <1>2, <1>4 DEF SgWanted
  <1>6. Ahead(pipe, Range(handed), n + 1)
    <2>. HIDE DEF n
    <2>. QED  BY <1>2, AheadPost DEF SgInv, n
  <1>7. handed \in Seq(1..(n + 1)) /\ settled \subseteq 1..(n + 1)
    BY <1>2 DEF SgInv
  <1>8. SgInv'
    BY <1>2, <1>3, <1>6, <1>7 DEF SgInv
  <1>9. SG!Feed!Post /\ SG!Feed!Forgets
    BY <1>2, <1>3, <1>5 DEF SG!Feed!Post, SG!Feed!Forgets, SgWanted, SG!OneRoom
  <1>. QED  BY <1>8, <1>9 DEF SG!Feed!Next

\* The child prints the first message that was not given away, to a pipe or to
\* nobody.
LEMMA SgOffer == ASSUME SgInv, SG!Offer PROVE SgInv' /\ SG!Feed!Next
  <1>. DEFINE n == Len(posted)
  <1>1. PICK p \in SG!Posts \ settled : /\ \A q \in SG!Posts \ settled : p <= q
                                        /\ settled' = settled \cup {p}
                                        /\ pipe' \in {pipe, Append(pipe, p)}
    BY DEF SG!Offer
  <1>2. UNCHANGED <<posted, handed, ever>> /\ SG!Posts = 1..n /\ n \in Nat /\ p \in 1..n
    BY <1>1 DEF SG!Offer, SG!Posts, SgInv
  <1>. HIDE DEF n
  <1>3. \A q \in settled : q \in 1..(p - 1)
    <2>. SUFFICES ASSUME NEW q \in settled, q >= p PROVE FALSE
      BY <1>2 DEF SgInv, n
    <2>1. p \in 1..q /\ 1..q \subseteq settled
      BY <1>2 DEF SgInv, n
    <2>. QED  BY <1>1, <2>1
  <1>4. Ahead(pipe, Range(handed), p - 1)
    <2>1. p - 1 \in Nat /\ \A q \in 1..(p - 1) : q <= p - 1
      BY <1>2
    <2>2. Range(handed) \subseteq 1..(p - 1)
      BY <1>3 DEF SgInv
    <2>3. \A i \in 1..Len(pipe) : pipe[i] \in 1..(p - 1)
      BY <1>3 DEF SgInv
    <2>. QED  BY <1>2, <2>1, <2>2, <2>3, AheadWithin DEF SgInv, n
  <1>5. Ahead(Append(pipe, p), Range(handed), p)
    <2>1. p - 1 \in Nat /\ (p - 1) + 1 = p
      BY <1>2
    <2>. QED  BY <1>4, <2>1, AheadPost
  <1>6. PICK l \in Nat : l = Len(pipe)
    BY DEF SgInv, Ahead, Lists
  <1>7. /\ Len(Append(pipe, p)) = l + 1 /\ Append(pipe, p)[l + 1] = p
        /\ \A i \in 1..l : Append(pipe, p)[i] = pipe[i]
        /\ 1..(l + 1) = (1..l) \cup {l + 1}
    <2>1. pipe \in Seq(1..n) /\ p \in 1..n
      BY <1>2 DEF SgInv, Ahead, Lists, n
    <2>. QED  BY <1>6, <2>1
  <1>8. \A i \in 1..Len(pipe') : pipe'[i] \in settled'
    BY <1>1, <1>6, <1>7 DEF SgInv
  <1>9. Ahead(pipe', Range(handed), n)
    <2>1. settled' \subseteq 1..n /\ Range(handed) \subseteq 1..n
      BY <1>1, <1>2 DEF SgInv, n
    <2>2. \A i \in 1..Len(Append(pipe, p)) : Append(pipe, p)[i] \in 1..n
      BY <1>1, <1>2, <1>6, <1>7, <2>1 DEF SgInv
    <2>3. p \in Nat /\ \A q \in 1..n : q <= n
      BY <1>2
    <2>4. Ahead(Append(pipe, p), Range(handed), n)
      BY <1>2, <1>5, <2>1, <2>2, <2>3, AheadWithin
    <2>. QED  BY <1>1, <2>4 DEF SgInv, n
  <1>10. \A q \in settled' : 1..q \subseteq settled'
    <2>1. \A q \in 1..(p - 1) : q \in settled
      BY <1>1, <1>2
    <2>2. 1..p = (1..(p - 1)) \cup {p}
      BY <1>2
    <2>. QED  BY <1>1, <2>1, <2>2 DEF SgInv
  <1>11. SgInv'
    BY <1>1, <1>2, <1>8, <1>9, <1>10 DEF SgInv, n
  <1>12. UNCHANGED <<SgWanted, SG!OneRoom>>
    BY <1>2 DEF SgWanted, SG!OneRoom, SG!Posts, SG!Accepts
  <1>. QED  BY <1>1, <1>2, <1>11, <1>12 DEF SG!Feed!Next, SG!Feed!Forgets, SgWanted

\* The line that is read is the next one.
LEMMA SgRead == ASSUME SgInv, SG!ReadLine PROVE SgInv' /\ SG!Feed!Next
  <1>. DEFINE n == Len(posted)
              p == Head(pipe)
  <1>1. /\ UNCHANGED <<posted, settled>> /\ pipe # <<>> /\ pipe' = Tail(pipe)
        /\ n \in Nat /\ SG!Posts = 1..n /\ posted \in Seq(Signals) /\ handed \in Seq(1..n)
    BY DEF SG!ReadLine, SgInv, SG!Posts
  <1>2. /\ p \in 1..n /\ (\A q \in Range(handed) : q < p)
        /\ Ahead(Tail(pipe), Range(handed), n) /\ Ahead(Tail(pipe), Range(handed) \cup {p}, n)
    <2>. HIDE DEF n
    <2>. QED  BY <1>1, AheadTail DEF SgInv, n
  <1>3. PICK l \in Nat \ {0} : l = Len(pipe)
    BY <1>1 DEF SgInv, Ahead, Lists
  <1>4. /\ p = pipe[1] /\ Len(Tail(pipe)) = l - 1
        /\ \A i \in 1..(l - 1) : i + 1 \in 1..l /\ Tail(pipe)[i] = pipe[i + 1]
    BY <1>1, <1>3 DEF SgInv, Ahead, Lists
  <1>5. p \in settled /\ \A i \in 1..(l - 1) : Tail(pipe)[i] \in settled
    BY <1>3, <1>4 DEF SgInv
  <1>6. \/ p \in SgWanted /\ handed' = Append(handed, p) /\ ever' = ever \cup {p}
        \/ UNCHANGED <<handed, ever>>
    BY <1>1, <1>2 DEF SG!ReadLine, SG!Take, SG!Send, SgWanted
  <1>. HIDE DEF n, p
  <1>7. handed' \in Seq(1..n) /\ Range(handed') \in {Range(handed), Range(handed) \cup {p}}
    <2>1. CASE handed' = Append(handed, p)
      BY <1>1, <1>2, <2>1, HandedOver
    <2>2. CASE handed' = handed
      BY <1>1, <2>2
    <2>. QED  BY <1>6, <2>1, <2>2
  <1>8. Ahead(pipe', Range(handed'), n)
    BY <1>1, <1>2, <1>7
  <1>9. SgInv'
    BY <1>1, <1>4, <1>5, <1>7, <1>8 DEF SgInv, n
  <1>10. UNCHANGED <<Len(posted), SG!OneRoom, SgWanted, settled>>
    BY <1>1 DEF SgWanted, SG!OneRoom, SG!Posts, SG!Accepts
  <1>11. \A i \in DOMAIN handed : handed[i] # p /\ handed[i] < p
    BY <1>1, <1>2 DEF Range
  <1>12. SG!Feed!Hand \/ UNCHANGED <<Len(posted), SG!OneRoom, SgWanted, handed, ever>>
    BY <1>6, <1>10, <1>11 DEF SG!Feed!Hand, SgWanted
  <1>13. SG!Feed!Forgets
    BY <1>10 DEF SG!Feed!Forgets
  <1>. QED  BY <1>9, <1>12, <1>13 DEF SG!Feed!Next, SgWanted

LEMMA SgNext == ASSUME SgInv, [SG!Next]_(SG!sgVars) PROVE SgInv' /\ SG!Feed!Next
  <1>. USE DEF SG!shared
  <1>0. Len(posted) \in Nat /\ Range(handed) \in SUBSET (1..Len(posted))
    BY DEF SgInv, Ahead
  <1>1. ASSUME UNCHANGED <<posted, handed, ever, settled>>, pipe' \in {pipe, <<>>}
        PROVE  SgInv' /\ SG!Feed!Next
    <2>1. Ahead(pipe', Range(handed), Len(posted)) /\ \A i \in 1..Len(pipe') : pipe'[i] \in settled
      BY <1>0, <1>1, AheadNone DEF SgInv
    <2>2. UNCHANGED <<SgWanted, SG!OneRoom>>
      BY <1>1 DEF SgWanted, SG!OneRoom, SG!Posts, SG!Accepts
    <2>. QED  BY <1>1, <2>1, <2>2 DEF SgInv, SG!Feed!Next, SG!Feed!Forgets, SgWanted
  <1>2. CASE UNCHANGED SG!sgVars
    BY <1>1, <1>2 DEF SG!sgVars
  <1>3. CASE SG!Spawn \/ SG!Log \/ SG!Look \/ SG!Leave \/ SG!Exit \/ SG!Reap \/ SG!Close
    BY <1>1, <1>3 DEF SG!Spawn, SG!Log, SG!Look, SG!Leave, SG!Exit, SG!Reap, SG!Close,
                      SG!Shutdown
  <1>4. CASE SG!Post /\ UNCHANGED <<child, reader, stdin, pipe, stderr>>
    BY <1>4, SgPost
  <1>5. CASE SG!Offer
    BY <1>5, SgOffer
  <1>6. CASE SG!ReadLine
    BY <1>6, SgRead
  <1>7. CASE SG!Restart
    <2>1. /\ UNCHANGED <<posted, settled, ever>> /\ handed' = <<>> /\ pipe' = <<>>
          /\ Range(handed') = {}
      BY <1>7 DEF SG!Restart, SG!Die, Range
    <2>2. SgInv'
      BY <1>0, <2>1, AheadNone DEF SgInv
    <2>3. UNCHANGED <<SgWanted, SG!OneRoom>>
      BY <2>1 DEF SgWanted, SG!OneRoom, SG!Posts, SG!Accepts
    <2>. QED  BY <2>1, <2>2, <2>3 DEF SG!Feed!Next, SG!Feed!Restart, SG!Feed!Forgets, SgWanted
  <1>. QED  BY <1>2, <1>3, <1>4, <1>5, <1>6, <1>7 DEF SG!Next

(* The sync loop of Matrix.                                                *)

MxWanted == {p \in MX!Posts : MX!Accepts(posted[p])}
MxRooms  == [p \in MX!Posts |-> posted[p].room]

\* What this start has handed over, and what any start has if the history was
\* skipped, lies within the token, and the batch holds none of it; of each
\* room it comes before what the batch still holds.
MxInv == /\ posted \in Seq(Matrices) /\ handed \in Seq(1..Len(posted))
         /\ settled \subseteq 1..Len(posted) /\ ever \subseteq 1..Len(posted)
         /\ since \in 0..Len(posted) \cup {MX!NoToken}
         /\ batch \subseteq 1..since /\ Range(handed) \subseteq 1..since
         /\ \A p \in batch, q \in Range(handed) :
               p # q /\ (posted[p].room = posted[q].room => q < p)
         /\ phase = "initial" => since = MX!NoToken
         /\ phase # "initial" /\ ~missed => ever \subseteq 1..since /\ ever \cap batch = {}

LEMMA MxInit == MX!Init => MxInv /\ MX!Feed!Init
  <1>. SUFFICES ASSUME MX!Init PROVE MxInv /\ MX!Feed!Init
    OBVIOUS
  <1>1. /\ posted = <<>> /\ handed = <<>> /\ batch = {} /\ settled = {} /\ ever = {}
        /\ phase = "initial" /\ since = MX!NoToken
    BY DEF MX!Init, MX!SharedInit
  <1>2. Range(handed) = {} /\ posted \in Seq(Matrices) /\ handed \in Seq(1..Len(posted))
    BY <1>1 DEF Range
  <1>3. MxInv
    BY <1>1, <1>2 DEF MxInv
  <1>4. [p \in MX!Posts |-> posted[p].room] = <<>>
    BY <1>1 DEF MX!Posts
  <1>5. MX!Feed!Init
    BY <1>1, <1>4 DEF MX!Feed!Init, MX!Posts
  <1>. QED  BY <1>3, <1>5

\* A new message is beyond the token.
LEMMA MxPost ==
    ASSUME MxInv, MX!Post, UNCHANGED <<phase, since, batch, missed>>
    PROVE  MxInv' /\ MX!Feed!Next /\ MX!Again
  <1>. DEFINE n == Len(posted)
  <1>1. PICK u \in Matrices : posted' = Append(posted, u)
    BY DEF MX!Post
  <1>2. /\ posted' \in Seq(Matrices) /\ Len(posted') = n + 1 /\ n \in Nat
        /\ \A p \in MX!Posts : posted'[p] = posted[p]
        /\ MX!Posts = 1..n /\ MX!Posts' = 1..(n + 1) /\ 1..n \subseteq 1..(n + 1)
        /\ 0..n \subseteq 0..(n + 1)
    BY <1>1 DEF MxInv, MX!Posts
  <1>3. UNCHANGED <<settled, handed, ever, phase, since, batch, missed>>
    BY DEF MX!Post
  <1>4. \A p \in MX!Posts : p \in MxWanted' <=> p \in MxWanted
    BY <1>2 DEF MxWanted, MX!Accepts
  <1>5. MxWanted' \in {MxWanted, MxWanted \cup {n + 1}}
    BY <1>2, <1>4 DEF MxWanted
  <1>6. \A p \in 1..since : p \in MX!Posts /\ posted'[p] = posted[p]
    BY <1>2 DEF MxInv, MX!NoToken
  <1>7. handed \in Seq(1..(n + 1)) /\ settled \subseteq 1..(n + 1) /\ ever \subseteq 1..(n + 1)
    BY <1>2 DEF MxInv
  <1>8. \A p \in batch, q \in Range(handed) :
           p # q /\ (posted'[p].room = posted'[q].room => q < p)
    BY <1>6 DEF MxInv
  <1>9. MxInv'
    <2>1. Range(handed)' = Range(handed)
      BY <1>3 DEF Range
    <2>. QED  BY <1>2, <1>3, <1>7, <1>8, <2>1 DEF MxInv
  <1>10. MX!Feed!Post /\ MX!Feed!Forgets
    BY <1>2, <1>3, <1>5 DEF MX!Feed!Post, MX!Feed!Forgets, MxWanted
  <1>11. MX!Again
    BY <1>3 DEF MX!Again, MxInv
  <1>. QED  BY <1>9, <1>10, <1>11 DEF MX!Feed!Next

\* What posted decides stays with it.
LEMMA MxRests ==
    ASSUME UNCHANGED posted
    PROVE  UNCHANGED <<Len(posted), MX!Posts, MxWanted, MxRooms>>
  BY DEF MX!Posts, MxWanted, MxRooms, MX!Accepts

\* The answer of a sync lies between the tokens.
LEMMA MxSync == ASSUME MxInv, MX!Sync PROVE MxInv' /\ MX!Feed!Next /\ MX!Again
  <1>. DEFINE n == Len(posted)
  <1>1. batch' \subseteq {p \in 1..n : p > since}
    BY DEF MX!Sync, MX!Timelines, MX!Posts, MxInv
  <1>2. /\ n \in Nat /\ MX!Posts = 1..n
        /\ phase = "loop" /\ since' = n /\ settled' = 1..n
        /\ UNCHANGED <<posted, handed, ever, phase, missed>>
    BY DEF MX!Sync, MxInv, MX!Posts
  <1>3. \A p \in batch' : p \notin 1..since /\ \A q \in 1..since : p # q /\ q < p
    BY <1>1 DEF MxInv, MX!NoToken
  <1>4. Range(handed)' = Range(handed) /\ 1..since \subseteq 1..n /\ since' \in 0..n
    BY <1>2 DEF Range, MxInv, MX!NoToken
  <1>5. MxInv'
    BY <1>1, <1>2, <1>3, <1>4 DEF MxInv
  <1>6. settled \subseteq settled'
    BY <1>2 DEF MxInv
  <1>7. UNCHANGED <<Len(posted), MxWanted, MxRooms>>
    BY <1>2, MxRests
  <1>8. MX!Again
    BY <1>2 DEF MX!Again, MxInv
  <1>. QED  BY <1>2, <1>5, <1>6, <1>7, <1>8
            DEF MX!Feed!Next, MX!Feed!Forgets, MxWanted, MxRooms

\* An event of the batch that is the next of its room comes after what was
\* handed over of that room, and is new unless the history was not skipped.
LEMMA MxProcess ==
    ASSUME MxInv, NEW p \in batch, MX!Process(p)
    PROVE  MxInv' /\ MX!Feed!Next /\ MX!Again
  <1>. DEFINE n == Len(posted)
  <1>1. /\ UNCHANGED <<posted, settled, phase, since, missed>> /\ batch' = batch \ {p}
        /\ n \in Nat /\ MX!Posts = 1..n /\ posted \in Seq(Matrices) /\ handed \in Seq(1..n)
    BY DEF MX!Process, MxInv, MX!Posts
  <1>2. p \in 1..since /\ p \in 1..n /\ phase # "initial"
    BY DEF MxInv, MX!NoToken
  <1>3. \A q \in batch : posted[q].room = posted[p].room => p <= q
    BY DEF MX!Process, MX!IsNext
  <1>4. \/ p \in MxWanted /\ handed' = Append(handed, p) /\ ever' = ever \cup {p}
        \/ UNCHANGED <<handed, ever>>
    BY <1>1, <1>2 DEF MX!Process, MX!Take, MX!Send, MxWanted
  <1>. HIDE DEF n
  <1>5. handed' \in Seq(1..n) /\ Range(handed') \in {Range(handed), Range(handed) \cup {p}}
    <2>1. CASE handed' = Append(handed, p)
      BY <1>1, <1>2, <2>1, HandedOver
    <2>2. CASE handed' = handed
      BY <1>1, <2>2
    <2>. QED  BY <1>4, <2>1, <2>2
  <1>6. \A q \in batch' : q \in 1..since /\ q # p /\ (posted[q].room = posted[p].room => p < q)
    BY <1>1, <1>2, <1>3 DEF MxInv
  <1>7. \A q \in batch', o \in Range(handed') :
           q # o /\ (posted[q].room = posted[o].room => o < q)
    BY <1>1, <1>5, <1>6 DEF MxInv
  <1>8. MxInv'
    BY <1>1, <1>2, <1>4, <1>5, <1>6, <1>7 DEF MxInv, n
  <1>9. UNCHANGED <<Len(posted), MxWanted, MxRooms>>
    BY <1>1, MxRests
  <1>10. \A i \in DOMAIN handed :
            handed[i] # p /\ (MxRooms[handed[i]] = MxRooms[p] => handed[i] < p)
    <2>1. \A i \in DOMAIN handed : handed[i] \in Range(handed) /\ handed[i] \in 1..n
      BY <1>1 DEF Range
    <2>2. \A q \in 1..n : MxRooms[q] = posted[q].room
      BY <1>1 DEF MxRooms
    <2>. QED  BY <1>2, <2>1, <2>2 DEF MxInv
  <1>11. MX!Feed!Hand \/ UNCHANGED <<Len(posted), MxRooms, MxWanted, handed, ever>>
    BY <1>4, <1>9, <1>10 DEF MX!Feed!Hand, MxWanted, MxRooms
  <1>12. MX!Feed!Forgets
    BY <1>1 DEF MX!Feed!Forgets
  <1>13. MX!Again
    <2>1. CASE handed' = Append(handed, p)
      <3>1. handed'[Len(handed')] = p
        BY <1>1, <1>2, <2>1
      <3>. QED  BY <1>2, <3>1 DEF MX!Again, MxInv
    <2>2. CASE handed' = handed
      BY <1>1, <2>2 DEF MX!Again
    <2>. QED  BY <1>4, <2>1, <2>2
  <1>. QED  BY <1>8, <1>11, <1>12, <1>13 DEF MX!Feed!Next, MxWanted, MxRooms

LEMMA MxNext ==
    ASSUME MxInv, [MX!Next]_(MX!mxVars)
    PROVE  MxInv' /\ MX!Feed!Next /\ MX!Again
  <1>. USE DEF MX!shared
  <1>0. /\ Len(posted) \in Nat /\ handed \in Seq(1..Len(posted))
        /\ MX!Posts = 1..Len(posted)
    BY DEF MxInv, MX!Posts
  <1>1. CASE \/ UNCHANGED MX!mxVars
             \/ MX!Shutdown /\ UNCHANGED <<phase, since, batch, room, missed>>
    <2>1. UNCHANGED <<posted, settled, handed, ever, phase, since, batch, missed>>
      BY <1>1 DEF MX!mxVars, MX!Shutdown
    <2>2. UNCHANGED <<Len(posted), MxWanted, MxRooms>> /\ Range(handed)' = Range(handed)
      BY <2>1, MxRests DEF Range
    <2>3. MX!Again
      BY <1>0, <2>1 DEF MX!Again
    <2>. QED  BY <2>1, <2>2, <2>3 DEF MxInv, MX!Feed!Next, MX!Feed!Forgets, MxWanted, MxRooms
  <1>2. CASE MX!Post /\ UNCHANGED <<phase, since, batch, room, missed>>
    BY <1>2, MxPost
  <1>3. CASE MX!InitialSync
    <2>1. /\ UNCHANGED <<posted, handed, ever, batch>> /\ phase' = "loop"
          /\ since = MX!NoToken /\ batch = {} /\ Range(handed) = {} /\ Range(handed)' = {}
      <3>1. UNCHANGED <<posted, handed, ever, batch>> /\ phase = "initial" /\ phase' = "loop"
        BY <1>3 DEF MX!InitialSync
      <3>2. since = MX!NoToken /\ 1..since = {}
        BY <3>1 DEF MxInv, MX!NoToken
      <3>3. batch = {} /\ Range(handed) = {}
        BY <3>2 DEF MxInv
      <3>. QED  BY <3>1, <3>2, <3>3 DEF Range
    <2>2. \/ since' = Len(posted) /\ settled' = MX!Posts /\ missed' = FALSE
          \/ since' = since /\ settled' = settled /\ missed' = TRUE
      BY <1>3 DEF MX!InitialSync
    <2>3. MxInv'
      <3>1. CASE since' = Len(posted) /\ settled' = MX!Posts /\ missed' = FALSE
        <4>1. since' \in 0..Len(posted) /\ ever \subseteq 1..since'
          BY <1>0, <3>1 DEF MxInv
        <4>. QED  BY <1>0, <2>1, <3>1, <4>1 DEF MxInv
      <3>2. CASE since' = since /\ settled' = settled /\ missed' = TRUE
        BY <1>0, <2>1, <3>2 DEF MxInv
      <3>. QED  BY <2>2, <3>1, <3>2
    <2>4. settled \subseteq settled'
      BY <1>0, <2>2 DEF MxInv
    <2>5. UNCHANGED <<Len(posted), MxWanted, MxRooms>>
      BY <2>1, MxRests
    <2>6. MX!Again
      BY <1>0, <2>1 DEF MX!Again
    <2>. QED  BY <2>1, <2>3, <2>4, <2>5, <2>6
              DEF MX!Feed!Next, MX!Feed!Forgets, MxWanted, MxRooms
  <1>4. CASE MX!Sync
    BY <1>4, MxSync
  <1>5. CASE \E p \in batch : MX!Process(p)
    BY <1>5, MxProcess
  <1>6. CASE MX!Restart
    <2>1. /\ UNCHANGED <<posted, settled, ever>> /\ handed' = <<>> /\ batch' = {}
          /\ Range(handed)' = {} /\ phase' = "initial" /\ since' = MX!NoToken
      BY <1>6 DEF MX!Restart, MX!Die, Range
    <2>2. MxInv'
      BY <1>0, <2>1 DEF MxInv
    <2>3. UNCHANGED <<Len(posted), MxWanted, MxRooms>>
      BY <2>1, MxRests
    <2>4. MX!Again
      BY <1>0, <2>1 DEF MX!Again
    <2>. QED  BY <2>1, <2>2, <2>3, <2>4
              DEF MX!Feed!Next, MX!Feed!Restart, MX!Feed!Forgets, MxWanted, MxRooms
  <1>. QED  BY <1>1, <1>2, <1>3, <1>4, <1>5, <1>6 DEF MX!Next

\* Every listener keeps the promise of ChannelFeed, whatever is written on
\* its platform and whenever its connection or the process ends: the order of
\* the platform, for Matrix that of each room, whichever room a sync hands over
\* first and whatever its timelines leave out; and Matrix repeats nothing of an
\* earlier start if it could skip the history.  Slack keeps the promise of its
\* own.
THEOREM ListenersFeed == EdgesSpec => Feeds
  <1>. DEFINE Inv == /\ part = "telegram" => TgInv
                     /\ part = "discord" => DcInv
                     /\ part = "matrix" => MxInv
                     /\ part = "signal" => SgInv
              Fed == /\ part = "telegram" => TG!Feed!Next
                     /\ part = "discord" => DC!Feed!Next
                     /\ part = "matrix" => MX!Feed!Next /\ MX!Again
                     /\ part = "signal" => SG!Feed!Next
              Fresh == /\ part = "telegram" => TG!Feed!Init
                       /\ part = "discord" => DC!Feed!Init
                       /\ part = "matrix" => MX!Feed!Init
                       /\ part = "signal" => SG!Feed!Init
  <1>1. EdgesInit => Inv /\ Fresh
    <2>. SUFFICES ASSUME TG!Init, DC!Init, MX!Init, SG!Init PROVE Inv /\ Fresh
      BY DEF EdgesInit
    <2>. QED  BY TgInit, DcInit, MxInit, SgInit
  <1>2. Inv /\ [EdgesNext]_edgeVars => Inv' /\ Fed
    <2>. SUFFICES ASSUME Inv, [EdgesNext]_edgeVars PROVE Inv' /\ Fed
      OBVIOUS
    <2>1. part = "telegram" => TgInv' /\ TG!Feed!Next
      <3>. SUFFICES ASSUME part = "telegram" PROVE TgInv' /\ TG!Feed!Next
        OBVIOUS
      <3>1. TgInv' /\ [TG!Feed!Next]_(TG!Feed!vars)
        BY ListenerSteps, NextStep
      <3>2. CASE UNCHANGED TG!Feed!vars
        BY <3>1, <3>2 DEF TG!Feed!vars, TG!Feed!Next, TG!Feed!Forgets, TgInv, PassedHanded, TgWanted
      <3>. QED  BY <3>1, <3>2
    <2>2. part = "discord" => DcInv' /\ DC!Feed!Next
      BY ListenerSteps, DcNext
    <2>3. part = "matrix" => MxInv' /\ MX!Feed!Next /\ MX!Again
      BY ListenerSteps, MxNext
    <2>4. part = "signal" => SgInv' /\ SG!Feed!Next
      BY ListenerSteps, SgNext
    <2>5. UNCHANGED part
      BY Choice
    <2>. QED  BY <2>1, <2>2, <2>3, <2>4, <2>5
  <1>. HIDE DEF Inv
  <1>3. EdgesSpec => Fresh /\ [][Fed]_edgeVars
    BY <1>1, <1>2, PTL DEF EdgesSpec
  <1>4. EdgesSpec => []SlackAccounts
    BY SlackIsAccounted
  <1>. QED  BY <1>3, <1>4 DEF Feeds

-----------------------------------------------------------------------------
(* The types of what the listeners of the platforms keep.                  *)

\* What they share, for messages of U.
Stream(U) == /\ posted \in Seq(U)
             /\ settled \subseteq 1..Len(posted) /\ ever \subseteq 1..Len(posted)
             /\ handed \in Seq(1..Len(posted))
             /\ running \in BOOLEAN /\ stops \in 0..MaxStops

LEMMA StreamInit == ASSUME TG!ChannelsAssumption, NEW U, TG!SharedInit PROVE Stream(U)
  BY DEF TG!SharedInit, TG!ChannelsAssumption, Stream

\* A message more takes nothing away.
LEMMA StreamPost ==
    ASSUME NEW U, Stream(U), NEW u \in U, posted' = Append(posted, u),
           UNCHANGED <<settled, handed, ever, running, stops>>
    PROVE  /\ Stream(U)' /\ Len(posted) \in Nat /\ Len(posted') = Len(posted) + 1
           /\ 1..Len(posted) \subseteq 1..Len(posted')
  <1>1. PICK n \in Nat : n = Len(posted)
    BY DEF Stream
  <1>2. posted' \in Seq(U) /\ Len(posted') = n + 1 /\ 1..n \subseteq 1..(n + 1)
    BY <1>1 DEF Stream
  <1>3. handed \in Seq(1..(n + 1))
    BY <1>1, <1>2 DEF Stream
  <1>. QED  BY <1>1, <1>2, <1>3 DEF Stream

\* A message may be handed over, and messages may be settled.
LEMMA StreamMoves ==
    ASSUME NEW U, Stream(U), NEW p \in 1..Len(posted),
           \/ handed' = Append(handed, p) /\ ever' = ever \cup {p}
           \/ UNCHANGED <<handed, ever>>,
           settled' \subseteq 1..Len(posted), running' \in BOOLEAN, UNCHANGED <<posted, stops>>
    PROVE  Stream(U)'
  <1>1. PICK S : S = 1..Len(posted)
    OBVIOUS
  <1>2. handed \in Seq(S) /\ ever \subseteq S /\ p \in S
    BY <1>1 DEF Stream
  <1>3. Append(handed, p) \in Seq(S) /\ ever \cup {p} \subseteq S
    BY <1>2
  <1>4. handed' \in Seq(S) /\ ever' \subseteq S
    BY <1>2, <1>3
  <1>. QED  BY <1>1, <1>4 DEF Stream

LEMMA StreamRests ==
    ASSUME NEW U, Stream(U), settled' \subseteq 1..Len(posted), running' \in BOOLEAN,
           UNCHANGED <<posted, handed, ever, stops>>
    PROVE  Stream(U)'
  BY DEF Stream

LEMMA StreamDies ==
    ASSUME TG!ChannelsAssumption, NEW U, Stream(U), stops < MaxStops, stops' = stops + 1,
           running' = TRUE, handed' = <<>>, UNCHANGED <<posted, settled, ever>>
    PROVE  Stream(U)'
  BY DEF Stream, TG!ChannelsAssumption

LEMMA TgTypesInit == ASSUME TG!ChannelsAssumption, TG!Init PROVE TG!TypeOK
  BY DEF TG!Init, TG!ChannelsAssumption, TG!SharedInit, TG!SharedTypeOK, TG!Posts, TG!TypeOK

LEMMA TgTypesNext ==
    ASSUME TG!ChannelsAssumption, TG!TypeOK, [TG!Next]_(TG!tgVars) PROVE TG!TypeOK'
  <1>0. /\ Stream(Telegrams) /\ lastUpdateId \in 0..Len(posted) /\ offered \subseteq 1..Len(posted)
        /\ TG!Posts = 1..Len(posted)
    BY DEF TG!TypeOK, TG!SharedTypeOK, TG!Posts, Stream
  <1>. SUFFICES /\ Stream(Telegrams)' /\ lastUpdateId' \in 0..Len(posted')
                /\ offered' \subseteq 1..Len(posted')
    BY DEF TG!TypeOK, TG!SharedTypeOK, TG!Posts, Stream
  <1>1. CASE TG!Post /\ UNCHANGED <<lastUpdateId, offered>>
    <2>1. Stream(Telegrams)' /\ Len(posted) \in Nat /\ Len(posted') = Len(posted) + 1
      BY <1>0, <1>1, StreamPost DEF TG!Post
    <2>. QED  BY <1>0, <1>1, <2>1
  <1>2. CASE TG!Poll
    <2>1. settled' \subseteq 1..Len(posted) /\ offered' \subseteq 1..Len(posted)
      BY <1>0, <1>2 DEF TG!Poll, TG!Offered, Stream
    <2>2. UNCHANGED <<posted, handed, ever, running, stops, lastUpdateId>>
      BY <1>2 DEF TG!Poll
    <2>3. Stream(Telegrams)'
      BY <1>0, <2>1, <2>2, StreamRests DEF Stream
    <2>. QED  BY <1>0, <2>1, <2>2, <2>3
  <1>3. ASSUME NEW p \in offered, TG!Process(p)
        PROVE  /\ Stream(Telegrams)' /\ lastUpdateId' \in 0..Len(posted')
               /\ offered' \subseteq 1..Len(posted')
    <2>1. /\ lastUpdateId' = p /\ offered' \subseteq offered /\ p \in 1..Len(posted)
          /\ UNCHANGED <<posted, settled, running, stops>>
          /\ \/ handed' = Append(handed, p) /\ ever' = ever \cup {p}
             \/ UNCHANGED <<handed, ever>>
      BY <1>0, <1>3 DEF TG!Process, TG!Take, TG!Send
    <2>2. Stream(Telegrams)'
      BY <1>0, <2>1, StreamMoves DEF Stream
    <2>. QED  BY <1>0, <2>1, <2>2
  <1>4. CASE TG!Restart
    <2>1. Stream(Telegrams)'
      BY <1>0, <1>4, StreamDies DEF TG!Restart, TG!Die
    <2>. QED  BY <1>0, <1>4, <2>1 DEF TG!Restart, TG!Die
  <1>5. CASE (TG!Shutdown /\ UNCHANGED <<lastUpdateId, offered>>) \/ UNCHANGED TG!tgVars
    BY <1>0, <1>5 DEF TG!Shutdown, TG!tgVars, TG!shared, Stream
  <1>. QED  BY <1>1, <1>2, <1>3, <1>4, <1>5 DEF TG!Next

LEMMA DcTypesInit == ASSUME TG!ChannelsAssumption, DC!Init PROVE DC!TypeOK
  BY DEF DC!Init, TG!ChannelsAssumption, DC!SharedInit, DC!SharedTypeOK, DC!Posts, DC!TypeOK

LEMMA DcTypesNext ==
    ASSUME TG!ChannelsAssumption, DC!TypeOK, [DC!Next]_(DC!dcVars) PROVE DC!TypeOK'
  <1>0. /\ Stream(Discords) /\ socket \in {"down", "open", "ready"}
        /\ wire \in Seq(1..Len(posted)) /\ DC!Posts = 1..Len(posted)
    BY DEF DC!TypeOK, DC!SharedTypeOK, DC!Posts, Stream
  <1>. SUFFICES /\ Stream(Discords)' /\ socket' \in {"down", "open", "ready"}
                /\ wire' \in Seq(1..Len(posted'))
    BY DEF DC!TypeOK, DC!SharedTypeOK, DC!Posts, Stream
  <1>1. CASE DC!Write
    <2>1. /\ Stream(Discords)' /\ Len(posted) \in Nat /\ Len(posted') = Len(posted) + 1
          /\ 1..Len(posted) \subseteq 1..Len(posted')
      BY <1>0, <1>1, StreamPost DEF DC!Write, DC!Post
    <2>2. wire \in Seq(1..Len(posted')) /\ Len(posted') \in 1..Len(posted')
      BY <1>0, <2>1
    <2>3. wire' \in {wire, Append(wire, Len(posted'))} /\ socket' = socket
      BY <1>1 DEF DC!Write
    <2>4. Append(wire, Len(posted')) \in Seq(1..Len(posted'))
      BY <2>2
    <2>. QED  BY <1>0, <2>1, <2>2, <2>3, <2>4
  <1>2. CASE DC!Read
    <2>. DEFINE p == Head(wire)
    <2>1. p \in 1..Len(posted) /\ Tail(wire) \in Seq(1..Len(posted))
      BY <1>0, <1>2 DEF DC!Read
    <2>2. /\ wire' \in {Tail(wire), <<>>} /\ socket' \in {socket, "down"}
          /\ UNCHANGED <<posted, settled, running, stops>>
          /\ \/ handed' = Append(handed, p) /\ ever' = ever \cup {p}
             \/ UNCHANGED <<handed, ever>>
      BY <1>2 DEF DC!Read, DC!Take, DC!Send
    <2>. HIDE DEF p
    <2>3. Stream(Discords)'
      BY <1>0, <2>1, <2>2, StreamMoves DEF Stream
    <2>4. wire' \in Seq(1..Len(posted)) /\ posted' = posted
      <3>1. <<>> \in Seq(1..Len(posted))
        OBVIOUS
      <3>. QED  BY <2>1, <2>2, <3>1
    <2>. QED  BY <1>0, <2>2, <2>3, <2>4
  <1>3. CASE DC!Drop
    <2>0. {wire[i] : i \in DOMAIN wire} \subseteq 1..Len(posted)
      BY <1>0
    <2>1. /\ socket' = "down" /\ wire' = <<>> /\ settled' \subseteq 1..Len(posted)
          /\ UNCHANGED <<posted, handed, ever, running, stops>>
      BY <1>0, <1>3, <2>0 DEF DC!Drop, Stream
    <2>2. Stream(Discords)'
      BY <1>0, <2>1, StreamRests DEF Stream
    <2>. QED  BY <1>0, <2>1, <2>2
  <1>4. CASE DC!Restart
    <2>1. Stream(Discords)'
      BY <1>0, <1>4, StreamDies DEF DC!Restart, DC!Die
    <2>. QED  BY <1>0, <1>4, <2>1 DEF DC!Restart
  <1>5. CASE (DC!Shutdown /\ UNCHANGED <<socket, wire>>) \/ DC!Connect \/ DC!Identify
               \/ UNCHANGED DC!dcVars
    <2>1. /\ socket' \in {"down", "open", "ready"} /\ running' \in BOOLEAN
          /\ UNCHANGED <<wire, posted, settled, handed, ever, stops>>
      BY <1>0, <1>5 DEF DC!Shutdown, DC!Connect, DC!Identify, DC!dcVars, DC!shared, Stream
    <2>. QED  BY <1>0, <2>1, StreamRests DEF Stream
  <1>. QED  BY <1>1, <1>2, <1>3, <1>4, <1>5 DEF DC!Next

\* The events in transit, whatever happens to them.
LEMMA TransitTypes ==
    ASSUME NEW n \in Nat, NEW q \in Seq(1..n)
    PROVE  /\ q # <<>> => Head(q) \in 1..n /\ Tail(q) \in Seq(1..n)
           /\ {q[i] : i \in DOMAIN q} \subseteq 1..n /\ <<>> \in Seq(1..n)
           /\ q \in Seq(1..(n + 1)) /\ Append(q, n + 1) \in Seq(1..(n + 1))
           /\ \A p \in 1..n : Append(q, p) \in Seq(1..n)
  <1>1. q \in Seq(1..(n + 1)) /\ n + 1 \in 1..(n + 1)
    OBVIOUS
  <1>2. Append(q, n + 1) \in Seq(1..(n + 1))
    BY <1>1
  <1>. QED  BY <1>1, <1>2

LEMMA SlTypesInit == ASSUME TG!ChannelsAssumption, SL!Init PROVE SL!TypeOK
  BY DEF SL!Init, TG!ChannelsAssumption, SL!SharedInit, SL!SharedTypeOK, SL!Posts, SL!TypeOK

LEMMA SlTypesNext ==
    ASSUME TG!ChannelsAssumption, SL!TypeOK, [SL!Next]_(SL!slVars) PROVE SL!TypeOK'
  <1>. DEFINE Own == /\ listener \in {"new", "failed", "on"} /\ socket \in {"down", "ready", "mute"}
                     /\ wire \in Seq(1..Len(posted)) /\ reading \in 1..Len(posted) \cup {0}
                     /\ unacked \subseteq 1..Len(posted) /\ cut \subseteq 1..Len(posted)
  <1>0. Stream(Slacks) /\ Own /\ SL!Posts = 1..Len(posted) /\ Len(posted) \in Nat
    BY DEF SL!TypeOK, SL!SharedTypeOK, SL!Posts, Stream
  <1>. SUFFICES Stream(Slacks)' /\ Own'
    BY DEF SL!TypeOK, SL!SharedTypeOK, SL!Posts, Stream
  <1>1. CASE SL!Write
    <2>1. /\ Stream(Slacks)' /\ Len(posted') = Len(posted) + 1
          /\ 1..Len(posted) \subseteq 1..Len(posted')
      BY <1>0, <1>1, StreamPost DEF SL!Write, SL!Post
    <2>2. /\ wire' \in {wire, Append(wire, Len(posted'))}
          /\ UNCHANGED <<listener, socket, reading, unacked, cut>>
      BY <1>1 DEF SL!Write
    <2>3. wire' \in Seq(1..Len(posted'))
      BY <1>0, <2>1, <2>2, TransitTypes
    <2>. QED  BY <1>0, <2>1, <2>2, <2>3
  <1>2. CASE SL!Ack
    <2>1. Head(wire) \in 1..Len(posted) /\ Tail(wire) \in Seq(1..Len(posted))
      BY <1>0, <1>2, TransitTypes DEF SL!Ack
    <2>2. /\ reading' = Head(wire) /\ wire' = Tail(wire)
          /\ settled' \subseteq settled \cup {Head(wire)}
          /\ unacked' \subseteq unacked \cup {Head(wire)}
          /\ UNCHANGED <<posted, handed, ever, running, stops, listener, socket, cut>>
      BY <1>2 DEF SL!Ack
    <2>3. Stream(Slacks)'
      BY <1>0, <2>1, <2>2, StreamRests DEF Stream
    <2>. QED  BY <1>0, <2>1, <2>2, <2>3
  <1>3. CASE SL!Deliver
    <2>1. /\ reading \in 1..Len(posted) /\ reading' = 0
          /\ \/ handed' = Append(handed, reading) /\ ever' = ever \cup {reading}
             \/ UNCHANGED <<handed, ever>>
          /\ UNCHANGED <<posted, settled, running, stops, listener, socket, wire, unacked, cut>>
      BY <1>0, <1>3 DEF SL!Deliver, SL!Take, SL!Send
    <2>2. Stream(Slacks)'
      BY <1>0, <2>1, StreamMoves DEF Stream
    <2>. QED  BY <1>0, <2>1, <2>2
  <1>4. CASE SL!Restart
    <2>1. Stream(Slacks)'
      BY <1>0, <1>4, StreamDies DEF SL!Restart, SL!Die
    <2>2. /\ listener' = "new" /\ socket' = "down" /\ wire' = <<>> /\ reading' = 0
          /\ cut' = cut \cup ({reading} \ {0}) /\ UNCHANGED <<unacked, posted>>
      BY <1>4 DEF SL!Restart, SL!Die
    <2>. QED  BY <1>0, <2>1, <2>2, TransitTypes
  <1>5. CASE SL!Connect
    <2>1. /\ socket' = "ready" /\ wire' = SL!Envelopes
          /\ UNCHANGED <<posted, settled, handed, ever, running, stops,
                         listener, reading, unacked, cut>>
      BY <1>5 DEF SL!Connect, SL!shared
    <2>2. SL!Envelopes \in Seq(1..Len(posted))
      BY <1>0, EnvelopesAre DEF Stream, Lists
    <2>. QED  BY <1>0, <2>1, <2>2, StreamRests DEF Stream
  <1>6. CASE SL!Start \/ SL!Drop \/ SL!Mute \/ UNCHANGED SL!slVars
               \/ (SL!Shutdown /\ UNCHANGED <<listener, SL!conn, unacked, cut>>)
    <2>1. /\ listener' \in {"new", "failed", "on"} /\ socket' \in {"down", "ready", "mute"}
          /\ wire' \in {wire, <<>>} /\ running' \in BOOLEAN
          /\ UNCHANGED <<posted, settled, handed, ever, stops, reading, unacked, cut>>
      BY <1>0, <1>6 DEF SL!Start, SL!Drop, SL!Mute, SL!Shutdown, SL!slVars, SL!shared, SL!conn,
                        Stream
    <2>2. wire' \in Seq(1..Len(posted))
      BY <1>0, <2>1, TransitTypes
    <2>. QED  BY <1>0, <2>1, <2>2, StreamRests DEF Stream
  <1>. QED  BY <1>1, <1>2, <1>3, <1>4, <1>5, <1>6 DEF SL!Next

LEMMA SgTypesInit ==
    ASSUME TG!ChannelsAssumption, SG!SignalAssumption, SG!Init PROVE SG!TypeOK
  <1>1. SG!SharedTypeOK
    BY DEF SG!Init, TG!ChannelsAssumption, SG!SharedInit, SG!SharedTypeOK, SG!Posts
  <1>2. pipe = <<>> /\ pipe \in Seq(SG!Posts)
    BY DEF SG!Init
  <1>3. 0 \in 0..StderrRoom
    BY DEF SG!SignalAssumption
  <1>. QED  BY <1>1, <1>2, <1>3 DEF SG!Init, SG!TypeOK

LEMMA SgTypesNext ==
    ASSUME TG!ChannelsAssumption, SG!SignalAssumption, SG!TypeOK, [SG!Next]_(SG!sgVars)
    PROVE  SG!TypeOK'
  <1>. DEFINE Own == /\ child \in {"none", "up", "exited"} /\ stdin \in BOOLEAN
                     /\ reader \in {"flag", "line", "gone"}
                     /\ pipe \in Seq(1..Len(posted)) /\ stderr \in 0..StderrRoom
  <1>0. Stream(Signals) /\ Own /\ SG!Posts = 1..Len(posted) /\ Len(posted) \in Nat
        /\ StderrRoom \in Nat
    BY DEF SG!TypeOK, SG!SharedTypeOK, SG!Posts, Stream, SG!SignalAssumption
  <1>. SUFFICES Stream(Signals)' /\ Own'
    BY DEF SG!TypeOK, SG!SharedTypeOK, SG!Posts, Stream
  <1>1. CASE SG!Post /\ UNCHANGED <<child, reader, stdin, pipe, stderr>>
    <2>1. Stream(Signals)' /\ Len(posted') = Len(posted) + 1
      BY <1>0, <1>1, StreamPost DEF SG!Post
    <2>2. pipe \in Seq(1..Len(posted'))
      BY <1>0, <2>1, TransitTypes
    <2>. QED  BY <1>0, <1>1, <2>1, <2>2
  <1>2. CASE SG!Offer
    <2>1. PICK p \in 1..Len(posted) : /\ settled' = settled \cup {p}
                                       /\ pipe' \in {pipe, Append(pipe, p)}
      BY <1>0, <1>2 DEF SG!Offer
    <2>2. UNCHANGED <<posted, handed, ever, running, stops, child, reader, stdin, stderr>>
      BY <1>2 DEF SG!Offer
    <2>3. Stream(Signals)'
      BY <1>0, <2>1, <2>2, StreamRests DEF Stream
    <2>4. pipe' \in Seq(1..Len(posted))
      BY <1>0, <2>1, TransitTypes
    <2>. QED  BY <1>0, <2>2, <2>3, <2>4
  <1>3. CASE SG!ReadLine
    <2>. DEFINE p == Head(pipe)
    <2>1. p \in 1..Len(posted) /\ Tail(pipe) \in Seq(1..Len(posted))
      BY <1>0, <1>3, TransitTypes DEF SG!ReadLine
    <2>2. /\ pipe' = Tail(pipe)
          /\ reader' \in {"flag", "line", "gone"}
          /\ UNCHANGED <<posted, settled, running, stops, child, stdin, stderr>>
          /\ \/ handed' = Append(handed, p) /\ ever' = ever \cup {p}
             \/ UNCHANGED <<handed, ever>>
      BY <1>3 DEF SG!ReadLine, SG!Take, SG!Send
    <2>. HIDE DEF p
    <2>3. Stream(Signals)'
      BY <1>0, <2>1, <2>2, StreamMoves DEF Stream
    <2>. QED  BY <1>0, <2>1, <2>2, <2>3
  <1>4. CASE SG!Restart
    <2>1. Stream(Signals)'
      BY <1>0, <1>4, StreamDies DEF SG!Restart, SG!Die
    <2>2. child' = "none" /\ reader' = "gone" /\ stdin' = FALSE /\ pipe' = <<>> /\ stderr' = 0 /\ posted' = posted
      BY <1>4 DEF SG!Restart, SG!Die
    <2>3. pipe' \in Seq(1..Len(posted)) /\ stderr' \in 0..StderrRoom
      BY <1>0, <2>2
    <2>. QED  BY <2>1, <2>2, <2>3
  <1>5. CASE \/ SG!Spawn \/ SG!Log \/ SG!Look \/ SG!Leave \/ SG!Exit \/ SG!Reap \/ SG!Close
             \/ UNCHANGED SG!sgVars
    <2>. USE DEF SG!Spawn, SG!Log, SG!Look, SG!Leave, SG!Exit, SG!Reap, SG!Close, SG!Shutdown,
                 SG!sgVars, SG!shared
    <2>1. /\ child' \in {"none", "up", "exited"} /\ stdin' \in BOOLEAN /\ running' \in BOOLEAN
          /\ reader' \in {"flag", "line", "gone"}
      BY <1>0, <1>5 DEF Stream
    <2>2. stderr' \in 0..StderrRoom
      BY <1>0, <1>5 DEF SG!Blocked
    <2>3. pipe' \in {pipe, <<>>} /\ UNCHANGED <<posted, settled, handed, ever, stops>>
      BY <1>5
    <2>4. pipe' \in Seq(1..Len(posted))
      BY <1>0, <2>3, TransitTypes
    <2>. QED  BY ONLY <1>0, <2>1, <2>2, <2>3, <2>4, StreamRests DEF Stream
  <1>. QED  BY <1>1, <1>2, <1>3, <1>4, <1>5 DEF SG!Next

LEMMA MxTypesInit == ASSUME TG!ChannelsAssumption, MX!Init PROVE MX!TypeOK
  <1>1. MX!SharedTypeOK
    BY DEF MX!Init, TG!ChannelsAssumption, MX!SharedInit, MX!SharedTypeOK, MX!Posts
  <1>2. batch = {} /\ posted = <<>> /\ since = -1 /\ room = MX!NoRoom
    BY DEF MX!Init, MX!SharedInit, MX!NoToken
  <1>3. since \in -1..Len(posted)
    BY <1>2
  <1>. QED  BY <1>1, <1>2, <1>3 DEF MX!Init, MX!TypeOK

LEMMA MxTypesNext ==
    ASSUME TG!ChannelsAssumption, MX!TypeOK, [MX!Next]_(MX!mxVars)
    PROVE  MX!TypeOK'
  <1>. DEFINE Rooms == {MX!NoRoom} \cup {u.room : u \in Matrices}
              Own == /\ phase \in {"initial", "loop"} /\ since \in -1..Len(posted)
                     /\ batch \subseteq 1..Len(posted) /\ missed \in BOOLEAN /\ room \in Rooms
  <1>0. Stream(Matrices) /\ Own /\ MX!Posts = 1..Len(posted) /\ Len(posted) \in Nat
    BY DEF MX!TypeOK, MX!SharedTypeOK, MX!Posts, Stream
  <1>. SUFFICES Stream(Matrices)' /\ Own'
    BY DEF MX!TypeOK, MX!SharedTypeOK, MX!Posts, Stream
  <1>1. CASE MX!Post /\ UNCHANGED <<phase, since, batch, room, missed>>
    <2>1. Stream(Matrices)' /\ Len(posted') = Len(posted) + 1
      BY <1>0, <1>1, StreamPost DEF MX!Post
    <2>. QED  BY <1>0, <1>1, <2>1
  <1>2. CASE MX!InitialSync
    <2>1. /\ phase' = "loop" /\ since' \in {since, Len(posted)} /\ missed' \in BOOLEAN
          /\ settled' \in {settled, 1..Len(posted)}
          /\ UNCHANGED <<posted, handed, ever, running, stops, batch, room>>
      BY <1>0, <1>2 DEF MX!InitialSync
    <2>. QED  BY <1>0, <2>1, StreamRests DEF Stream
  <1>3. CASE MX!Sync
    <2>1. /\ since' = Len(posted) /\ settled' = 1..Len(posted)
          /\ batch' = MX!Timelines /\ room' = MX!NoRoom
          /\ UNCHANGED <<posted, handed, ever, running, stops, phase, missed>>
      BY <1>0, <1>3 DEF MX!Sync
    <2>2. batch' \subseteq 1..Len(posted)
      BY <1>0, <2>1 DEF MX!Timelines
    <2>. QED  BY <1>0, <2>1, <2>2, StreamRests DEF Stream
  <1>4. CASE \E p \in batch : MX!Process(p)
    <2>1. PICK p \in batch : MX!Process(p)
      BY <1>4
    <2>2. /\ batch' = batch \ {p} /\ room' = posted[p].room
          /\ UNCHANGED <<posted, settled, running, stops, phase, since, missed>>
          /\ \/ handed' = Append(handed, p) /\ ever' = ever \cup {p}
             \/ UNCHANGED <<handed, ever>>
      BY <2>1 DEF MX!Process, MX!Take, MX!Send
    <2>3. p \in 1..Len(posted) /\ posted[p] \in Matrices
      BY <1>0, <2>1 DEF Stream
    <2>4. Stream(Matrices)'
      BY <1>0, <2>2, <2>3, StreamMoves DEF Stream
    <2>5. room' \in Rooms
      BY <2>2, <2>3
    <2>. QED  BY <1>0, <2>2, <2>4, <2>5
  <1>5. CASE MX!Restart
    <2>1. Stream(Matrices)'
      BY <1>0, <1>5, StreamDies DEF MX!Restart, MX!Die
    <2>2. /\ phase' = "initial" /\ since' = -1 /\ batch' = {} /\ missed' = FALSE
          /\ room' = MX!NoRoom /\ posted' = posted
      BY <1>5 DEF MX!Restart, MX!Die, MX!NoToken
    <2>3. since' \in -1..Len(posted)
      BY <1>0, <2>2
    <2>. QED  BY <2>1, <2>2, <2>3
  <1>6. CASE \/ MX!Shutdown /\ UNCHANGED <<phase, since, batch, room, missed>>
             \/ UNCHANGED MX!mxVars
    <2>1. /\ running' \in BOOLEAN
          /\ UNCHANGED <<posted, settled, handed, ever, stops, phase, since, batch, room, missed>>
      BY <1>0, <1>6 DEF MX!Shutdown, MX!mxVars, MX!shared, Stream
    <2>. QED  BY <1>0, <2>1, StreamRests DEF Stream
  <1>. QED  BY <1>1, <1>2, <1>3, <1>4, <1>5, <1>6 DEF MX!Next

\* The client of WhatsApp: what is in transit to it was written, and a reply
\* is on a connection that there is.
Carry(q, n) == \A i \in DOMAIN q : q[i].wire \in Seq(1..n)
WaOwn == /\ task \in {"new", "pairing", "listening", "pause", "leaving", "gone"}
         /\ qr \in {"none", "ref"}
         /\ paired \in BOOLEAN /\ handle \in BOOLEAN /\ connected \in BOOLEAN /\ down \in BOOLEAN
         /\ answer \in [pc : {"idle", "asking", "answer", "session", "sending"}, link : Nat]
         /\ answer.link <= Len(links) /\ (task = "new" => links = <<>>)
WaInv == DownInv /\ Stream(WhatsApps) /\ WaOwn /\ Carry(links, Len(posted))

LEMMA WaTypes == WaInv => WA!TypeOK
  <1>. SUFFICES ASSUME WaInv PROVE WA!TypeOK
    OBVIOUS
  <1>1. WA!SharedTypeOK /\ WA!Posts = 1..Len(posted)
    BY DEF WaInv, Stream, WA!SharedTypeOK, WA!Posts
  <1>2. ASSUME NEW i \in DOMAIN links
        PROVE  /\ links[i].open \in BOOLEAN /\ links[i].loop \in {"none", "holding", "handling"}
               /\ links[i].wire \in Seq(1..Len(posted))
    <2>1. links[i] \in LinkTypes
      BY DEF WaInv, DownInv
    <2>. QED  BY <2>1 DEF LinkTypes, WaInv, Carry
  <1>3. answer.link \in 0..Len(links)
    <2>1. Len(links) \in Nat /\ answer.link \in Nat /\ answer.link <= Len(links)
      BY DEF WaInv, WaOwn, DownInv
    <2>. QED  BY <2>1
  <1>4. halting \in HaltTypes
    BY DEF WaInv, DownInv
  <1>. QED  BY <1>1, <1>2, <1>3, <1>4 DEF WaInv, WaOwn, HaltTypes, WA!TypeOK

LEMMA WaInit == ASSUME TG!ChannelsAssumption, WA!Init PROVE WaInv
  <1>1. Stream(WhatsApps)
    BY DEF WA!Init, WA!SharedInit, TG!ChannelsAssumption, Stream
  <1>2. links = <<>> /\ answer = [pc |-> "idle", link |-> 0] /\ Len(links) = 0
    BY DEF WA!Init, WA!Idle
  <1>3. answer \in [pc : {"idle", "asking", "answer", "session", "sending"}, link : Nat]
        /\ answer.link <= Len(links)
    BY <1>2
  <1>4. WaOwn
    BY <1>2, <1>3 DEF WaOwn, WA!Init
  <1>5. Carry(links, Len(posted))
    BY <1>2 DEF Carry
  <1>. QED  BY <1>1, <1>4, <1>5, DownInit DEF WaInv

\* A connection changes, or there is one more; none of this takes one away.
LEMMA CarryChanges ==
    ASSUME NEW n \in Nat, NEW q \in Seq(LinkTypes), Carry(q, n)
    PROVE  /\ \A i \in DOMAIN q : \A l : \A w \in Seq(1..n) :
                 /\ Carry([q EXCEPT ![i].loop = l], n)
                 /\ Carry([q EXCEPT ![i].loop = l, ![i].wire = w], n)
                 /\ Carry([q EXCEPT ![i].open = FALSE, ![i].wire = w], n)
           /\ \A l : Carry(Append(q, [open |-> TRUE, loop |-> l, wire |-> <<>>]), n)
           /\ Carry(q, n + 1)
           /\ \A i \in DOMAIN q : \A w \in Seq(1..(n + 1)) : Carry([q EXCEPT ![i].wire = w], n + 1)
  <1>1. \A i \in DOMAIN q : q[i] \in LinkTypes /\ q[i].wire \in Seq(1..n)
    BY DEF Carry
  <1>2. ASSUME NEW i \in DOMAIN q, NEW l, NEW w \in Seq(1..n)
        PROVE  /\ Carry([q EXCEPT ![i].loop = l], n)
               /\ Carry([q EXCEPT ![i].loop = l, ![i].wire = w], n)
               /\ Carry([q EXCEPT ![i].open = FALSE, ![i].wire = w], n)
    <2>1. Carry([q EXCEPT ![i].loop = l], n)
      BY <1>1 DEF Carry, LinkTypes
    <2>2. Carry([q EXCEPT ![i].loop = l, ![i].wire = w], n)
      BY <1>1 DEF Carry, LinkTypes
    <2>3. Carry([q EXCEPT ![i].open = FALSE, ![i].wire = w], n)
      BY <1>1 DEF Carry, LinkTypes
    <2>. QED  BY <2>1, <2>2, <2>3
  <1>3. Seq(1..n) \subseteq Seq(1..(n + 1))
    <2>1. 1..n \subseteq 1..(n + 1)
      OBVIOUS
    <2>. QED  BY <2>1
  <1>4. Carry(q, n + 1)
    BY <1>1, <1>3 DEF Carry
  <1>5. ASSUME NEW i \in DOMAIN q, NEW w \in Seq(1..(n + 1))
        PROVE  Carry([q EXCEPT ![i].wire = w], n + 1)
    BY <1>1, <1>3, <1>5 DEF Carry, LinkTypes
  <1>6. ASSUME NEW l PROVE Carry(Append(q, [open |-> TRUE, loop |-> l, wire |-> <<>>]), n)
    <2>1. PICK r : r = [open |-> TRUE, loop |-> l, wire |-> <<>>]
      OBVIOUS
    <2>2. r.wire \in Seq(1..n)
      BY <2>1
    <2>3. PICK m \in Nat : m = Len(q)
      OBVIOUS
    <2>4. /\ DOMAIN Append(q, r) = 1..(m + 1) /\ Append(q, r)[m + 1] = r
          /\ \A i \in 1..m : Append(q, r)[i] = q[i]
      BY <2>3
    <2>5. DOMAIN q = 1..m
      BY <2>3
    <2>6. Carry(Append(q, r), n)
      <3>. SUFFICES ASSUME NEW i \in 1..(m + 1) PROVE Append(q, r)[i].wire \in Seq(1..n)
        BY <2>4 DEF Carry
      <3>1. CASE i = m + 1
        BY <2>2, <2>4, <3>1
      <3>2. CASE i # m + 1
        <4>1. i \in 1..m
          BY <2>3, <3>2
        <4>2. Append(q, r)[i] = q[i]
          BY <2>4, <4>1
        <4>. QED  BY <1>1, <2>5, <4>1, <4>2
      <3>. QED  BY <3>1, <3>2
    <2>. QED  BY <2>1, <2>6
  <1>. QED  BY <1>2, <1>4, <1>5, <1>6

\* How long the connections are after a step that changes one.
LEMMA SameLength ==
    ASSUME NEW q \in Seq(LinkTypes), NEW r \in Seq(LinkTypes), DOMAIN r = DOMAIN q
    PROVE  Len(r) = Len(q)
  OBVIOUS

LEMMA WaNext ==
    ASSUME TG!ChannelsAssumption, WaInv, [WA!Next]_(WA!waVars) PROVE WaInv'
  <1>. USE DEF WA!shared
  <1>0. /\ Stream(WhatsApps) /\ WaOwn /\ links \in Seq(LinkTypes) /\ Len(links) \in Nat
        /\ Len(posted) \in Nat /\ Carry(links, Len(posted)) /\ WA!Posts = 1..Len(posted)
        /\ DOMAIN links = 1..Len(links)
    BY DEF WaInv, DownInv, Stream, WA!Posts
  <1>1. DownInv' /\ links' \in Seq(LinkTypes) /\ Len(links') \in Nat
    <2>1. DownInv'
      BY DownNext DEF WaInv, Stream
    <2>. QED  BY <2>1 DEF DownInv
  <1>. SUFFICES Stream(WhatsApps)' /\ WaOwn' /\ Carry(links', Len(posted'))
    BY <1>1 DEF WaInv
  <1>2. ASSUME WA!Linked
        PROVE  /\ Carry(links', Len(posted)) /\ Len(links') = Len(links) + 1 /\ connected'
    <2>1. links' = Append(links, [open |-> TRUE, loop |-> "holding", wire |-> <<>>]) /\ connected'
      BY <1>2 DEF WA!Linked, WA!Link
    <2>2. Carry(links', Len(posted))
      BY <1>0, <2>1, CarryChanges
    <2>. QED  BY <1>0, <2>1, <2>2
  <1>3. CASE WA!Begin
    <2>1. /\ UNCHANGED <<posted, settled, handed, ever, running, stops, paired, qr, down, answer>>
          /\ task = "new" /\ links = <<>> /\ Len(links) = 0
      BY <1>0, <1>3 DEF WA!Begin, WaOwn
    <2>2. Stream(WhatsApps)'
      BY <1>0, <2>1 DEF Stream
    <2>3. /\ task' \in {"gone", "listening", "leaving", "pairing"}
          /\ handle' \in BOOLEAN /\ connected' \in BOOLEAN
          /\ Carry(links', Len(posted)) /\ Len(links') >= 0
      <3>1. CASE task' = "gone" /\ UNCHANGED <<links, connected, events, handle>>
        BY <1>0, <2>1, <3>1 DEF WaOwn
      <3>2. CASE paired /\ WA!Linked /\ WA!Goes /\ handle' = TRUE
        BY <1>1, <1>2, <3>2 DEF WA!Linked, WA!Goes
      <3>3. CASE links' = <<WA!Link("none")>> /\ task' = "pairing" /\ UNCHANGED <<connected, events, handle>>
        <4>1. links' = Append(links, [open |-> TRUE, loop |-> "none", wire |-> <<>>])
          BY <2>1, <3>3 DEF WA!Link
        <4>2. Carry(links', Len(posted))
          BY <1>0, <4>1, CarryChanges
        <4>. QED  BY <1>0, <1>1, <3>3, <4>2 DEF WaOwn
      <3>. QED  BY <1>3, <3>1, <3>2, <3>3 DEF WA!Begin
    <2>4. answer.link <= Len(links')
      BY <1>0, <1>1, <2>1 DEF WaOwn
    <2>. QED  BY <1>0, <2>1, <2>2, <2>3, <2>4 DEF WaOwn
  <1>4. CASE WA!PairingRef \/ WA!ShowQr \/ UNCHANGED WA!waVars
    <2>1. /\ UNCHANGED <<posted, settled, handed, ever, running, stops,
                         paired, handle, connected, down, links, answer>>
          /\ task' \in {task, "gone"} /\ qr' \in {qr, "ref"}
      BY <1>4 DEF WA!PairingRef, WA!ShowQr, WA!waVars
    <2>2. Stream(WhatsApps)' /\ Carry(links', Len(posted'))
      BY <1>0, <2>1 DEF Stream
    <2>. QED  BY <1>0, <2>1, <2>2 DEF WaOwn
  <1>5. CASE WA!Write
    <2>1. Stream(WhatsApps)' /\ Len(posted') = Len(posted) + 1
      BY <1>0, <1>5, StreamPost DEF WA!Write, WA!Post
    <2>2. Carry(links', Len(posted')) /\ DOMAIN links' = DOMAIN links /\ (links = <<>> => links' = links)
      <3>. DEFINE i == WA!Current
                  w == Append(links[i].wire, Len(posted'))
      <3>1. CASE links # <<>> /\ links[i].open /\ links' = [links EXCEPT ![i].wire = w]
        <4>1. i \in DOMAIN links
          BY <1>0, <3>1 DEF WA!Current
        <4>2. links[i].wire \in Seq(1..Len(posted))
          BY <1>0, <4>1 DEF Carry
        <4>3. w \in Seq(1..(Len(posted) + 1))
          BY <1>0, <2>1, <4>2, TransitTypes
        <4>. HIDE DEF i, w
        <4>4. Carry(links', Len(posted) + 1)
          BY <1>0, <3>1, <4>1, <4>3, CarryChanges
        <4>. QED  BY <2>1, <3>1, <4>4
      <3>2. CASE links' = links
        BY <1>0, <2>1, <3>2, CarryChanges
      <3>. QED  BY <1>5, <3>1, <3>2 DEF WA!Write
    <2>3. Len(links') = Len(links)
      BY <1>0, <1>1, <2>2, SameLength
    <2>4. UNCHANGED <<paired, task, qr, handle, connected, down, answer>>
      BY <1>5 DEF WA!Write
    <2>. QED  BY <1>0, <2>1, <2>2, <2>3, <2>4 DEF WaOwn
  <1>6. CASE WA!Handle
    <2>1. /\ UNCHANGED <<posted, settled, running, stops, paired, qr, handle, connected, down,
                         links, answer>>
          /\ task = "listening" /\ task' \in {"pause", "listening", "leaving"}
          /\ \/ UNCHANGED <<handed, ever>>
             \/ \E p \in 1..Len(posted) : handed' = Append(handed, p) /\ ever' = ever \cup {p}
      BY <1>0, <1>6 DEF WA!Handle, WA!Goes, WA!Send
    <2>2. Stream(WhatsApps)'
      BY <1>0, <2>1, StreamMoves, StreamRests DEF Stream
    <2>. QED  BY <1>0, <2>1, <2>2 DEF WaOwn
  <1>7. CASE WA!Reconnect
    <2>1. /\ UNCHANGED <<posted, settled, handed, ever, running, stops, paired, qr, handle, answer>>
          /\ task' \in {"listening", "leaving"} /\ down' \in BOOLEAN
      BY <1>7 DEF WA!Reconnect, WA!Goes
    <2>2. /\ connected' \in BOOLEAN /\ Carry(links', Len(posted)) /\ Len(links') >= Len(links)
      <3>1. CASE WA!Linked
        BY <1>0, <1>2, <3>1 DEF WA!Linked
      <3>2. CASE UNCHANGED <<links, connected>>
        BY <1>0, <3>2 DEF WaOwn
      <3>. QED  BY <1>7, <3>1, <3>2 DEF WA!Reconnect
    <2>3. answer.link <= Len(links')
      BY <1>0, <1>1, <2>2 DEF WaOwn
    <2>4. Stream(WhatsApps)'
      BY <1>0, <2>1 DEF Stream
    <2>. QED  BY <1>0, <2>1, <2>2, <2>3, <2>4 DEF WaOwn
  <1>8. CASE WA!Reply \/ WA!Ask \/ WA!Answer \/ WA!Sent
    <2>1. /\ UNCHANGED <<posted, settled, handed, ever, running, stops,
                         paired, task, qr, handle, connected, down, links>>
      BY <1>8 DEF WA!Reply, WA!Ask, WA!Answer, WA!Sent
    <2>2. /\ answer' \in [pc : {"idle", "asking", "answer", "session", "sending"}, link : Nat]
          /\ answer'.link <= Len(links)
      <3>1. CASE WA!Reply
        BY <1>0, <3>1 DEF WA!Reply, WA!Current
      <3>2. CASE WA!Ask \/ WA!Answer
        <4>1. PICK p \in {"answer", "session", "sending"} : answer' = [answer EXCEPT !.pc = p]
          BY <3>2 DEF WA!Ask, WA!Answer
        <4>. QED  BY <1>0, <4>1 DEF WaOwn
      <3>3. CASE WA!Sent
        BY <1>0, <3>3 DEF WA!Sent, WA!Idle
      <3>. QED  BY <1>8, <3>1, <3>2, <3>3
    <2>3. Stream(WhatsApps)' /\ Carry(links', Len(posted'))
      BY <1>0, <2>1 DEF Stream
    <2>. QED  BY <1>0, <2>1, <2>2, <2>3 DEF WaOwn
  <1>9. CASE WA!StopFlag \/ WA!StopEarly \/ WA!Stop \/ WA!Leave
    <2>1. /\ UNCHANGED <<posted, settled, handed, ever, stops, paired, task, qr, handle, down,
                         links, answer>>
          /\ connected' \in {connected, FALSE} /\ running' \in {running, FALSE}
      BY <1>9 DEF WA!StopFlag, WA!Shutdown, WA!StopEarly, WA!Stop, WA!Leave, WA!Disconnect
    <2>2. Stream(WhatsApps)' /\ Carry(links', Len(posted'))
      BY <1>0, <2>1, StreamRests DEF Stream
    <2>. QED  BY <1>0, <2>1, <2>2 DEF WaOwn
  <1>12. CASE WA!Closed
    <2>1. /\ UNCHANGED <<posted, settled, handed, ever, running, stops, paired, qr, connected,
                         down, answer>>
          /\ task' \in {task, "gone"} /\ handle' \in {handle, FALSE}
      BY <1>12 DEF WA!Closed
    <2>2. Stream(WhatsApps)'
      BY <1>0, <2>1 DEF Stream
    <2>3. links' = [links EXCEPT ![WA!Current].open = FALSE, ![WA!Current].wire = <<>>]
      BY <1>12 DEF WA!Closed
    <2>4. DOMAIN links' = DOMAIN links
      BY <2>3
    <2>5. Carry(links', Len(posted))
      <3>1. CASE links = <<>>
        BY <2>4, <3>1 DEF Carry
      <3>2. CASE links # <<>>
        <4>1. WA!Current \in DOMAIN links
          BY <1>0, <3>2 DEF WA!Current
        <4>2. <<>> \in Seq(1..Len(posted))
          OBVIOUS
        <4>. QED  BY <1>0, <2>3, <4>1, <4>2, CarryChanges
      <3>. QED  BY <3>1, <3>2
    <2>6. Len(links') = Len(links) /\ (links = <<>> => links' = <<>>)
      BY <1>0, <1>1, <2>4, SameLength
    <2>. QED  BY <1>0, <2>1, <2>2, <2>5, <2>6 DEF WaOwn
  <1>10. CASE WA!Restart
    <2>1. /\ task' = "new" /\ qr' = "none" /\ handle' = FALSE /\ connected' = FALSE
          /\ down' = FALSE /\ links' = <<>> /\ answer' = [pc |-> "idle", link |-> 0]
          /\ paired' = paired /\ posted' = posted
      BY <1>10 DEF WA!Restart, WA!Die, WA!Idle
    <2>2. Stream(WhatsApps)'
      BY <1>0, <1>10, StreamDies DEF WA!Restart, WA!Die
    <2>3. Len(links') = 0 /\ Carry(links', Len(posted'))
      BY <2>1 DEF Carry
    <2>4. WaOwn'
      <3>1. answer' \in [pc : {"idle", "asking", "answer", "session", "sending"}, link : Nat]
            /\ answer'.link <= Len(links')
        BY <2>1, <2>3
      <3>. QED  BY <1>0, <2>1, <3>1 DEF WaOwn
    <2>. QED  BY <2>2, <2>3, <2>4
  <1>11. ASSUME NEW i \in DOMAIN links,
                \/ WA!ReadMessage(i) \/ WA!ReadControl(i) \/ WA!ReadStreamError(i)
                \/ WA!Relock(i) \/ WA!Close(i) \/ WA!EndLoop(i) \/ WA!Notified(i)
         PROVE  Stream(WhatsApps)' /\ WaOwn' /\ Carry(links', Len(posted'))
    <2>1. /\ UNCHANGED <<posted, settled, handed, ever, running, stops,
                         paired, task, qr, handle, down, answer>>
          /\ connected' \in {connected, FALSE}
      BY <1>11 DEF WA!ReadMessage, WA!ReadControl, WA!ReadStreamError, WA!Read, WA!Relock,
                   WA!Close, WA!EndLoop, WA!Notified
    <2>2. /\ links[i].wire \in Seq(1..Len(posted)) /\ <<>> \in Seq(1..Len(posted))
          /\ (links[i].wire # <<>> => Tail(links[i].wire) \in Seq(1..Len(posted)))
      BY <1>0, TransitTypes DEF Carry
    <2>3. \/ \E w \in Seq(1..Len(posted)) : links' = [links EXCEPT ![i].loop = "handling", ![i].wire = w]
          \/ links' = [links EXCEPT ![i].loop = "holding"]
          \/ links' = [links EXCEPT ![i].open = FALSE, ![i].wire = <<>>]
          \/ links' = [links EXCEPT ![i].loop = "none"]
      BY <1>11, <2>2 DEF WA!ReadMessage, WA!ReadControl, WA!ReadStreamError, WA!Read, WA!Relock,
                         WA!Close, WA!EndLoop, WA!Notified
    <2>4. Carry(links', Len(posted))
      <3>1. ASSUME NEW w \in Seq(1..Len(posted)),
                   links' = [links EXCEPT ![i].loop = "handling", ![i].wire = w]
            PROVE  Carry(links', Len(posted))
        BY <1>0, <3>1, CarryChanges
      <3>2. CASE links' = [links EXCEPT ![i].loop = "holding"]
        BY <1>0, <2>2, <3>2, CarryChanges
      <3>3. CASE links' = [links EXCEPT ![i].open = FALSE, ![i].wire = <<>>]
        BY <1>0, <2>2, <3>3, CarryChanges
      <3>4. CASE links' = [links EXCEPT ![i].loop = "none"]
        BY <1>0, <2>2, <3>4, CarryChanges
      <3>. QED  BY <2>3, <3>1, <3>2, <3>3, <3>4
    <2>5. DOMAIN links' = DOMAIN links
      BY <2>3
    <2>6. Len(links') = Len(links) /\ task # "new"
      BY <1>0, <1>1, <2>5, SameLength DEF WaOwn
    <2>7. Stream(WhatsApps)'
      BY <1>0, <2>1 DEF Stream
    <2>. QED  BY <1>0, <2>1, <2>4, <2>6, <2>7 DEF WaOwn
  <1>. QED  BY <1>3, <1>4, <1>5, <1>6, <1>7, <1>8, <1>9, <1>10, <1>11, <1>12 DEF WA!Next

\* What the replies keep, but for the index and the mail: no kind is
\* registered more often than the configuration lists it.
RpOwn == /\ Len(enrolled) + Len(todo) <= Len(RP!Order)
         /\ adapterIndex = [k \in DOMAIN adapterIndex |-> adapterIndex[k]]
         /\ taken \in 0..MaxInbound /\ up \in BOOLEAN
         /\ replied \subseteq Chats \X (Chats \cup {RP!NoChat}) /\ unrouted \subseteq Chats

LEMMA DeliveredType == ASSUME NEW k, NEW c PROVE RP!Delivered(k, c) \in Chats \cup {RP!NoChat}
  <1>. DEFINE known == {d \in Chats : /\ d.kind = k /\ d.id = c
                                      /\ (k = "signal" \/ (k = "whatsapp" /\ RP!Native)
                                             => d.form = "direct")
                                      /\ k = "teams" => d.region = "amer"}
  <1>1. RP!Delivered(k, c) = IF known = {} THEN RP!NoChat ELSE CHOOSE d \in known : TRUE
    BY DEF RP!Delivered
  <1>2. known \subseteq Chats
    OBVIOUS
  <1>. HIDE DEF known
  <1>3. known # {} => (CHOOSE d \in known : TRUE) \in known
    OBVIOUS
  <1>. QED  BY <1>1, <1>2, <1>3

LEMMA RpOwnInit == ASSUME RP!RepliesAssumption, RP!Init PROVE RpOwn
  BY DEF RP!RepliesAssumption, RP!Init, RpOwn, RP!Order

LEMMA RpOwnNext ==
    ASSUME RP!RepliesAssumption, RepliesInv, RpOwn, [RP!Next]_(RP!vars)
    PROVE  RpOwn'
  <1>1. /\ todo \in Seq(RP!Kinds) /\ enrolled \in Seq(RP!Kinds)
        /\ \A i \in DOMAIN arrived : arrived[i].from \in Chats
    BY DEF RepliesInv, IndexInv, MailInv, Carried
  <1>2. CASE UNCHANGED <<todo, enrolled, adapterIndex, replied, unrouted>> /\ taken' \in 0..MaxInbound /\ up' \in BOOLEAN
    BY <1>2 DEF RpOwn, RP!NoChat
  <1>3. CASE RP!Register
    <2>1. /\ todo # <<>> /\ todo' = Tail(todo) /\ UNCHANGED <<taken, up, replied, unrouted>>
          /\ enrolled' = enrolled \/ \E k \in RP!Kinds : enrolled' = Append(enrolled, k)
      BY <1>1, <1>3 DEF RP!Register, RP!Enrol
    <2>2. Len(todo') = Len(todo) - 1 /\ Len(enrolled') <= Len(enrolled) + 1
      BY <1>1, <2>1
    <2>3. Len(todo) \in Nat /\ Len(enrolled) \in Nat /\ Len(enrolled') \in Nat /\ Len(RP!Order) \in Nat
      BY <1>1, <2>1 DEF RP!Order
    <2>4. Len(enrolled') + Len(todo') <= Len(RP!Order)
      BY <2>2, <2>3 DEF RpOwn
    <2>5. adapterIndex' = [k \in DOMAIN adapterIndex' |-> adapterIndex'[k]]
      BY <1>3 DEF RP!Register, RP!Enrol, RpOwn
    <2>. QED  BY <2>1, <2>4, <2>5 DEF RpOwn
  <1>4. CASE \E home \in Chats : RP!Inbound(home)
    BY <1>2, <1>4 DEF RP!Inbound, RpOwn, RP!RepliesAssumption
  <1>5. CASE RP!ShutdownAll
    BY <1>2, <1>5 DEF RP!ShutdownAll, RpOwn
  <1>6. CASE UNCHANGED RP!vars
    BY <1>2, <1>6 DEF RP!vars, RpOwn
  <1>7. CASE RP!Route
    <2>1. PICK m : m = Head(arrived)
      OBVIOUS
    <2>2. /\ UNCHANGED <<todo, enrolled, adapterIndex, taken, up>> /\ arrived # <<>>
          /\ unrouted' \subseteq unrouted \cup {m.from}
          /\ \/ replied' = replied
             \/ replied' = replied \cup
                   {<<m.from, RP!Delivered(enrolled[adapterIndex[m.kind] + 1], m.channel)>>}
      BY <1>7, <2>1 DEF RP!Route
    <2>3. m.from \in Chats
      <3>1. arrived \in Seq([kind : RP!Kinds, channel : Nat, from : Chats])
        BY DEF RepliesInv, MailInv
      <3>2. 1 \in DOMAIN arrived /\ m = arrived[1]
        BY <2>1, <2>2, <3>1
      <3>. QED  BY <1>1, <3>2
    <2>4. replied' \subseteq Chats \X (Chats \cup {RP!NoChat})
      <3>1. PICK d \in Chats \cup {RP!NoChat} :
               d = RP!Delivered(enrolled[adapterIndex[m.kind] + 1], m.channel)
        BY DeliveredType
      <3>. QED  BY <2>2, <2>3, <3>1 DEF RpOwn
    <2>. QED  BY <2>2, <2>3, <2>4 DEF RpOwn
  <1>. QED  BY <1>3, <1>4, <1>5, <1>6, <1>7 DEF RP!Next

LEMMA RpTypes == ASSUME RepliesInv, RpOwn PROVE RP!TypeOK
  <1>1. /\ todo \in Seq(RP!Kinds) /\ enrolled \in Seq(RP!Kinds)
        /\ \A k \in DOMAIN adapterIndex : adapterIndex[k] \in 0..(Len(enrolled) - 1)
        /\ channelsOn \in Configured
        /\ arrived \in Seq([kind : RP!Kinds, channel : Nat, from : Chats])
    BY DEF RepliesInv, IndexInv, MailInv
  <1>2. Len(todo) \in Nat /\ Len(enrolled) \in Nat /\ Len(RP!Order) \in Nat
    BY <1>1 DEF RP!Order
  <1>3. \A k \in DOMAIN adapterIndex : adapterIndex[k] \in 0..Len(RP!Order)
    BY <1>1, <1>2 DEF RpOwn
  <1>4. adapterIndex \in [DOMAIN adapterIndex -> 0..Len(RP!Order)]
    BY <1>3 DEF RpOwn
  <1>. QED  BY <1>1, <1>4 DEF RpOwn, RP!TypeOK

-----------------------------------------------------------------------------
(* A Signal session.                                                       *)

Place    == SS!Place
Sessions == SS!Session \cup {None}

\* A message is in the loop's hands only while the server still holds it, and
\* who has opened the file holds what to write.
SessionTypes ==
    /\ sending \in Sessions /\ file \in Sessions \cup {Torn} /\ receiving \in Sessions \cup {Torn}
    /\ inbox \in Seq(Place) /\ peer \in Place /\ sent \in Seq(Place)
    /\ failedSaves \in 0..MaxFailed /\ lost \in BOOLEAN /\ saving \subseteq {"reply", "loop"}
    /\ receiving # None => inbox # <<>>
    /\ "reply" \in saving => sending # None
    /\ "loop" \in saving => receiving # None /\ SS!Reads

LEMMA PlaceMoves ==
    ASSUME NEW p \in Place
    PROVE  /\ SS!Advance(p) = [boot |-> p.boot, chain |-> p.chain, n |-> p.n + 1]
           /\ SS!Advance(p) \in Place
  BY DEF Place, SS!Place, SS!Advance

LEMMA PlaceStarts ==
    ASSUME NEW b \in Nat, NEW c \in 0..MaxChains
    PROVE  SS!Start(b, c) = [boot |-> b, chain |-> c, n |-> 0] /\ SS!Start(b, c) \in Place
  BY DEF Place, SS!Place, SS!Start

\* A session on which a message was enciphered, or deciphered, is a session.
LEMMA SessionMoves ==
    ASSUME MaxChains \in Nat, NEW s \in SS!Session, NEW m \in Place
    PROVE  /\ s.send \in Place /\ s.recv \in Place /\ s.remote \in 0..MaxChains
           /\ [s EXCEPT !.send = SS!Advance(@)] =
                 [remote |-> s.remote, send |-> SS!Advance(s.send), recv |-> s.recv]
           /\ [s EXCEPT !.send = SS!Advance(@)] \in SS!Session
           /\ SS!Ratcheted(s, m) \in SS!Session
           /\ SS!Decrypted(s, m) =
                 [remote |-> SS!Ratcheted(s, m).remote, send |-> SS!Ratcheted(s, m).send,
                  recv |-> SS!Advance(SS!Ratcheted(s, m).recv)]
           /\ SS!Decrypted(s, m) \in SS!Session
  <1>1. \A p \in Place : SS!Advance(p) \in Place
    BY PlaceMoves
  <1>3. \A z \in SS!Session :
           /\ [z EXCEPT !.send = SS!Advance(@)] =
                 [remote |-> z.remote, send |-> SS!Advance(z.send), recv |-> z.recv]
           /\ [z EXCEPT !.recv = SS!Advance(@)] =
                 [remote |-> z.remote, send |-> z.send, recv |-> SS!Advance(z.recv)]
           /\ z.send \in Place /\ z.recv \in Place /\ z.remote \in 0..MaxChains
    BY DEF SS!Session, Place
  <1>2. s.send \in Place /\ s.recv \in Place /\ s.remote \in 0..MaxChains
    BY <1>3
  <1>4. \A r \in 0..MaxChains : \A p, q \in Place : [remote |-> r, send |-> p, recv |-> q] \in SS!Session
    BY DEF SS!Session, Place
  <1>5. /\ m.chain \in 0..MaxChains
        /\ SS!Start(s.send.boot, m.chain) \in Place /\ SS!Start(s.recv.boot, m.chain) \in Place
    <2>1. s.send.boot \in Nat /\ s.recv.boot \in Nat /\ m.chain \in 0..MaxChains
      BY <1>2 DEF Place, SS!Place
    <2>. QED  BY <2>1, PlaceStarts
  <1>6. SS!Ratcheted(s, m) \in SS!Session
    BY <1>4, <1>5 DEF SS!Ratcheted
  <1>7. [s EXCEPT !.send = SS!Advance(@)] \in SS!Session
    <2>1. SS!Advance(s.send) \in Place
      BY <1>1, <1>2
    <2>2. [remote |-> s.remote, send |-> SS!Advance(s.send), recv |-> s.recv] \in SS!Session
      BY <1>2, <1>4, <2>1
    <2>. QED  BY <1>3, <2>2
  <1>8. /\ SS!Decrypted(s, m) =
              [remote |-> SS!Ratcheted(s, m).remote, send |-> SS!Ratcheted(s, m).send,
               recv |-> SS!Advance(SS!Ratcheted(s, m).recv)]
        /\ SS!Decrypted(s, m) \in SS!Session
    <2>1. PICK z \in SS!Session : z = SS!Ratcheted(s, m)
      BY <1>6
    <2>2. SS!Advance(z.recv) \in Place
      BY <1>1, <1>3
    <2>3. [remote |-> z.remote, send |-> z.send, recv |-> SS!Advance(z.recv)] \in SS!Session
      BY <1>3, <1>4, <2>2
    <2>4. SS!Decrypted(s, m) = [z EXCEPT !.recv = SS!Advance(@)]
      BY <2>1 DEF SS!Decrypted
    <2>. QED  BY <1>3, <2>1, <2>3, <2>4
  <1>. QED  BY <1>2, <1>3, <1>6, <1>7, <1>8

LEMMA BootstrappedType ==
    ASSUME MaxChains \in Nat, sent \in Seq(Place)
    PROVE  /\ SS!Bootstrapped \in SS!Session
           /\ sent = <<>> => SS!Bootstrapped =
                 [remote |-> 0, send |-> SS!Start(1, 0), recv |-> SS!Start(1, 0)]
  <1>1. SS!Start(Len(sent) + 1, 0) \in Place
    BY PlaceStarts
  <1>2. sent = <<>> => Len(sent) + 1 = 1
    OBVIOUS
  <1>. QED  BY <1>1, <1>2 DEF SS!Bootstrapped, SS!Session, Place

LEMMA SessionTypesInit == ASSUME SS!SignalSessionAssumption, SS!Init PROVE SessionTypes
  <1>1. SS!Start(1, 1) \in Place
    BY PlaceStarts DEF SS!SignalSessionAssumption
  <1>2. 0 \in 0..MaxFailed
    BY DEF SS!SignalSessionAssumption
  <1>3. /\ file = None /\ sending = None /\ receiving = None /\ saving = {}
        /\ inbox = <<>> /\ sent = <<>> /\ peer = SS!Start(1, 1) /\ failedSaves = 0 /\ lost = FALSE
    BY DEF SS!Init
  <1>4. <<>> \in Seq(Place)
    OBVIOUS
  <1>. QED  BY ONLY <1>1, <1>2, <1>3, <1>4 DEF SessionTypes, Sessions

\* What the contact writes.
LEMMA PeerPlaces ==
    ASSUME MaxChains \in Nat \ {0}, SessionTypes, SS!PeerWrites
    PROVE  \E p \in Place :
              /\ \/ p = peer \/ (peer.chain < MaxChains /\ p = SS!Start(peer.boot, peer.chain + 1))
                 \/ \E i \in DOMAIN sent : sent[i].boot > peer.boot /\ p = SS!Start(sent[i].boot, 1)
              /\ inbox' = Append(inbox, p) /\ peer' = SS!Advance(p) /\ sent # <<>>
              /\ UNCHANGED <<file, sending, receiving, saving, sent, lost, failedSaves>>
  <1>1. PICK p : /\ \/ p = peer
                    \/ peer.chain < MaxChains /\ p = SS!Start(peer.boot, peer.chain + 1)
                    \/ \E i \in DOMAIN sent : /\ sent[i].boot > peer.boot
                                               /\ p = SS!Start(sent[i].boot, 1)
                 /\ inbox' = Append(inbox, p) /\ peer' = SS!Advance(p)
    BY DEF SS!PeerWrites
  <1>2. peer.boot \in Nat /\ peer.chain \in 0..MaxChains
    BY DEF SessionTypes, Place, SS!Place
  <1>3. CASE p = peer
    BY <1>1, <1>3 DEF SessionTypes, SS!PeerWrites
  <1>4. CASE peer.chain < MaxChains /\ p = SS!Start(peer.boot, peer.chain + 1)
    <2>1. peer.chain + 1 \in 0..MaxChains
      BY <1>2, <1>4
    <2>2. p \in Place
      BY <1>2, <1>4, <2>1, PlaceStarts
    <2>. QED  BY <1>1, <1>4, <2>2 DEF SS!PeerWrites
  <1>5. ASSUME NEW i \in DOMAIN sent, sent[i].boot > peer.boot, p = SS!Start(sent[i].boot, 1)
        PROVE  \E q \in Place : q = p
    <2>1. sent[i] \in Place
      BY <1>5 DEF SessionTypes
    <2>2. sent[i].boot \in Nat /\ 1 \in 0..MaxChains
      BY <2>1 DEF Place, SS!Place
    <2>. QED  BY <1>5, <2>2, PlaceStarts
  <1>. QED  BY <1>1, <1>3, <1>4, <1>5 DEF SS!PeerWrites

LEMMA SessionTypesNext ==
    ASSUME SS!SignalSessionAssumption, SessionTypes, [SS!Next]_(SS!vars) PROVE SessionTypes'
  <1>. USE DEF SessionTypes, Sessions
  <1>1. MaxChains \in Nat \ {0} /\ MaxFailed \in Nat
    BY DEF SS!SignalSessionAssumption
  <1>2. SS!Bootstrapped \in SS!Session
    BY <1>1, BootstrappedType
  <1>3. ASSUME NEW z \in SS!Session, NEW who \in {"reply", "loop"}, SS!Save(who, z)
        PROVE  /\ file' \in SS!Session \cup {None, Torn} /\ failedSaves' \in 0..MaxFailed
               /\ saving' = saving \ {who}
    BY <1>1, <1>3 DEF SS!Save
  <1>4. CASE SS!PeerWrites
    <2>1. PICK p \in Place : /\ inbox' = Append(inbox, p) /\ peer' = SS!Advance(p)
                             /\ UNCHANGED <<file, sending, receiving, saving, sent, lost, failedSaves>>
      BY <1>1, <1>4, PeerPlaces
    <2>2. SS!Advance(p) \in Place
      BY PlaceMoves
    <2>3. inbox' \in Seq(Place) /\ inbox' # <<>> /\ (inbox # <<>> => Head(inbox') = Head(inbox))
      BY <2>1
    <2>4. receiving # None => SS!Reads' = SS!Reads
      BY <2>1, <2>3 DEF SS!Reads
    <2>. QED  BY <2>1, <2>2, <2>3, <2>4
  <1>5. CASE SS!SendLoad
    BY <1>2, <1>5 DEF SS!SendLoad, SS!Reads
  <1>6. CASE SS!SendSave
    <2>1. sending \in SS!Session
      BY <1>6 DEF SS!SendSave
    <2>2. [sending EXCEPT !.send = SS!Advance(@)] \in SS!Session /\ sending.send \in Place
      <3>1. \E m \in Place : TRUE
        OBVIOUS
      <3>. QED  BY <1>1, <2>1, <3>1, SessionMoves
    <2>3. sent' \in Seq(Place)
      BY <1>6, <2>2 DEF SS!SendSave
    <2>4. /\ file' \in SS!Session \cup {None, Torn} /\ failedSaves' \in 0..MaxFailed
          /\ saving' = saving \ {"reply"}
      BY <1>3, <1>6, <2>2 DEF SS!SendSave
    <2>. QED  BY <1>6, <2>3, <2>4 DEF SS!SendSave, SS!Reads
  <1>7. CASE SS!ReadLoad
    <2>1. inbox # <<>> => Tail(inbox) \in Seq(Place)
      OBVIOUS
    <2>. QED  BY <1>7, <2>1 DEF SS!ReadLoad
  <1>8. CASE SS!ReadSave
    <2>1. receiving # None /\ inbox # <<>>
      BY <1>8 DEF SS!ReadSave
    <2>2. Head(inbox) \in Place /\ Tail(inbox) \in Seq(Place)
      BY <2>1
    <2>3. CASE SS!Reads
      <3>1. receiving \in SS!Session
        BY <2>3 DEF SS!Reads
      <3>2. SS!Decrypted(receiving, Head(inbox)) \in SS!Session
        BY <1>1, <2>2, <3>1, SessionMoves
      <3>3. /\ file' \in SS!Session \cup {None, Torn} /\ failedSaves' \in 0..MaxFailed
            /\ saving' = saving \ {"loop"}
        BY <1>3, <1>8, <2>3, <3>2 DEF SS!ReadSave
      <3>. QED  BY <1>8, <2>2, <2>3, <3>3 DEF SS!ReadSave
    <2>4. CASE ~SS!Reads
      BY <1>8, <2>2, <2>4 DEF SS!ReadSave
    <2>. QED  BY <2>3, <2>4
  <1>9. CASE SS!Crash
    BY <1>1, <1>9 DEF SS!Crash
  <1>11. CASE UNCHANGED SS!vars
    BY <1>11 DEF SS!vars, SS!Reads
  <1>10. CASE SS!SendTruncate \/ SS!ReadTruncate
    BY <1>10 DEF SS!SendTruncate, SS!ReadTruncate, SS!Reads, SS!Truncate
  <1>. QED  BY <1>4, <1>5, <1>6, <1>7, <1>8, <1>9, <1>10, <1>11 DEF SS!Next

\* The session that counts: the file, or while this is being written what its
\* writer holds; and as its next user finds it.
Stored  == IF "reply" \in saving THEN sending ELSE IF "loop" \in saving THEN receiving ELSE file
Current == IF Stored = None THEN SS!Bootstrapped ELSE Stored

\* A key that comes before another on its chain, or is on an earlier chain.
Earlier(k, l) == k.chain < l.chain \/ (k.chain = l.chain /\ k.n < l.n)

\* The contact writes next where it left off, or at the start of a new chain;
\* a session that has read nothing expects the contact's first chain.
Continues(m, p) == m = p \/ m = SS!Start(p.boot, p.chain + 1)
Expected(s)     == IF s.remote = 0 THEN SS!Start(1, 1) ELSE s.recv
Letters(p, q, last) ==
    /\ q = <<>> => last = p
    /\ q # <<>> => Continues(q[1], p) /\ last = SS!Advance(q[Len(q)])
    /\ \A i \in 1..(Len(q) - 1) : Continues(q[i + 1], SS!Advance(q[i]))

\* There is one bootstrap, and both chains of the session are the contact's.
Ours(s) == /\ s.send.chain = s.remote /\ s.recv.chain = s.remote
           /\ s.send.boot = 1 /\ s.recv.boot = 1

\* That no key is used twice and nothing is given up is not inductive: what
\* counts must be where our chain and the contact's are.
TakeTurns ==
    /\ sending = None \/ receiving = None
    /\ Stored \in Sessions /\ (saving # {} => file = Torn)
    /\ Ours(Current) /\ peer.boot = 1 /\ \A i \in DOMAIN sent : sent[i].boot = 1
    /\ sending \in {None, Current} /\ receiving \in {None, Stored}
    /\ Stored = None => sent = <<>> /\ inbox = <<>>
    /\ \A i \in DOMAIN sent : Earlier(sent[i], Current.send)
    /\ Letters(Expected(Current), inbox, peer)
    /\ SS!KeysUsedOnce /\ SS!AllDecrypted

SessionInv == SessionTypes /\ (~overlap /\ failedSaves = 0 => TakeTurns)

LEMMA LettersAppend ==
    ASSUME NEW p, NEW q \in Seq(Place), NEW last, Letters(p, q, last),
           NEW m \in Place, Continues(m, last)
    PROVE  Letters(p, Append(q, m), SS!Advance(m))
  <1>1. PICK n \in Nat : n = Len(q)
    OBVIOUS
  <1>2. PICK r \in Seq(Place) : r = Append(q, m)
    <2>1. Append(q, m) \in Seq(Place)
      OBVIOUS
    <2>. QED  BY <2>1
  <1>3. Len(r) = n + 1 /\ r[n + 1] = m /\ \A i \in 1..n : r[i] = q[i]
    BY <1>1, <1>2
  <1>4. Continues(r[1], p)
    <2>1. CASE n = 0
      <3>1. q # <<>> => Len(q) # 0
        OBVIOUS
      <3>2. q = <<>>
        BY <1>1, <2>1, <3>1
      <3>. QED  BY <1>3, <2>1, <3>2 DEF Letters
    <2>2. CASE n # 0
      <3>1. q # <<>> /\ r[1] = q[1]
        BY <1>1, <1>3, <2>2
      <3>. QED  BY <3>1 DEF Letters
    <2>. QED  BY <2>1, <2>2
  <1>5. ASSUME NEW i \in 1..n PROVE Continues(r[i + 1], SS!Advance(r[i]))
    <2>1. CASE i = n
      <3>1. q # <<>> /\ r[i + 1] = m /\ r[i] = q[Len(q)]
        BY <1>1, <1>3, <2>1
      <3>. QED  BY <3>1 DEF Letters
    <2>2. CASE i # n
      <3>1. r[i + 1] = q[i + 1] /\ r[i] = q[i] /\ i \in 1..(Len(q) - 1)
        BY <1>1, <1>3, <2>2
      <3>. QED  BY <3>1 DEF Letters
    <2>. QED  BY <2>1, <2>2
  <1>6. r # <<>> /\ Len(r) - 1 = n /\ r[Len(r)] = m
    BY <1>3
  <1>. QED  BY <1>2, <1>4, <1>5, <1>6 DEF Letters

LEMMA LettersTail ==
    ASSUME NEW p, NEW q \in Seq(Place), q # <<>>, NEW last, Letters(p, q, last)
    PROVE  Letters(SS!Advance(q[1]), Tail(q), last)
  <1>1. PICK n \in Nat : n + 1 = Len(q)
    <2>1. Len(q) \in Nat /\ Len(q) # 0
      OBVIOUS
    <2>. QED  BY <2>1
  <1>2. PICK r \in Seq(Place) : r = Tail(q)
    <2>1. Tail(q) \in Seq(Place)
      OBVIOUS
    <2>. QED  BY <2>1
  <1>3. Len(r) = n /\ \A i \in 1..n : r[i] = q[i + 1]
    BY <1>1, <1>2
  <1>4. ASSUME NEW i \in 1..(n - 1) PROVE Continues(r[i + 1], SS!Advance(r[i]))
    <2>1. r[i + 1] = q[(i + 1) + 1] /\ r[i] = q[i + 1] /\ i + 1 \in 1..(Len(q) - 1)
      BY <1>1, <1>3
    <2>. QED  BY <2>1 DEF Letters
  <1>5. CASE r = <<>>
    <2>1. Len(q) = 1
      BY <1>1, <1>3, <1>5
    <2>. QED  BY <1>2, <1>3, <1>4, <1>5, <2>1 DEF Letters
  <1>6. CASE r # <<>>
    <2>1. n # 0 /\ r[1] = q[2] /\ r[Len(r)] = q[Len(q)] /\ 1 \in 1..(Len(q) - 1)
      BY <1>1, <1>3, <1>6
    <2>2. Continues(r[1], SS!Advance(q[1])) /\ last = SS!Advance(r[Len(r)])
      BY <2>1 DEF Letters
    <2>. QED  BY <1>2, <1>3, <1>4, <1>6, <2>2 DEF Letters
  <1>. QED  BY <1>5, <1>6

\* The next message of the contact deciphers, and the session that has read
\* it expects the one after, with no earlier key of ours.
LEMMA ReadsNext ==
    ASSUME MaxChains \in Nat, NEW s \in SS!Session, NEW m \in Place,
           Ours(s), Continues(m, Expected(s))
    PROVE  /\ SS!Decrypts(s, m)
           /\ LET z == SS!Decrypted(s, m) IN
                 /\ Ours(z) /\ Expected(z) = SS!Advance(m)
                 /\ \A k \in Place : Earlier(k, s.send) => Earlier(k, z.send)
  <1>1. PICK z : z = SS!Decrypted(s, m)
    OBVIOUS
  <1>2. /\ z = [remote |-> SS!Ratcheted(s, m).remote, send |-> SS!Ratcheted(s, m).send,
                recv |-> SS!Advance(SS!Ratcheted(s, m).recv)]
        /\ s.recv \in Place /\ s.send \in Place /\ s.remote \in Nat
        /\ SS!Advance(m) = [boot |-> m.boot, chain |-> m.chain, n |-> m.n + 1]
        /\ SS!Advance(s.recv) = [boot |-> s.recv.boot, chain |-> s.recv.chain, n |-> s.recv.n + 1]
    <2>1. s.recv \in Place /\ s.send \in Place /\ s.remote \in 0..MaxChains
      BY SessionMoves
    <2>2. \A p \in Place : SS!Advance(p) = [boot |-> p.boot, chain |-> p.chain, n |-> p.n + 1]
      BY PlaceMoves
    <2>3. SS!Decrypted(s, m) =
             [remote |-> SS!Ratcheted(s, m).remote, send |-> SS!Ratcheted(s, m).send,
              recv |-> SS!Advance(SS!Ratcheted(s, m).recv)]
      BY SessionMoves
    <2>. QED  BY <1>1, <2>1, <2>2, <2>3
  <1>3. m.chain \in Nat
    BY DEF Place, SS!Place
  <1>4. CASE m.chain = s.remote
    <2>1. SS!Ratcheted(s, m) = s
      BY <1>4 DEF SS!Ratcheted
    <2>2. s.remote # 0 /\ m = s.recv
      BY <1>2, <1>3, <1>4 DEF Continues, Expected, SS!Start, Ours
    <2>. QED  BY <1>1, <1>2, <1>4, <2>1, <2>2 DEF SS!Decrypts, Expected, Ours
  <1>5. CASE m.chain # s.remote
    <2>1. SS!Ratcheted(s, m) =
             [remote |-> m.chain, send |-> SS!Start(1, m.chain), recv |-> SS!Start(1, m.chain)]
      BY <1>5 DEF SS!Ratcheted, Ours
    <2>2. m = SS!Start(1, m.chain) /\ m.chain > s.remote
      BY <1>2, <1>3, <1>5 DEF Continues, Expected, SS!Start, Ours
    <2>3. /\ z.remote = m.chain /\ z.send = SS!Start(1, m.chain) /\ z.recv = SS!Advance(m)
          /\ SS!Decrypts(s, m)
      BY <1>2, <2>1, <2>2 DEF SS!Decrypts
    <2>4. /\ z.send.chain = m.chain /\ z.recv.chain = m.chain
          /\ z.send.boot = 1 /\ z.recv.boot = m.boot /\ m.boot = 1
      BY <1>2, <2>2, <2>3 DEF SS!Start
    <2>5. Expected(z) = SS!Advance(m)
      BY <1>2, <1>3, <2>2, <2>3 DEF Expected
    <2>6. \A k \in Place : Earlier(k, s.send) => Earlier(k, z.send)
      BY <1>2, <1>3, <2>2, <2>4 DEF Earlier, Ours, Place, SS!Place
    <2>. QED  BY <1>1, <2>3, <2>4, <2>5, <2>6 DEF Ours
  <1>. QED  BY <1>4, <1>5

\* A step that changes neither what was written nor the session as its next
\* user finds it.
LEMMA SameSession ==
    ASSUME TakeTurns, UNCHANGED <<inbox, peer, sent, lost>>,
           Current' = Current, Stored' \in Sessions, Stored' = None => Stored = None,
           sending' = None \/ receiving' = None, saving' # {} => file' = Torn,
           sending' \in {None, Current}, receiving' \in {None, Stored'}
    PROVE  TakeTurns'
  <1>1. Letters(Expected(Current), inbox, peer)'
    BY DEF TakeTurns, Letters, Expected
  <1>2. SS!KeysUsedOnce' /\ SS!AllDecrypted'
    BY DEF TakeTurns, SS!KeysUsedOnce, SS!AllDecrypted
  <1>3. Ours(Current)' /\ \A i \in DOMAIN sent' : Earlier(sent'[i], Current'.send)
    BY DEF TakeTurns, Ours
  <1>. QED  BY <1>1, <1>2, <1>3 DEF TakeTurns, Earlier

LEMMA TurnsTaken ==
    ASSUME SS!SignalSessionAssumption, SessionTypes, TakeTurns, SS!Next,
           sending' = None \/ receiving' = None, failedSaves' = 0
    PROVE  TakeTurns'
  <1>1. /\ MaxChains \in Nat \ {0} /\ None \notin SS!Session /\ Torn \notin SS!Session
        /\ None # Torn
    BY DEF SS!SignalSessionAssumption
  <1>2. SS!Bootstrapped \in SS!Session
    BY <1>1, BootstrappedType DEF SessionTypes
  <1>3. /\ Current \in SS!Session /\ Current # None
        /\ Current.send \in Place /\ Current.recv \in Place /\ Current.remote \in 0..MaxChains
    <2>1. Current \in SS!Session
      BY <1>2 DEF Current, TakeTurns, Sessions
    <2>. QED  BY <1>1, <2>1 DEF SS!Session, Place
  <1>4. /\ inbox \in Seq(Place) /\ sent \in Seq(Place) /\ peer \in Place /\ failedSaves \in Nat
        /\ receiving # None => inbox # <<>>
    BY DEF SessionTypes
  <1>5. /\ sending # None => "loop" \notin saving /\ receiving = None
        /\ receiving # None => "reply" \notin saving /\ sending = None
        /\ "reply" \in saving => sending # None
        /\ "loop" \in saving => receiving # None
        /\ saving \subseteq {"reply", "loop"} /\ (saving = {} => Stored = file)
    BY DEF SessionTypes, TakeTurns, Stored
  <1>6. ASSUME NEW z \in SS!Session, NEW who \in {"reply", "loop"}, SS!Save(who, z),
               saving \subseteq {who}
        PROVE  saving' = {} /\ file' = z /\ Stored' = z /\ Current' = z
    <2>1. who \in saving /\ file = Torn
      BY <1>4, <1>6 DEF SS!Save, TakeTurns
    <2>2. file' = z /\ saving' = {}
      BY <1>4, <1>6, <2>1 DEF SS!Save
    <2>. QED  BY <1>1, <2>2 DEF Stored, Current
  <1>7. CASE SS!PeerWrites
    <2>1. PICK p \in Place :
             /\ \/ p = peer \/ (peer.chain < MaxChains /\ p = SS!Start(peer.boot, peer.chain + 1))
                \/ \E i \in DOMAIN sent : sent[i].boot > peer.boot /\ p = SS!Start(sent[i].boot, 1)
             /\ inbox' = Append(inbox, p) /\ peer' = SS!Advance(p) /\ sent # <<>>
             /\ UNCHANGED <<file, sending, receiving, saving, sent, lost>>
      BY <1>1, <1>7, PeerPlaces
    <2>2. Continues(p, peer) /\ p.boot = 1 /\ peer'.boot = 1
      <3>1. \A i \in DOMAIN sent : ~(sent[i].boot > peer.boot)
        BY DEF TakeTurns
      <3>2. Continues(p, peer)
        BY <2>1, <3>1 DEF Continues
      <3>3. p.boot = 1
        BY <3>2 DEF Continues, TakeTurns, SS!Start
      <3>. QED  BY <2>1, <3>2, <3>3, PlaceMoves
    <2>3. Letters(Expected(Current), inbox', peer')
      BY <1>4, <2>1, <2>2, LettersAppend DEF TakeTurns
    <2>4. Stored' = Stored /\ Current' = Current
      BY <2>1 DEF Stored, Current, SS!Bootstrapped
    <2>5. Letters(Expected(Current), inbox, peer)'
      BY <2>3, <2>4 DEF Letters, Expected
    <2>6. Stored' # None
      BY <2>1, <2>4 DEF TakeTurns
    <2>7. SS!KeysUsedOnce' /\ SS!AllDecrypted'
      BY <2>1 DEF TakeTurns, SS!KeysUsedOnce, SS!AllDecrypted
    <2>8. Ours(Current)' /\ \A i \in DOMAIN sent' : Earlier(sent'[i], Current'.send)
      BY <2>1, <2>4 DEF TakeTurns, Ours
    <2>. QED  BY <2>1, <2>2, <2>4, <2>5, <2>6, <2>7, <2>8 DEF TakeTurns, Earlier
  <1>8. CASE SS!SendLoad
    <2>1. /\ sending = None /\ sending' = IF file \in {None, Torn} THEN SS!Bootstrapped ELSE file
          /\ UNCHANGED <<file, receiving, saving, inbox, peer, sent, lost>>
      BY <1>8 DEF SS!SendLoad
    <2>2. sending' # None /\ receiving = None
      BY <1>1, <1>2, <2>1
    <2>3. saving = {} /\ Stored = file
      BY <1>5, <2>1, <2>2
    <2>4. sending' = Current
      BY <1>1, <2>1, <2>3 DEF Current, TakeTurns, Sessions
    <2>5. Stored' = Stored /\ Current' = Current
      BY <2>1, <2>3 DEF Stored, Current, SS!Bootstrapped
    <2>. QED  BY <2>1, <2>2, <2>3, <2>4, <2>5, SameSession DEF TakeTurns
  <1>9. CASE SS!SendTruncate
    <2>1. /\ sending # None /\ "reply" \notin saving /\ saving' = saving \cup {"reply"}
          /\ file' = Torn /\ UNCHANGED <<sending, receiving, inbox, peer, sent, lost>>
      BY <1>9 DEF SS!SendTruncate, SS!Truncate
    <2>2. saving = {} /\ receiving = None /\ sending = Current
      BY <1>5, <2>1 DEF TakeTurns
    <2>3. Stored' = Current /\ Current' = Current
      BY <1>3, <2>1, <2>2 DEF Stored, Current
    <2>. QED  BY <1>3, <2>1, <2>2, <2>3, SameSession DEF Sessions
  <1>10. CASE SS!SendSave
    <2>1. PICK z : z = [Current EXCEPT !.send = SS!Advance(@)]
      OBVIOUS
    <2>2. sending = Current /\ receiving = None /\ saving \subseteq {"reply"}
      BY <1>5, <1>10 DEF SS!SendSave, TakeTurns
    <2>3. /\ z = [remote |-> Current.remote, send |-> SS!Advance(Current.send),
                  recv |-> Current.recv]
          /\ z \in SS!Session
      <3>1. Current.send \in Place
        BY <1>3
      <3>. QED  BY <1>1, <1>3, <2>1, <3>1, SessionMoves
    <2>4. SS!Save("reply", z) /\ sent' = Append(sent, Current.send) /\ sending' = None
          /\ UNCHANGED <<receiving, inbox, peer, lost>>
      BY <1>10, <2>1, <2>2 DEF SS!SendSave
    <2>5. saving' = {} /\ file' = z /\ Stored' = z /\ Current' = z
      BY <1>6, <2>2, <2>3, <2>4
    <2>6. /\ z.send = [boot |-> Current.send.boot, chain |-> Current.send.chain,
                       n |-> Current.send.n + 1]
          /\ z.remote = Current.remote /\ z.recv = Current.recv
      BY <1>3, <2>3, PlaceMoves
    <2>7. \A k \in Place : Earlier(k, Current.send) \/ k = Current.send => Earlier(k, z.send)
      BY <1>3, <2>6 DEF Earlier, Place, SS!Place
    <2>8. PICK n \in Nat : n = Len(sent)
      BY <1>4
    <2>9. /\ DOMAIN sent = 1..n /\ DOMAIN sent' = 1..(n + 1) /\ sent'[n + 1] = Current.send
          /\ \A i \in 1..n : sent'[i] = sent[i] /\ sent[i] \in Place
      BY <1>3, <1>4, <2>4, <2>8
    <2>10. \A i \in DOMAIN sent' : Earlier(sent'[i], Current'.send) /\ sent'[i].boot = 1
      <3>1. ASSUME NEW i \in 1..(n + 1) PROVE Earlier(sent'[i], z.send) /\ sent'[i].boot = 1
        <4>1. CASE i = n + 1
          BY <1>3, <2>7, <2>9, <4>1 DEF TakeTurns, Ours
        <4>2. CASE i # n + 1
          <5>1. i \in 1..n
            BY <4>2
          <5>. QED  BY <2>7, <2>9, <5>1 DEF TakeTurns
        <4>. QED  BY <4>1, <4>2
      <3>. QED  BY <2>5, <2>9, <3>1
    <2>11. SS!KeysUsedOnce'
      <3>1. \A i \in 1..n : sent[i] # Current.send
        <4>1. \A i \in 1..n : Earlier(sent[i], Current.send)
          BY <2>9 DEF TakeTurns
        <4>2. ~Earlier(Current.send, Current.send)
          BY <1>3 DEF Earlier, Place, SS!Place
        <4>. QED  BY <4>1, <4>2
      <3>2. \A i, j \in 1..n : i # j => sent[i] # sent[j]
        BY <2>9 DEF TakeTurns, SS!KeysUsedOnce
      <3>3. ASSUME NEW i \in 1..(n + 1), NEW j \in 1..(n + 1), i # j PROVE sent'[i] # sent'[j]
        <4>1. i \in 1..n \/ j \in 1..n
          BY <3>3
        <4>2. CASE i \in 1..n /\ j \in 1..n
          BY <2>9, <3>2, <3>3, <4>2
        <4>3. CASE i = n + 1 \/ j = n + 1
          BY <2>9, <3>1, <3>3, <4>1, <4>3
        <4>. QED  BY <4>2, <4>3
      <3>. QED  BY <2>9, <3>3 DEF SS!KeysUsedOnce
    <2>12. Letters(Expected(Current), inbox, peer)'
      BY <2>4, <2>5, <2>6 DEF TakeTurns, Letters, Expected
    <2>13. SS!AllDecrypted' /\ Ours(Current)'
      BY <2>4, <2>5, <2>6 DEF TakeTurns, SS!AllDecrypted, Ours
    <2>14. Stored' \in Sessions /\ Stored' # None
      BY <1>1, <2>3, <2>5 DEF Sessions
    <2>. QED  BY <2>2, <2>4, <2>5, <2>10, <2>11, <2>12, <2>13, <2>14 DEF TakeTurns, Earlier
  <1>11. CASE SS!ReadLoad
    <2>1. receiving = None /\ inbox # <<>> /\ UNCHANGED <<file, sending, saving, peer, sent>>
      BY <1>11 DEF SS!ReadLoad
    <2>2. file # None
      <3>1. saving # {} => file # None
        BY <1>1 DEF TakeTurns
      <3>. QED  BY <1>5, <2>1, <3>1 DEF TakeTurns
    <2>3. receiving' = file /\ UNCHANGED <<inbox, lost>>
      BY <1>11, <2>2 DEF SS!ReadLoad
    <2>4. sending = None /\ saving = {} /\ Stored = file
      BY <1>5, <2>1, <2>2, <2>3
    <2>5. Stored' = Stored /\ Current' = Current
      BY <2>1, <2>4 DEF Stored, Current, SS!Bootstrapped
    <2>. QED  BY <2>1, <2>3, <2>4, <2>5, SameSession DEF TakeTurns
  <1>12. CASE SS!ReadTruncate
    <2>1. /\ SS!Reads /\ "loop" \notin saving /\ saving' = saving \cup {"loop"}
          /\ file' = Torn /\ UNCHANGED <<sending, receiving, inbox, peer, sent, lost>>
      BY <1>12 DEF SS!ReadTruncate, SS!Truncate
    <2>2. receiving # None
      BY <2>1 DEF SS!Reads
    <2>3. saving = {} /\ sending = None /\ receiving = Stored
      BY <1>5, <2>1, <2>2 DEF TakeTurns
    <2>4. Stored' = Stored /\ Current' = Current
      BY <2>1, <2>2, <2>3 DEF Stored, Current
    <2>. QED  BY <2>1, <2>2, <2>3, <2>4, SameSession DEF TakeTurns
  <1>13. CASE SS!ReadSave
    <2>1. /\ receiving = Stored /\ Stored # None /\ Current = receiving /\ inbox # <<>>
          /\ sending = None /\ saving \subseteq {"loop"}
      BY <1>4, <1>5, <1>13 DEF SS!ReadSave, TakeTurns, Current
    <2>2. PICK m : m = Head(inbox)
      OBVIOUS
    <2>3. m = inbox[1] /\ m \in Place
      <3>1. 1 \in DOMAIN inbox
        BY <1>4, <2>1
      <3>. QED  BY <1>4, <2>1, <2>2, <3>1
    <2>4. Continues(m, Expected(Current))
      BY <2>1, <2>3 DEF TakeTurns, Letters
    <2>5. PICK z : z = SS!Decrypted(Current, m)
      OBVIOUS
    <2>6. /\ SS!Decrypts(Current, m) /\ Ours(z) /\ Expected(z) = SS!Advance(m)
          /\ \A k \in Place : Earlier(k, Current.send) => Earlier(k, z.send)
      BY <1>1, <1>3, <2>3, <2>4, <2>5, ReadsNext DEF TakeTurns
    <2>7. z \in SS!Session
      BY <1>1, <1>3, <2>3, <2>5, SessionMoves
    <2>8. SS!Reads
      BY <1>1, <1>3, <2>1, <2>2, <2>6 DEF SS!Reads
    <2>9. SS!Save("loop", z) /\ lost' = lost /\ inbox' = Tail(inbox) /\ receiving' = None
          /\ UNCHANGED <<sending, peer, sent>>
      BY <1>13, <2>1, <2>2, <2>5, <2>8 DEF SS!ReadSave
    <2>10. saving' = {} /\ file' = z /\ Stored' = z /\ Current' = z
      BY <1>6, <2>1, <2>7, <2>9
    <2>11. Letters(Expected(Current), inbox, peer)'
      <3>1. Letters(SS!Advance(m), inbox', peer)
        BY <1>4, <2>1, <2>3, <2>9, LettersTail DEF TakeTurns
      <3>2. Expected(Current)' = SS!Advance(m)
        BY <2>6, <2>10 DEF Expected
      <3>. QED  BY <2>9, <3>1, <3>2 DEF Letters
    <2>12. \A i \in DOMAIN sent' : Earlier(sent'[i], Current'.send) /\ sent'[i].boot = 1
      BY <1>4, <2>6, <2>9, <2>10 DEF TakeTurns
    <2>13. SS!KeysUsedOnce' /\ SS!AllDecrypted' /\ Ours(Current)'
      BY <2>6, <2>9, <2>10 DEF TakeTurns, SS!KeysUsedOnce, SS!AllDecrypted, Ours
    <2>14. Stored' \in Sessions /\ Stored' # None
      BY <1>1, <2>7, <2>10 DEF Sessions
    <2>. QED  BY <2>1, <2>9, <2>10, <2>11, <2>12, <2>13, <2>14 DEF TakeTurns, Earlier
  <1>14. CASE SS!Crash
    <2>1. /\ sending' = None /\ receiving' = None /\ UNCHANGED <<file, inbox, peer, sent, lost>>
          /\ saving' = {} /\ saving = {}
      BY <1>4, <1>14 DEF SS!Crash
    <2>2. Stored' = Stored /\ Current' = Current
      BY <2>1 DEF Stored, Current, SS!Bootstrapped
    <2>. QED  BY <2>1, <2>2, SameSession DEF TakeTurns
  <1>. QED  BY <1>7, <1>8, <1>9, <1>10, <1>11, <1>12, <1>13, <1>14 DEF SS!Next

LEMMA SessionInit == ASSUME SS!SignalSessionAssumption, SS!Init PROVE SessionInv
  <1>1. MaxChains \in Nat \ {0} /\ SessionTypes
    BY SessionTypesInit DEF SS!SignalSessionAssumption
  <1>2. Stored = None /\ Current = [remote |-> 0, send |-> SS!Start(1, 0), recv |-> SS!Start(1, 0)]
    BY <1>1, BootstrappedType DEF SS!Init, SessionTypes, Stored, Current
  <1>3. Ours(Current) /\ Expected(Current) = SS!Start(1, 1)
    BY <1>2 DEF Ours, Expected, SS!Start
  <1>4. Letters(Expected(Current), inbox, peer) /\ peer.boot = 1
    BY <1>3 DEF SS!Init, Letters, SS!Start
  <1>5. TakeTurns
    BY <1>2, <1>3, <1>4 DEF SS!Init, TakeTurns, Sessions, SS!KeysUsedOnce, SS!AllDecrypted
  <1>. QED  BY <1>1, <1>5 DEF SessionInv

LEMMA SessionNext ==
    ASSUME L!RateLimiterAssumption, W!WebSocketsAssumption, SS!SignalSessionAssumption,
           SessionInv, [EdgesNext]_edgeVars
    PROVE  SessionInv'
  <1>1. SessionTypes'
    BY Steps, SessionTypesNext DEF SessionInv
  <1>2. ASSUME ~overlap', failedSaves' = 0 PROVE TakeTurns'
    <2>1. overlap' = overlap
      BY Choice
    <2>2. [SS!Next]_(SS!vars)
      BY Steps
    <2>3. CASE UNCHANGED SS!vars
      <3>1. TakeTurns
        BY <1>2, <2>1, <2>3 DEF SessionInv, SS!vars
      <3>2. Stored' = Stored /\ Current' = Current
        BY <2>3 DEF Stored, Current, SS!Bootstrapped, SS!vars
      <3>. QED  BY <2>3, <3>1, <3>2, SameSession DEF TakeTurns, SS!vars
    <2>4. CASE SS!Next /\ ~UNCHANGED SS!vars
      <3>1. failedSaves = 0
        <4>1. failedSaves \in Nat
          BY DEF SessionInv, SessionTypes
        <4>2. failedSaves' = failedSaves \/ failedSaves' = failedSaves + 1
          BY <2>4 DEF SS!Next, SS!PeerWrites, SS!SendLoad, SS!SendTruncate, SS!SendSave,
                      SS!ReadLoad, SS!ReadTruncate, SS!ReadSave, SS!Crash, SS!Truncate, SS!Save
        <4>. QED  BY <1>2, <4>1, <4>2
      <3>2. sending' = None \/ receiving' = None
        <4>1. EdgesNext
          BY <2>4 DEF edgeVars, ciphers, session, SS!vars
        <4>2. InFlight' <= 1
          BY <1>2, <2>1, <4>1 DEF EdgesNext
        <4>. QED  BY <4>2, OneInFlightNext
      <3>3. SessionTypes /\ TakeTurns
        BY <1>2, <2>1, <3>1 DEF SessionInv
      <3>. QED  BY <1>2, <2>4, <3>2, <3>3, TurnsTaken
    <2>. QED  BY <2>2, <2>3, <2>4
  <1>. QED  BY <1>1, <1>2 DEF SessionInv

\* Where replies and received messages take turns, and every save succeeds,
\* no key of a Signal session enciphers two messages and every message that
\* the server delivers is deciphered, whatever chains the contact starts and
\* wherever the process dies but within a save, which truncates the file first
\* (send_text and receive loop of whatsapp_native, client.rs; store.rs).
LEMMA SessionsTakeTurns ==
    ASSUME L!RateLimiterAssumption, W!WebSocketsAssumption, SS!SignalSessionAssumption
    PROVE  EdgesSpec => [](~overlap /\ failedSaves = 0 => SS!KeysUsedOnce /\ SS!AllDecrypted)
  <1>1. EdgesInit => SessionInv
    BY SessionInit DEF EdgesInit
  <1>2. SessionInv /\ [EdgesNext]_edgeVars => SessionInv'
    BY SessionNext
  <1>3. SessionInv => (~overlap /\ failedSaves = 0 => SS!KeysUsedOnce /\ SS!AllDecrypted)
    BY DEF SessionInv, TakeTurns
  <1>. QED  BY <1>1, <1>2, <1>3, PTL DEF EdgesSpec

-----------------------------------------------------------------------------
(* A connection of the WhatsApp client and its server.                     *)

\* The handshake that goes well: what the server enciphers, what the client
\* does, and the hash and the chaining key that both come to.
Greeting    == Append(NS!Hello, "server_ephemeral")
ServerKey   == NS!Cipher(<<NS!ee>>, 0, Greeting)
Certificate == NS!Cipher(<<NS!ee, NS!es>>, 0, Append(Greeting, ServerKey))
Answered    == Append(Append(Greeting, ServerKey), Certificate)
ClientKey   == NS!Cipher(<<NS!ee, NS!es>>, 0, Answered)
Chained     == <<NS!ee, NS!es, NS!se>>
Payload     == NS!Cipher(Chained, 0, Append(Answered, ClientKey))
Agreed      == Answered \o <<ClientKey, Payload>>

\* The frame that comes n after the first under a key.
FrameAt(k, n) == NS!Cipher(k, n % CounterSize, <<>>)
Out == NS!SendKey(Chained)
In  == NS!RecvKey(Chained)

Ciphers(k) == [key : {k}, nonce : 0..(CounterSize - 1), ad : {<<>>}]
Forms == {"framed", "bare", "lookalike"}

NoiseTypes ==
    /\ at \in {"new", "hello", "open", "failed"}
    /\ sendCounter \in 0..(CounterSize - 1) /\ recvCounter \in 0..(CounterSize - 1)
    /\ dropped \in Nat /\ pending \in [Senders -> Ciphers(Out) \cup {None}]
    /\ used \in Seq(Ciphers(Out) \cup {ClientKey, Payload})
    /\ opened \in Seq([form : Forms, ok : BOOLEAN])
    /\ server = [at |-> server.at, h |-> server.h, ck |-> server.ck,
                 received |-> server.received, posted |-> server.posted]
    /\ server.received \in 0..(CounterSize - 1) /\ server.posted \in 0..MaxFrames

\* Before the client has enciphered anything.
Greets ==
    /\ at # "open" /\ \A c \in Senders : pending[c] = None
    /\ server.at \in {"wait", "answered", "gone"}
    /\ server.received = 0 /\ server.posted = 0 /\ opened = <<>>
    /\ server.at = "answered" => server.h = Answered /\ server.ck = <<NS!ee, NS!es>>
    /\ at = "new" => server.at = "wait" /\ inbound = <<>>
    /\ at = "hello" =>
          /\ h = NS!Hello
          /\ server.at = "wait" => inbound = <<>>
          /\ server.at = "answered" => inbound = <<[static |-> ServerKey, payload |-> Certificate]>>
          /\ server.at = "gone" => inbound = <<[static |-> None, payload |-> None]>>

\* The frames of the client: those it has enciphered, and at most one of them,
\* the last, that is not yet in the socket.
Sends ==
    /\ at \in {"open", "failed"} /\ h = Agreed /\ ck = Chained
    /\ Len(used) >= 2 /\ used[1] = ClientKey /\ used[2] = Payload
    /\ \A i \in 3..Len(used) : used[i] = FrameAt(Out, i - 3)
    /\ sendCounter = (Len(used) - 2) % CounterSize
    /\ \A c \in Senders : pending[c] # None =>
          /\ Len(used) > 2 /\ pending[c] = used[Len(used)]
          /\ \A d \in Senders : pending[d] # None => c = d

\* What the server has of them.
Receives ==
    /\ server.at \in {"answered", "open", "refused"}
    /\ server.at = "answered" =>
          /\ server.h = Answered /\ server.ck = <<NS!ee, NS!es>> /\ server.received = 0
          /\ Len(used) = 2 \/ (Len(used) = 3 /\ ~NS!Mutex)
    /\ server.at = "open" =>
          /\ server.h = Agreed /\ server.ck = Chained
          /\ dropped = 0 =>
                server.received = (IF NS!Mutex THEN Len(used) - 2 ELSE Len(used) - 3) % CounterSize
    /\ server.at = "refused" => counting \/ dropped > 0

\* The frames of the server: those that are on their way come after those
\* that have arrived.
Arrives ==
    /\ inbound \in Seq([form : Forms, cipher : Ciphers(In)])
    /\ \A i \in DOMAIN inbound : inbound[i].cipher = FrameAt(In, Len(opened) + i - 1)
    /\ server.posted = Len(opened) + Len(inbound)
    /\ recvCounter = Len(opened) % CounterSize
    /\ \A i \in DOMAIN opened : opened[i].ok <=> opened[i].form # "lookalike"

\* InStep is not inductive: the two ends agree only as long as each frame on
\* its way has the place that the other end counts to.
NoiseInv ==
    /\ NoiseTypes
    /\ used = <<>> => Greets
    /\ used # <<>> => Sends /\ Receives /\ Arrives

\* What a counter comes to.
LEMMA Quotient ==
    ASSUME NEW d \in Nat \ {0}, NEW x \in Nat
    PROVE  \E q \in Nat, r \in 0..(d - 1) : x = d * q + r /\ r = x % d
  <1>1. x % d \in 0..(d - 1) /\ x \div d \in Nat
    OBVIOUS
  <1>2. x = d * (x \div d) + (x % d)
    OBVIOUS
  <1>. QED  BY <1>1, <1>2

LEMMA Remainder ==
    ASSUME NEW d \in Nat \ {0}, NEW q \in Nat, NEW r \in 0..(d - 1)
    PROVE  (d * q + r) % d = r
  OBVIOUS

\* Counting on from a counter is counting on.
LEMMA NextRemainder ==
    ASSUME NEW d \in Nat \ {0}, NEW x \in Nat PROVE ((x % d) + 1) % d = (x + 1) % d
  <1>1. PICK q \in Nat, r \in 0..(d - 1) : x = d * q + r /\ r = x % d
    BY Quotient
  <1>2. PICK p \in Nat : p = d * q
    OBVIOUS
  <1>3. x = p + r
    BY <1>1, <1>2
  <1>4. CASE r + 1 < d
    <2>1. x + 1 = d * q + (r + 1) /\ r + 1 \in 0..(d - 1)
      BY <1>2, <1>3, <1>4
    <2>2. (x + 1) % d = r + 1
      BY <2>1, Remainder
    <2>3. (r + 1) % d = r + 1
      BY <1>4
    <2>. QED  BY <1>1, <2>2, <2>3
  <1>5. CASE r + 1 = d
    <2>1. x + 1 = p + d
      BY <1>3, <1>5
    <2>2. d * q + d = d * (q + 1)
      BY Z3
    <2>3. x + 1 = d * (q + 1) + 0
      BY <1>2, <2>1, <2>2
    <2>4. (d * (q + 1) + 0) % d = 0
      <3>1. q + 1 \in Nat /\ 0 \in 0..(d - 1)
        OBVIOUS
      <3>. QED  BY <3>1, Remainder
    <2>5. (r + 1) % d = 0
      BY <1>5
    <2>. QED  BY <1>1, <2>3, <2>4, <2>5
  <1>. QED  BY <1>1, <1>4, <1>5

\* A counter shows the same again only when it has come round.
LEMMA SameRemainder ==
    ASSUME NEW d \in Nat \ {0}, NEW x \in Nat, NEW y \in Nat, x < y, x % d = y % d
    PROVE  y - x >= d
  <1>1. PICK q \in Nat, r \in 0..(d - 1) : x = d * q + r /\ r = x % d
    BY Quotient
  <1>2. PICK p \in Nat, s \in 0..(d - 1) : y = d * p + s /\ s = y % d
    BY Quotient
  <1>3. y - x = d * (p - q)
    BY <1>1, <1>2
  <1>4. p - q >= 1
    BY <1>1, <1>2, <1>3
  <1>. QED  BY <1>3, <1>4

LEMMA FrameTypes ==
    ASSUME NS!NoiseAssumption
    PROVE  /\ CounterSize \in Nat \ {0} /\ MaxFrames \in Nat /\ None \notin Ciphers(Out)
           /\ \A x \in Nat : x % CounterSize \in 0..(CounterSize - 1)
           /\ \A k : \A x \in Nat : FrameAt(k, x) \in Ciphers(k)
  <1>1. CounterSize \in Nat \ {0} /\ MaxFrames \in Nat
    BY DEF NS!NoiseAssumption
  <1>2. None \notin Ciphers(Out)
    BY DEF NS!NoiseAssumption, Ciphers, Out, Chained
  <1>3. \A x \in Nat : x % CounterSize \in 0..(CounterSize - 1)
    BY <1>1
  <1>4. \A k : \A x \in Nat : FrameAt(k, x) \in Ciphers(k)
    BY <1>3 DEF FrameAt, Ciphers, NS!Cipher
  <1>. QED  BY <1>1, <1>2, <1>3, <1>4

LEMMA NoiseInit == ASSUME NS!NoiseAssumption, NS!Init PROVE NoiseInv
  <1>1. 0 \in 0..(CounterSize - 1)
    BY FrameTypes
  <1>2. NoiseTypes
    <2>1. used \in Seq(Ciphers(Out) \cup {ClientKey, Payload})
          /\ opened \in Seq([form : Forms, ok : BOOLEAN])
      BY DEF NS!Init
    <2>. QED  BY <1>1, <2>1, FrameTypes DEF NS!Init, NoiseTypes
  <1>. QED  BY <1>2 DEF NS!Init, NoiseInv, Greets

\* The handshake.
LEMMA Greeted ==
    ASSUME NS!NoiseAssumption, NoiseInv, NS!InitHandshake \/ NS!ServerHello
    PROVE  NoiseInv'
  <1>1. /\ used = <<>> /\ used' = used /\ at' # "open" /\ Greets
        /\ UNCHANGED <<sendCounter, recvCounter, pending, dropped, opened, ck>>
    BY DEF NS!InitHandshake, NS!ServerHello, NS!Fail, NS!client, NoiseInv, Sends
  <1>2. NoiseTypes'
    BY <1>1 DEF NoiseInv, NoiseTypes, NS!InitHandshake, NS!ServerHello, NS!Fail, NS!client, Greets
  <1>3. CASE NS!InitHandshake
    BY <1>1, <1>2, <1>3 DEF NS!InitHandshake, NS!Fail, NoiseInv, Greets
  <1>4. CASE NS!ServerHello
    <2>1. /\ at = "hello" /\ server.at = "wait" /\ at' = at /\ h' = h
          /\ \/ /\ inbound' = <<[static |-> ServerKey, payload |-> Certificate]>>
                /\ server' = [server EXCEPT !.at = "answered", !.h = Answered,
                                            !.ck = <<NS!ee, NS!es>>]
             \/ /\ inbound' = <<[static |-> None, payload |-> None]>>
                /\ server' = [server EXCEPT !.at = "gone"]
      BY <1>4 DEF NS!ServerHello, NS!client, Greeting, ServerKey, Certificate, Answered
    <2>2. /\ server'.received = server.received /\ server'.posted = server.posted
          /\ \/ server'.at = "answered" /\ server'.h = Answered /\ server'.ck = <<NS!ee, NS!es>>
                  /\ inbound' = <<[static |-> ServerKey, payload |-> Certificate]>>
             \/ server'.at = "gone" /\ inbound' = <<[static |-> None, payload |-> None]>>
      BY <2>1 DEF NoiseInv, NoiseTypes
    <2>3. Greets'
      BY <1>1, <2>1, <2>2 DEF Greets
    <2>. QED  BY <1>1, <1>2, <2>3 DEF NoiseInv
  <1>. QED  BY <1>3, <1>4

\* What the parts of a handshake are not.
LEMMA HandshakeParts ==
    /\ ServerKey # Certificate /\ ClientKey # Payload
    /\ \A f \in Ciphers(Out) : f # ClientKey /\ f # Payload
  <1>1. ServerKey.key = <<"ee">> /\ Certificate.key = <<"ee", "es">>
    BY DEF ServerKey, Certificate, NS!Cipher, NS!ee, NS!es
  <1>2. ClientKey.key = <<"ee", "es">> /\ Payload.key = <<"ee", "es", "se">>
    BY DEF ClientKey, Payload, Chained, NS!Cipher, NS!ee, NS!es, NS!se
  <1>3. Out # <<"ee", "es">> /\ Out # <<"ee", "es", "se">>
    <2>1. PICK K : K = {"ee", "es", "se", "send"}
      OBVIOUS
    <2>2. Chained \in Seq(K) /\ Len(Chained) = 3
      BY <2>1 DEF Chained, NS!ee, NS!es, NS!se
    <2>3. ASSUME NEW q \in Seq(K), NEW k \in K PROVE Len(Append(q, k)) = Len(q) + 1
      OBVIOUS
    <2>4. "send" \in K
      BY <2>1
    <2>5. Len(Append(Chained, "send")) = 3 + 1
      BY <2>2, <2>3, <2>4
    <2>6. Len(<<"ee", "es">>) = 2 /\ Len(<<"ee", "es", "se">>) = 3
      OBVIOUS
    <2>7. Out = Append(Chained, "send")
      BY DEF Out, NS!SendKey
    <2>8. Len(Out) = 4
      BY <2>5, <2>7
    <2>9. ASSUME NEW q, Len(q) # 4 PROVE Out # q
      BY <2>8, <2>9
    <2>. QED  BY <2>6, <2>9
  <1>4. \A f \in Ciphers(Out) : f.key = Out
    BY DEF Ciphers
  <1>5. <<"ee">> # <<"ee", "es">> /\ <<"ee", "es">> # <<"ee", "es", "se">>
    OBVIOUS
  <1>. QED  BY <1>1, <1>2, <1>3, <1>4, <1>5

LEMMA Finished == ASSUME NS!NoiseAssumption, NoiseInv, NS!ClientFinish PROVE NoiseInv'
  <1>1. /\ at = "hello" /\ used = <<>> /\ Greets /\ inbound # <<>> /\ inbound' = <<>>
        /\ UNCHANGED <<counting, server, opened, pending, dropped>>
    BY DEF NS!ClientFinish, NS!Fail, NoiseInv, Sends
  <1>2. 0 \in 0..(CounterSize - 1)
    BY FrameTypes
  <1>3. CASE at' = "failed" /\ UNCHANGED <<h, ck, sendCounter, recvCounter, used>>
    <2>1. NoiseTypes'
      BY <1>1, <1>3 DEF NoiseInv, NoiseTypes
    <2>2. Greets'
      BY <1>1, <1>3 DEF Greets
    <2>. QED  BY <1>1, <1>3, <2>1, <2>2 DEF NoiseInv
  <1>4. CASE ~(at' = "failed" /\ UNCHANGED <<h, ck, sendCounter, recvCounter, used>>)
    <2>1. PICK c : c = Head(inbound)
      OBVIOUS
    <2>2. /\ c.static = ServerKey /\ c.payload = NS!Cipher(<<NS!ee, NS!es>>, 0, Append(Greeting, c.static))
          /\ h = NS!Hello
      BY <1>1, <1>4, <2>1 DEF NS!ClientFinish, NS!Fail, Greets, ServerKey, Greeting
    <2>3. c.static = ServerKey /\ c.payload = Certificate
      BY <2>2 DEF Certificate
    <2>4. /\ h' = Agreed /\ ck' = Chained /\ used' = <<ClientKey, Payload>>
          /\ sendCounter' = 0 /\ recvCounter' = 0 /\ at' \in {"open", "failed"}
      <3>1. LET h3 == Append(Append(Append(h, "server_ephemeral"), c.static), c.payload)
                s1 == NS!Cipher(<<NS!ee, NS!es>>, 0, h3)
                s2 == NS!Cipher(<<NS!ee, NS!es, NS!se>>, 0, Append(h3, s1))
            IN /\ h' = h3 \o <<s1, s2>> /\ ck' = <<NS!ee, NS!es, NS!se>>
               /\ used' = <<s1, s2>>
               /\ sendCounter' = 0 /\ recvCounter' = 0 /\ at' \in {"open", "failed"}
        BY <1>1, <1>4, <2>1 DEF NS!ClientFinish, NS!Fail
      <3>2. Append(Append(Append(h, "server_ephemeral"), c.static), c.payload) = Answered
        BY <2>2, <2>3 DEF Answered, Greeting
      <3>. QED  BY <3>1, <3>2 DEF ClientKey, Payload, Agreed, Chained
    <2>5. server.at = "answered"
      <3>1. inbound # <<[static |-> None, payload |-> None]>>
        BY <2>1, <2>3, HandshakeParts
      <3>. QED  BY <1>1, <3>1 DEF Greets
    <2>6. Len(used') = 2 /\ used'[1] = ClientKey /\ used'[2] = Payload
          /\ used' \in Seq(Ciphers(Out) \cup {ClientKey, Payload})
      BY <2>4
    <2>7. NoiseTypes'
      BY <1>1, <1>2, <2>4, <2>6 DEF NoiseInv, NoiseTypes
    <2>8. 0 % CounterSize = 0
      BY FrameTypes
    <2>9. Sends'
      BY <1>1, <2>4, <2>6, <2>8 DEF Greets, Sends
    <2>10. Receives'
      BY <1>1, <2>5, <2>6 DEF Greets, Receives
    <2>11. Arrives'
      <3>1. <<>> \in Seq([form : Forms, cipher : Ciphers(In)])
        OBVIOUS
      <3>. QED  BY <1>1, <2>4, <2>8, <3>1 DEF Greets, Arrives
    <2>. QED  BY <2>6, <2>7, <2>9, <2>10, <2>11 DEF NoiseInv
  <1>. QED  BY <1>3, <1>4

LEMMA Accepted == ASSUME NS!NoiseAssumption, NoiseInv, NS!ServerAccept PROVE NoiseInv'
  <1>1. /\ at = "open" /\ server.at = "answered" /\ used # <<>>
        /\ UNCHANGED <<at, h, ck, sendCounter, recvCounter, pending, used, dropped,
                       counting, inbound, opened>>
    BY DEF NS!ServerAccept, NS!client, NoiseInv, Greets
  <1>2. /\ Sends /\ Receives /\ Arrives /\ NoiseTypes
        /\ server.h = Answered /\ server.ck = <<NS!ee, NS!es>> /\ server.received = 0
        /\ used[1] = ClientKey /\ used[2] = Payload
    BY <1>1 DEF NoiseInv, Receives, Sends
  <1>3. Append(server.ck, NS!se) = Chained
    <2>1. PICK K : K = {NS!ee, NS!es, NS!se}
      OBVIOUS
    <2>2. /\ <<NS!ee, NS!es>> \in Seq(K) /\ NS!se \in K /\ Chained \in Seq(K)
          /\ Len(<<NS!ee, NS!es>>) = 2 /\ Len(Chained) = 3
          /\ Chained[1] = NS!ee /\ Chained[2] = NS!es /\ Chained[3] = NS!se
      BY <2>1 DEF Chained
    <2>3. ASSUME NEW q \in Seq(K), Len(q) = 2, NEW k \in K
          PROVE  /\ Append(q, k) \in Seq(K) /\ Len(Append(q, k)) = 3
                 /\ Append(q, k)[1] = q[1] /\ Append(q, k)[2] = q[2] /\ Append(q, k)[3] = k
      <3>1. /\ Append(q, k) \in Seq(K) /\ Len(Append(q, k)) = Len(q) + 1
            /\ \A i \in 1..Len(q) : Append(q, k)[i] = q[i]
            /\ Append(q, k)[Len(q) + 1] = k
        OBVIOUS
      <3>. QED  BY <2>3, <3>1
    <2>4. PICK r \in Seq(K) : /\ r = Append(<<NS!ee, NS!es>>, NS!se) /\ Len(r) = 3
                              /\ r[1] = NS!ee /\ r[2] = NS!es /\ r[3] = NS!se
      BY <2>2, <2>3
    <2>5. Chained = r
      BY <2>2, <2>4, SeqEqual
    <2>. QED  BY <1>2, <2>4, <2>5
  <1>4. /\ UNCHANGED <<server.received, server.posted>>
        /\ server' = [at |-> server'.at, h |-> server'.h, ck |-> server'.ck,
                      received |-> server'.received, posted |-> server'.posted]
        /\ \/ server'.at = "refused" /\ counting
           \/ server'.at = "open" /\ server'.h = Agreed /\ server'.ck = Chained
    <2>1. CASE counting
      <3>1. ClientKey.nonce = 0 /\ \A k, a : NS!Cipher(k, 1, a).nonce = 1
        BY DEF ClientKey, NS!Cipher
      <3>2. server' = [server EXCEPT !.at = "refused"]
        BY <1>1, <1>2, <2>1, <3>1 DEF NS!ServerAccept
      <3>. QED  BY <1>2, <2>1, <3>2 DEF NoiseTypes
    <2>2. CASE ~counting
      <3>1. /\ NS!Cipher(server.ck, 0, server.h) = ClientKey
            /\ NS!Cipher(Append(server.ck, NS!se), 0, Append(server.h, ClientKey)) = Payload
        BY <1>2, <1>3 DEF ClientKey, Payload
      <3>2. server' = [server EXCEPT !.at = "open", !.h = server.h \o <<ClientKey, Payload>>,
                                     !.ck = Chained]
        BY <1>1, <1>2, <1>3, <2>2, <3>1 DEF NS!ServerAccept
      <3>3. server.h \o <<ClientKey, Payload>> = Agreed
        BY <1>2 DEF Agreed
      <3>. QED  BY <1>2, <3>2, <3>3 DEF NoiseTypes
    <2>. QED  BY <2>1, <2>2
  <1>5. NoiseTypes'
    BY <1>1, <1>2, <1>4 DEF NoiseTypes
  <1>6. Sends' /\ Arrives'
    BY <1>1, <1>2, <1>4 DEF Sends, Arrives
  <1>7. Receives'
    <2>1. (IF NS!Mutex THEN Len(used) - 2 ELSE Len(used) - 3) = 0
      BY <1>1, <1>2 DEF Receives, Sends, NS!Mutex
    <2>2. NS!Mutex' <=> NS!Mutex
      BY <1>1 DEF NS!Mutex
    <2>3. 0 % CounterSize = 0
      BY FrameTypes
    <2>. QED  BY <1>1, <1>2, <1>4, <2>1, <2>2, <2>3 DEF Receives
  <1>. QED  BY <1>1, <1>5, <1>6, <1>7 DEF NoiseInv

LEMMA FrameEnciphered ==
    ASSUME NS!NoiseAssumption, NoiseInv, NEW c \in Senders, NS!Encrypt(c) PROVE NoiseInv'
  <1>1. /\ at = "open" /\ used # <<>> /\ NS!Mutex /\ pending[c] = None
        /\ UNCHANGED <<at, h, ck, recvCounter, dropped, counting, server, inbound, opened>>
    BY DEF NS!Encrypt, NS!Enciphered, NoiseInv, Greets
  <1>2. Sends /\ Receives /\ Arrives /\ NoiseTypes
    BY <1>1 DEF NoiseInv
  <1>3. PICK n \in Nat : n = Len(used) - 2
    BY <1>2 DEF NoiseTypes, Sends
  <1>4. PICK f \in Ciphers(Out) : f = FrameAt(Out, n)
    BY FrameTypes
  <1>5. f # None
    BY <1>4, FrameTypes
  <1>6. /\ pending' = [pending EXCEPT ![c] = f] /\ used' = Append(used, f)
        /\ sendCounter' = (sendCounter + 1) % CounterSize
    <2>1. NS!Cipher(NS!SendKey(ck), sendCounter, <<>>) = f
      BY <1>2, <1>3, <1>4 DEF Sends, FrameAt, Out
    <2>. QED  BY <2>1 DEF NS!Encrypt, NS!Enciphered
  <1>7. /\ Len(used) = n + 2 /\ Len(used') = n + 3 /\ used'[n + 3] = f
        /\ \A i \in 1..(n + 2) : used'[i] = used[i]
        /\ used' \in Seq(Ciphers(Out) \cup {ClientKey, Payload})
    BY <1>2, <1>3, <1>6 DEF NoiseTypes
  <1>8. sendCounter' = (n + 1) % CounterSize /\ sendCounter' \in 0..(CounterSize - 1)
    <2>1. sendCounter = n % CounterSize
      BY <1>2, <1>3 DEF Sends
    <2>2. ((n % CounterSize) + 1) % CounterSize = (n + 1) % CounterSize
      BY FrameTypes, NextRemainder
    <2>3. (n + 1) % CounterSize \in 0..(CounterSize - 1)
      BY FrameTypes
    <2>. QED  BY <1>6, <2>1, <2>2, <2>3
  <1>9. /\ pending'[c] = f /\ pending' \in [Senders -> Ciphers(Out) \cup {None}]
        /\ \A d \in Senders \ {c} : pending'[d] = None
    BY <1>1, <1>2, <1>6 DEF NoiseTypes, NS!Mutex
  <1>10. NoiseTypes'
    BY <1>1, <1>2, <1>7, <1>8, <1>9 DEF NoiseTypes
  <1>11. Sends'
    <2>1. \A i \in 3..(n + 3) : used'[i] = FrameAt(Out, i - 3)
      <3>1. ASSUME NEW i \in 3..(n + 3), i # n + 3 PROVE used'[i] = FrameAt(Out, i - 3)
        <4>1. i \in 3..Len(used) /\ used'[i] = used[i]
          BY <1>7, <3>1
        <4>. QED  BY <1>2, <4>1 DEF Sends
      <3>2. (n + 3) - 3 = n
        OBVIOUS
      <3>. QED  BY <1>4, <1>7, <3>1, <3>2
    <2>2. used'[1] = ClientKey /\ used'[2] = Payload
      BY <1>2, <1>7 DEF Sends
    <2>3. (n + 3) - 2 = n + 1
      OBVIOUS
    <2>4. sendCounter' = (Len(used') - 2) % CounterSize
      BY <1>7, <1>8, <2>3
    <2>5. \A d \in Senders : pending'[d] # None =>
             /\ Len(used') > 2 /\ pending'[d] = used'[Len(used')]
             /\ \A e \in Senders : pending'[e] # None => d = e
      BY <1>7, <1>9
    <2>. QED  BY <1>1, <1>2, <1>7, <2>1, <2>2, <2>4, <2>5 DEF Sends
  <1>12. Receives'
    <2>1. ~NS!Mutex'
      BY <1>5, <1>9 DEF NS!Mutex
    <2>2. server.at = "answered" => Len(used) = 2
      BY <1>1, <1>2 DEF Receives
    <2>3. Len(used') - 3 = Len(used) - 2 /\ (Len(used) = 2 => Len(used') = 3)
      BY <1>7
    <2>4. server.at = "open" /\ dropped = 0 => server.received = (Len(used') - 3) % CounterSize
      BY <1>1, <1>2, <2>3 DEF Receives
    <2>. QED  BY <1>1, <1>2, <2>1, <2>2, <2>3, <2>4 DEF Receives
  <1>13. Arrives'
    BY <1>1, <1>2 DEF Arrives
  <1>. QED  BY <1>7, <1>10, <1>11, <1>12, <1>13 DEF NoiseInv

LEMMA FrameSent ==
    ASSUME NS!NoiseAssumption, NoiseInv, NEW c \in Senders, NS!SendFrame(c) PROVE NoiseInv'
  <1>1. /\ pending[c] # None /\ server.at # "answered" /\ used # <<>>
        /\ pending' = [pending EXCEPT ![c] = None]
        /\ UNCHANGED <<at, h, ck, sendCounter, recvCounter, used, counting, inbound, opened>>
    BY DEF NS!SendFrame, NoiseInv, Greets
  <1>2. Sends /\ Receives /\ Arrives /\ NoiseTypes
    BY <1>1 DEF NoiseInv
  <1>3. PICK n \in Nat : n = Len(used) - 3
    BY <1>1, <1>2 DEF NoiseTypes, Sends
  <1>4. /\ pending[c] = FrameAt(Out, n) /\ \A d \in Senders : pending'[d] = None
        /\ pending' \in [Senders -> Ciphers(Out) \cup {None}]
    <2>1. Len(used) \in 3..Len(used)
      BY <1>3
    <2>2. pending[c] = FrameAt(Out, n)
      BY <1>1, <1>2, <1>3, <2>1 DEF Sends
    <2>3. \A d \in Senders : pending[d] # None => d = c
      BY <1>1, <1>2 DEF Sends
    <2>. QED  BY <1>1, <1>2, <2>2, <2>3 DEF NoiseTypes
  <1>5. NS!Mutex' /\ ~NS!Mutex
    BY <1>1, <1>4 DEF NS!Mutex
  <1>6. Sends'
    BY <1>1, <1>2, <1>4 DEF Sends
  <1>7. CASE dropped' = dropped + 1 /\ UNCHANGED server
    <2>1. NoiseTypes' /\ Arrives'
      BY <1>1, <1>2, <1>4, <1>7 DEF NoiseTypes, Arrives
    <2>2. dropped \in Nat /\ dropped' # 0 /\ dropped' > 0
      BY <1>2, <1>7 DEF NoiseTypes
    <2>3. Receives'
      BY <1>1, <1>2, <1>7, <2>2 DEF Receives
    <2>. QED  BY <1>1, <1>6, <2>1, <2>3 DEF NoiseInv
  <1>8. CASE /\ server.at = "open" /\ dropped' = dropped
             /\ server' = IF pending[c] = NS!Cipher(NS!SendKey(server.ck), server.received, <<>>)
                          THEN [server EXCEPT !.received = (@ + 1) % CounterSize]
                          ELSE [server EXCEPT !.at = "refused"]
    <2>1. dropped = 0 => server.received = n % CounterSize
      <3>1. Len(used) - 3 = n
        BY <1>3
      <3>. QED  BY <1>2, <1>5, <1>8, <3>1 DEF Receives
    <2>2. /\ server.received \in 0..(CounterSize - 1) /\ dropped \in Nat
          /\ server.h = Agreed /\ server.ck = Chained
      BY <1>2, <1>8 DEF NoiseTypes, Receives
    <2>3. (server.received + 1) % CounterSize \in 0..(CounterSize - 1)
      <3>1. server.received + 1 \in Nat
        BY <2>2, FrameTypes
      <3>. QED  BY <3>1, FrameTypes
    <2>4. dropped = 0 => (server.received + 1) % CounterSize = (n + 1) % CounterSize
      BY <2>1, FrameTypes, NextRemainder
    <2>5. CASE pending[c] = NS!Cipher(NS!SendKey(server.ck), server.received, <<>>)
      <3>1. /\ server'.received = (server.received + 1) % CounterSize
            /\ server'.at = "open" /\ server'.h = server.h /\ server'.ck = server.ck
            /\ server'.posted = server.posted
            /\ server' = [at |-> server'.at, h |-> server'.h, ck |-> server'.ck,
                          received |-> server'.received, posted |-> server'.posted]
        BY <1>2, <1>8, <2>5 DEF NoiseTypes
      <3>2. NoiseTypes'
        BY <1>1, <1>2, <1>4, <1>8, <2>3, <3>1 DEF NoiseTypes
      <3>3. Len(used') - 2 = n + 1
        BY <1>1, <1>3
      <3>4. Receives'
        BY <1>1, <1>5, <1>8, <2>2, <2>4, <3>1, <3>3 DEF Receives
      <3>5. Arrives'
        BY <1>1, <1>2, <3>1 DEF Arrives
      <3>. QED  BY <1>1, <1>6, <3>2, <3>4, <3>5 DEF NoiseInv
    <2>6. CASE pending[c] # NS!Cipher(NS!SendKey(server.ck), server.received, <<>>)
      <3>1. /\ server'.at = "refused" /\ server'.received = server.received
            /\ server'.posted = server.posted
            /\ server' = [at |-> server'.at, h |-> server'.h, ck |-> server'.ck,
                          received |-> server'.received, posted |-> server'.posted]
        BY <1>2, <1>8, <2>6 DEF NoiseTypes
      <3>2. dropped > 0
        <4>1. dropped # 0
          BY <1>4, <2>1, <2>2, <2>6 DEF FrameAt, Out
        <4>. QED  BY <2>2, <4>1
      <3>3. NoiseTypes'
        BY <1>1, <1>2, <1>4, <1>8, <3>1 DEF NoiseTypes
      <3>4. Receives'
        BY <1>1, <1>8, <3>1, <3>2 DEF Receives
      <3>5. Arrives'
        BY <1>1, <1>2, <3>1 DEF Arrives
      <3>. QED  BY <1>1, <1>6, <3>3, <3>4, <3>5 DEF NoiseInv
    <2>. QED  BY <2>5, <2>6
  <1>. QED  BY <1>7, <1>8 DEF NS!SendFrame

LEMMA FramePosted ==
    ASSUME NS!NoiseAssumption, NoiseInv, NEW form \in Forms, NS!Post(form) PROVE NoiseInv'
  <1>1. PICK x : x = [form |-> form, cipher |->
                         NS!Cipher(NS!RecvKey(server.ck), server.posted % CounterSize, <<>>)]
    OBVIOUS
  <1>2. /\ server.at = "open" /\ server.posted < MaxFrames /\ used # <<>>
        /\ inbound' = Append(inbound, x) /\ server' = [server EXCEPT !.posted = @ + 1]
        /\ UNCHANGED <<at, h, ck, sendCounter, recvCounter, pending, used, dropped, counting, opened>>
    BY <1>1 DEF NS!Post, NS!client, NoiseInv, Greets
  <1>3. Sends /\ Receives /\ Arrives /\ NoiseTypes
    BY <1>2 DEF NoiseInv
  <1>4. PICK m \in Nat, k \in Nat : m = Len(inbound) /\ k = Len(opened)
    <2>1. Len(inbound) \in Nat /\ Len(opened) \in Nat
      BY <1>3 DEF Arrives, NoiseTypes
    <2>. QED  BY <2>1
  <1>5. server.posted = k + m /\ server.ck = Chained
    BY <1>2, <1>3, <1>4 DEF Arrives, Receives
  <1>6. x = [form |-> form, cipher |-> FrameAt(In, k + m)] /\ FrameAt(In, k + m) \in Ciphers(In)
    <2>1. x = [form |-> form, cipher |-> FrameAt(In, k + m)]
      BY <1>1, <1>5 DEF FrameAt, In
    <2>2. k + m \in Nat
      OBVIOUS
    <2>. QED  BY <2>1, <2>2, FrameTypes
  <1>7. x \in [form : Forms, cipher : Ciphers(In)] /\ x.cipher = FrameAt(In, k + m)
    BY <1>6
  <1>8. /\ inbound' \in Seq([form : Forms, cipher : Ciphers(In)]) /\ Len(inbound') = m + 1
        /\ inbound'[m + 1] = x /\ \A i \in 1..m : inbound'[i] = inbound[i]
    BY <1>2, <1>3, <1>4, <1>7 DEF Arrives
  <1>9. /\ server'.posted = server.posted + 1 /\ server'.at = server.at /\ server'.h = server.h
        /\ server'.ck = server.ck /\ server'.received = server.received
        /\ server' = [at |-> server'.at, h |-> server'.h, ck |-> server'.ck,
                      received |-> server'.received, posted |-> server'.posted]
    BY <1>2, <1>3 DEF NoiseTypes
  <1>10. NoiseTypes'
    <2>1. server'.posted \in 0..MaxFrames
      BY <1>2, <1>3, <1>9, FrameTypes DEF NoiseTypes
    <2>. QED  BY <1>2, <1>3, <1>9, <2>1 DEF NoiseTypes
  <1>11. Sends'
    BY <1>2, <1>3 DEF Sends
  <1>12. Receives'
    <2>1. NS!Mutex' <=> NS!Mutex
      BY <1>2 DEF NS!Mutex
    <2>. QED  BY <1>2, <1>3, <1>9, <2>1 DEF Receives
  <1>13. Arrives'
    <2>1. \A i \in DOMAIN inbound' : inbound'[i].cipher = FrameAt(In, Len(opened') + i - 1)
      <3>1. ASSUME NEW i \in 1..m PROVE inbound'[i].cipher = FrameAt(In, k + i - 1)
        <4>1. i \in DOMAIN inbound /\ inbound'[i] = inbound[i]
          BY <1>3, <1>4, <1>8 DEF Arrives
        <4>. QED  BY <1>3, <1>4, <4>1 DEF Arrives
      <3>2. k + (m + 1) - 1 = k + m
        OBVIOUS
      <3>3. inbound'[m + 1].cipher = FrameAt(In, k + (m + 1) - 1)
        BY <1>7, <1>8, <3>2
      <3>4. ASSUME NEW i \in 1..(m + 1) PROVE inbound'[i].cipher = FrameAt(In, k + i - 1)
        <4>1. i \in 1..m \/ i = m + 1
          OBVIOUS
        <4>. QED  BY <3>1, <3>3, <4>1
      <3>5. DOMAIN inbound' = 1..(m + 1) /\ Len(opened') = k
        BY <1>2, <1>4, <1>8
      <3>. QED  BY <3>4, <3>5
    <2>2. server'.posted = Len(opened') + Len(inbound')
      BY <1>2, <1>4, <1>5, <1>8, <1>9
    <2>. QED  BY <1>2, <1>3, <1>8, <2>1, <2>2 DEF Arrives
  <1>. QED  BY <1>2, <1>10, <1>11, <1>12, <1>13 DEF NoiseInv

LEMMA FrameReceived == ASSUME NS!NoiseAssumption, NoiseInv, NS!RecvNode PROVE NoiseInv'
  <1>1. PICK f : f = Head(inbound)
    OBVIOUS
  <1>2. PICK ok : ok = (f.form # "lookalike" /\ f.cipher = NS!Cipher(NS!RecvKey(ck), recvCounter, <<>>))
    OBVIOUS
  <1>3. /\ at = "open" /\ inbound # <<>> /\ inbound' = Tail(inbound) /\ used # <<>>
        /\ recvCounter' = (recvCounter + 1) % CounterSize
        /\ opened' = Append(opened, [form |-> f.form, ok |-> ok])
        /\ at' \in {"open", "failed"}
        /\ UNCHANGED <<h, ck, sendCounter, pending, used, dropped, counting, server>>
    BY <1>1, <1>2 DEF NS!RecvNode, NS!Count, NoiseInv, Greets
  <1>4. Sends /\ Receives /\ Arrives /\ NoiseTypes
    BY <1>3 DEF NoiseInv
  <1>5. PICK m \in Nat, k \in Nat : m + 1 = Len(inbound) /\ k = Len(opened)
    <2>1. /\ Len(inbound) \in Nat /\ Len(inbound) # 0 /\ Len(opened) \in Nat
      BY <1>3, <1>4 DEF Arrives, NoiseTypes
    <2>2. ASSUME NEW x \in Nat, x # 0 PROVE x - 1 \in Nat /\ (x - 1) + 1 = x
      BY <2>2
    <2>3. Len(inbound) - 1 \in Nat /\ (Len(inbound) - 1) + 1 = Len(inbound)
      BY <2>1, <2>2
    <2>. QED  BY <2>1, <2>3
  <1>6. f = inbound[1] /\ f.form \in Forms /\ f.cipher = FrameAt(In, k)
    <2>1. 1 \in DOMAIN inbound /\ k + 1 - 1 = k
      BY <1>4, <1>5 DEF Arrives
    <2>2. f = inbound[1]
      BY <1>1, <1>3, <1>4 DEF Arrives
    <2>3. inbound[1].cipher = FrameAt(In, k + 1 - 1)
      BY <1>4, <1>5, <2>1 DEF Arrives
    <2>4. inbound[1] \in [form : Forms, cipher : Ciphers(In)]
      <3>1. inbound \in Seq([form : Forms, cipher : Ciphers(In)])
        BY <1>4 DEF Arrives
      <3>2. ASSUME NEW S, NEW q \in Seq(S), 1 \in DOMAIN q PROVE q[1] \in S
        BY <3>2
      <3>. QED  BY <2>1, <3>1, <3>2
    <2>. QED  BY <2>1, <2>2, <2>3, <2>4
  <1>7. ok = (f.form # "lookalike")
    <2>1. NS!Cipher(NS!RecvKey(ck), recvCounter, <<>>) = FrameAt(In, k)
      BY <1>4, <1>5 DEF Sends, Arrives, FrameAt, In
    <2>. QED  BY <1>2, <1>6, <2>1
  <1>8. recvCounter' = (k + 1) % CounterSize /\ recvCounter' \in 0..(CounterSize - 1)
    <2>1. recvCounter = k % CounterSize
      BY <1>4, <1>5 DEF Arrives
    <2>2. ((k % CounterSize) + 1) % CounterSize = (k + 1) % CounterSize
      BY FrameTypes, NextRemainder
    <2>3. (k + 1) % CounterSize \in 0..(CounterSize - 1)
      BY FrameTypes
    <2>. QED  BY <1>3, <2>1, <2>2, <2>3
  <1>9. PICK y : y = [form |-> f.form, ok |-> ok]
    OBVIOUS
  <1>10. y \in [form : Forms, ok : BOOLEAN] /\ (y.ok <=> y.form # "lookalike")
    BY <1>6, <1>7, <1>9
  <1>11. /\ opened' \in Seq([form : Forms, ok : BOOLEAN]) /\ Len(opened') = k + 1
         /\ opened'[k + 1] = y /\ \A i \in 1..k : opened'[i] = opened[i]
    BY <1>3, <1>4, <1>5, <1>9, <1>10 DEF NoiseTypes
  <1>12. /\ inbound' \in Seq([form : Forms, cipher : Ciphers(In)]) /\ Len(inbound') = m
         /\ \A i \in 1..m : inbound'[i] = inbound[i + 1]
    BY <1>3, <1>4, <1>5 DEF Arrives
  <1>13. NoiseTypes'
    BY <1>3, <1>4, <1>8, <1>11 DEF NoiseTypes
  <1>14. Sends'
    BY <1>3, <1>4 DEF Sends
  <1>15. Receives'
    <2>1. NS!Mutex' <=> NS!Mutex
      BY <1>3 DEF NS!Mutex
    <2>. QED  BY <1>3, <1>4, <2>1 DEF Receives
  <1>16. Arrives'
    <2>1. ASSUME NEW i \in 1..m PROVE inbound'[i].cipher = FrameAt(In, (k + 1) + i - 1)
      <3>1. i + 1 \in DOMAIN inbound /\ k + (i + 1) - 1 = (k + 1) + i - 1
        BY <1>4, <1>5 DEF Arrives
      <3>2. inbound[i + 1].cipher = FrameAt(In, k + (i + 1) - 1)
        BY <1>4, <1>5, <3>1 DEF Arrives
      <3>. QED  BY <1>12, <3>1, <3>2
    <2>2. ASSUME NEW i \in 1..(k + 1) PROVE opened'[i].ok <=> opened'[i].form # "lookalike"
      <3>1. CASE i = k + 1
        BY <1>10, <1>11, <3>1
      <3>2. CASE i # k + 1
        <4>1. i \in 1..k /\ i \in DOMAIN opened /\ opened'[i] = opened[i]
          BY <1>4, <1>5, <1>11, <3>2 DEF NoiseTypes
        <4>. QED  BY <1>4, <4>1 DEF Arrives
      <3>. QED  BY <3>1, <3>2
    <2>3. server'.posted = Len(opened') + Len(inbound')
      BY <1>3, <1>4, <1>5, <1>11, <1>12 DEF Arrives
    <2>4. DOMAIN inbound' = 1..m /\ DOMAIN opened' = 1..(k + 1)
      BY <1>11, <1>12
    <2>5. \A i \in DOMAIN inbound' : inbound'[i].cipher = FrameAt(In, Len(opened') + i - 1)
      BY <1>11, <2>1, <2>4
    <2>6. \A i \in DOMAIN opened' : opened'[i].ok <=> opened'[i].form # "lookalike"
      BY <2>2, <2>4
    <2>. QED  BY <1>8, <1>11, <1>12, <2>3, <2>5, <2>6 DEF Arrives
  <1>. QED  BY <1>3, <1>13, <1>14, <1>15, <1>16 DEF NoiseInv

LEMMA NoiseNext ==
    ASSUME NS!NoiseAssumption, NoiseInv, [NS!Next]_(NS!vars) PROVE NoiseInv'
  <1>1. CASE UNCHANGED NS!vars
    BY <1>1 DEF NS!vars, NS!client, NoiseInv, NoiseTypes, Greets, Sends, Receives, Arrives, NS!Mutex
  <1>2. CASE \E form \in {"framed", "bare", "lookalike"} : NS!Post(form)
    BY <1>2, FramePosted DEF Forms
  <1>. QED  BY <1>1, <1>2, Greeted, Finished, Accepted, FrameEnciphered, FrameSent, FrameReceived
         DEF NS!Next

LEMMA NoiseInStep == ASSUME NS!NoiseAssumption, NoiseInv PROVE NS!InStep
  <1>1. /\ server.at = "open" => server.h = h /\ server.ck = ck
        /\ server.at = "refused" => counting \/ dropped > 0
        /\ \A i \in DOMAIN opened : opened[i].ok <=> opened[i].form # "lookalike"
    BY DEF NoiseInv, Greets, Sends, Receives, Arrives
  <1>2. ASSUME NEW i \in DOMAIN used, NEW j \in DOMAIN used, i < j, used[i] = used[j]
        PROVE  j - i >= CounterSize
    <2>1. used # <<>> /\ Sends /\ NoiseTypes
      <3>1. used # <<>>
        BY <1>2
      <3>. QED  BY <3>1 DEF NoiseInv
    <2>2. i \in Nat \ {0} /\ j \in Nat \ {0} /\ i <= Len(used) /\ j <= Len(used) /\ Len(used) \in Nat
      BY <1>2, <2>1 DEF NoiseTypes
    <2>3. ASSUME NEW l \in 3..Len(used) PROVE used[l] \in Ciphers(Out)
      <3>1. l - 3 \in Nat /\ used[l] = FrameAt(Out, l - 3)
        BY <2>1, <2>2 DEF Sends
      <3>. QED  BY <3>1, FrameTypes
    <2>4. used[1] = ClientKey /\ used[2] = Payload
      BY <2>1 DEF Sends
    <2>5. i > 2
      <3>1. i # 1
        <4>1. j = 2 \/ j \in 3..Len(used)
          BY <1>2, <2>2
        <4>. QED  BY <1>2, <2>3, <2>4, <4>1, HandshakeParts
      <3>2. i # 2
        <4>1. i = 2 => j \in 3..Len(used)
          BY <1>2, <2>2
        <4>. QED  BY <1>2, <2>3, <2>4, <4>1, HandshakeParts
      <3>. QED  BY <2>2, <3>1, <3>2
    <2>6. used[i] = FrameAt(Out, i - 3) /\ used[j] = FrameAt(Out, j - 3)
      <3>1. i \in 3..Len(used) /\ j \in 3..Len(used)
        BY <1>2, <2>2, <2>5
      <3>. QED  BY <2>1, <3>1 DEF Sends
    <2>7. (i - 3) % CounterSize = (j - 3) % CounterSize
      <3>1. used[i].nonce = (i - 3) % CounterSize /\ used[j].nonce = (j - 3) % CounterSize
        BY <2>6 DEF FrameAt, NS!Cipher
      <3>. QED  BY <1>2, <3>1
    <2>8. i - 3 \in Nat /\ j - 3 \in Nat /\ i - 3 < j - 3 /\ (j - 3) - (i - 3) = j - i
      BY <1>2, <2>2, <2>5
    <2>9. CounterSize \in Nat \ {0}
      BY FrameTypes
    <2>10. (j - 3) - (i - 3) >= CounterSize
      BY <2>7, <2>8, <2>9, SameRemainder
    <2>. QED  BY <2>8, <2>10
  <1>. QED  BY <1>1, <1>2 DEF NS!InStep

LEMMA NoiseTypesSuffice == ASSUME NoiseInv PROVE NS!TypeOK
  BY DEF NoiseInv, NoiseTypes, NS!TypeOK

\* A connection of the WhatsApp client and its server stay in step through
\* the handshake and both ways of frames, whichever task sends: they agree on
\* their keys, the server refuses the client only if it counts its nonces or
\* a frame was lost, a frame fails to open only if it was taken for one with a
\* header, and no nonce comes again before its counter has come round
\* (Transport::connect, send_node and recv_node, transport.rs; noise.rs).
LEMMA ConnectionsInStep == ASSUME NS!NoiseAssumption PROVE EdgesSpec => []NS!InStep
  <1>1. EdgesInit => NoiseInv
    BY NoiseInit DEF EdgesInit
  <1>2. NoiseInv /\ [EdgesNext]_edgeVars => NoiseInv'
    BY Steps, NoiseNext
  <1>3. NoiseInv => NS!InStep
    BY NoiseInStep
  <1>. QED  BY <1>1, <1>2, <1>3, PTL DEF EdgesSpec

\* The WhatsApp client and its peers agree on their ciphers: the two lemmas
\* above together.  A save that fails or is cut by a crash counts in failedSaves,
\* and takes the second of them away (transport.rs, noise.rs, client.rs, store.rs).
THEOREM CiphersTheorem ==
    ASSUME L!RateLimiterAssumption, W!WebSocketsAssumption,
           SS!SignalSessionAssumption, NS!NoiseAssumption
    PROVE  EdgesSpec => []CiphersAgree
  <1>1. /\ EdgesSpec => []NS!InStep
        /\ EdgesSpec => [](~overlap /\ failedSaves = 0 => SS!KeysUsedOnce /\ SS!AllDecrypted)
    BY SessionsTakeTurns, ConnectionsInStep
  <1>2. /\ NS!InStep
        /\ (~overlap /\ failedSaves = 0 => SS!KeysUsedOnce /\ SS!AllDecrypted)
        => CiphersAgree
    BY DEF CiphersAgree
  <1>. QED  BY <1>1, <1>2, PTL

-----------------------------------------------------------------------------
(* The types of every part.                                                *)

LEMMA TypesSuffice ==
    ASSUME NoiseInv, SessionInv, RepliesInv, RpOwn, LimiterInv, GaugeInv, ReceiptsInv, CacheInv
    PROVE  /\ L!TypeOK /\ W!TypeOK /\ H!TypeOK /\ T!TypeOK
           /\ SS!TypeOK /\ RP!TypeOK /\ NS!TypeOK
  <1>1. L!TypeOK
    BY DEF LimiterInv, LimiterTypes, L!TypeOK, L!Times, Clock
  <1>2. W!TypeOK /\ T!TypeOK
    BY DEF GaugeInv, CacheInv
  <1>3. H!TypeOK
    BY DEF ReceiptsInv, HookTypes, H!TypeOK
  <1>4. SS!TypeOK
    BY DEF SessionInv, SessionTypes, Sessions, SS!TypeOK
  <1>. QED  BY <1>1, <1>2, <1>3, <1>4, RpTypes, NoiseTypesSuffice

LEMMA ListenerTypes ==
    ASSUME EdgesAssumption, [EdgesNext]_edgeVars,
           /\ part = "telegram" => TG!TypeOK
           /\ part = "discord" => DC!TypeOK
           /\ part = "slack" => SL!TypeOK
           /\ part = "matrix" => MX!TypeOK
           /\ part = "signal" => SG!TypeOK
           /\ part = "whatsapp" => WaInv
    PROVE  /\ part' = "telegram" => TG!TypeOK'
           /\ part' = "discord" => DC!TypeOK'
           /\ part' = "slack" => SL!TypeOK'
           /\ part' = "matrix" => MX!TypeOK'
           /\ part' = "signal" => SG!TypeOK'
           /\ part' = "whatsapp" => WaInv'
  <1>1. TG!ChannelsAssumption /\ MX!MatrixAssumption /\ SG!SignalAssumption
    BY DEF EdgesAssumption
  <1>2. UNCHANGED part
    BY Choice
  <1>3. part = "telegram" => TG!TypeOK'
    BY <1>1, ListenerSteps, TgTypesNext
  <1>4. part = "discord" => DC!TypeOK'
    BY <1>1, ListenerSteps, DcTypesNext
  <1>5. part = "slack" => SL!TypeOK'
    BY <1>1, ListenerSteps, SlTypesNext
  <1>6. part = "matrix" => MX!TypeOK'
    BY <1>1, ListenerSteps, MxTypesNext
  <1>7. part = "signal" => SG!TypeOK'
    BY <1>1, ListenerSteps, SgTypesNext
  <1>8. part = "whatsapp" => WaInv'
    BY <1>1, ListenerSteps, WaNext
  <1>. QED  BY <1>2, <1>3, <1>4, <1>5, <1>6, <1>7, <1>8

\* Every variable keeps its type, whichever part acts.
THEOREM EdgeTypes == ASSUME EdgesAssumption PROVE EdgesSpec => []TypeOK
  <1>. DEFINE Own == /\ NoiseInv /\ SessionInv /\ RepliesInv /\ RpOwn
                     /\ LimiterInv /\ GaugeInv /\ ReceiptsInv /\ CacheInv
              Listens == /\ part = "telegram" => TG!TypeOK
                         /\ part = "discord" => DC!TypeOK
                         /\ part = "slack" => SL!TypeOK
                         /\ part = "matrix" => MX!TypeOK
                         /\ part = "signal" => SG!TypeOK
                         /\ part = "whatsapp" => WaInv
  <1>1. /\ L!RateLimiterAssumption /\ W!WebSocketsAssumption /\ H!WebhooksAssumption
        /\ T!TeamsCredentialsAssumption /\ TG!ChannelsAssumption
        /\ SG!SignalAssumption /\ SS!SignalSessionAssumption /\ RP!RepliesAssumption
        /\ NS!NoiseAssumption
    BY DEF EdgesAssumption
  <1>2. EdgesInit => Own
    BY <1>1, NoiseInit, SessionInit, RepliesInit, RpOwnInit, LimiterInit, GaugeInit,
       ReceiptsInit, CacheInit DEF EdgesInit
  <1>3. EdgesInit => Listens
    BY <1>1, TgTypesInit, DcTypesInit, SlTypesInit, MxTypesInit, SgTypesInit, WaInit DEF EdgesInit
  <1>4. Own /\ [EdgesNext]_edgeVars => Own'
    <2>. SUFFICES ASSUME Own, [EdgesNext]_edgeVars PROVE Own'
      OBVIOUS
    <2>1. NoiseInv' /\ SessionInv'
      BY <1>1, Steps, NoiseNext, SessionNext
    <2>2. RepliesInv' /\ RpOwn'
      BY <1>1, Steps, RepliesNext, RpOwnNext
    <2>3. LimiterInv' /\ GaugeInv'
      BY <1>1, Steps, LimiterNext, GaugeNext
    <2>4. ReceiptsInv' /\ CacheInv'
      BY <1>1, Steps, ReceiptsNext, CacheNext
    <2>. QED  BY <2>1, <2>2, <2>3, <2>4
  <1>5. Listens /\ [EdgesNext]_edgeVars => Listens'
    BY ListenerTypes
  <1>6. Own /\ Listens => TypeOK
    BY TypesSuffice, WaTypes DEF TypeOK
  <1>. QED  BY <1>2, <1>3, <1>4, <1>5, <1>6, PTL DEF EdgesSpec
=============================================================================
