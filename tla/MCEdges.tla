------------------------------- MODULE MCEdges -------------------------------
(* The edges of the gateway for TLC: what each platform sends and what may  *)
(* be configured, and the codec of the WhatsApp client beside the parts of  *)
(* Edges.                                                                   *)
EXTENDS Edges, TLC
LOCAL INSTANCE Functions

CONSTANTS Radix, Nibble

VARIABLES node, frame, got

codec  == <<node, frame, got>>
mcvars == <<edgeVars, codec>>

MCParts == {"limiter", "sockets", "webhooks", "teams", "telegram", "discord",
            "slack", "matrix", "signal", "whatsapp", "session", "noise",
            "codec", "replies"}

\* Two batches, one of two messages; every configuration of the four channels.
MCBatch == [b \in {"b1", "b2"} |-> IF b = "b1" THEN <<"m1", "m2">> ELSE <<"m3">>]
MCHooks == [channel : {"whatsapp", "slack", "telegram", "teams"},
            enabled : BOOLEAN, secret : BOOLEAN]

\* What the platforms send: accepted, and refused in every way.
MCTelegrams == { [from |-> "ann", text |-> TRUE], [from |-> "eve", text |-> TRUE],
                 [from |-> "none", text |-> TRUE], [from |-> "ann", text |-> FALSE] }
MCDiscords  == [bot : BOOLEAN, guild : {"g", "other"}, prefix : {"!"}, body : {TRUE}]
MCSlacks    == [bot : BOOLEAN, subtype : {FALSE}, text : {TRUE}]
MCFromUs    == [own : BOOLEAN, text : {TRUE}]
MCMatrices  == [own : BOOLEAN, text : {TRUE}, room : {"r1", "r2"}]
MCTexts     == [form : {"deciphered", "clear"}]

\* Nodes whose sizes and lengths are at each boundary of their digits, and the
\* references of a pairing, at each depth.
Word(i)  == [kind |-> "token", index |-> i]
Blob(n)  == [kind |-> "raw", id |-> "b", len |-> n]
JidAt(u) == [kind |-> "jid", user |-> u, server |-> 3]
TextOf(s) == [kind |-> "text", text |-> s]
ListOf(nodes) == [kind |-> "list", nodes |-> nodes]
NodeOf(tag, attrs, content) == [tag |-> tag, attrs |-> attrs, content |-> content]
Leaf(tag, content) == NodeOf(tag, << >>, content)
NoContent == [kind |-> "none"]
MCStrings == {Word(1), Blob(0), Blob(3), Blob(4), JidAt(Blob(2)), JidAt(Word(2))}
RefNodes  == {Leaf([kind |-> "raw", id |-> "ref", len |-> 1], TextOf(s)) : s \in MCStrings}
MCContents ==
    {NoContent} \cup {TextOf(s) : s \in MCStrings}
      \cup {[kind |-> "binary", data |-> Blob(n)] : n \in {0, 3, 4, 31, 32, 60, 64}}
      \cup {ListOf([i \in 1..k |-> Leaf(Word(1), NoContent)]) : k \in {0, 1, 3, 4, 15, 16}}
      \cup {ListOf(<<r>>) : r \in RefNodes}
      \cup {ListOf(<<Leaf(Word(1), NoContent), Leaf(Word(2), ListOf(<<r>>))>>) : r \in RefNodes}
MCAttrs == {<< >>, <<<<Word(4), Blob(3)>>>>,
            <<<<Word(4), Blob(3)>>, <<Blob(1), JidAt(Word(2))>>>>}
MCNodes == RefNodes \cup {NodeOf(Word(1), a, c) : a \in MCAttrs, c \in MCContents}
WB == INSTANCE WaBinary WITH Nodes <- MCNodes

\* Two channels configured in any way and the others all on or all off;
\* a chat of every kind, and those with more to their address than an id.
OneOf == {"whatsapp", "slack"}
Other == {"teams", "telegram", "signal"}
Platforms == OneOf \cup Other \cup {"discord", "matrix"}
MCConfigured ==
    { [k \in Platforms \cup {"webchat"} |-> IF k = a THEN x ELSE IF k = b THEN y ELSE z] :
        a \in OneOf, b \in Other, x \in {"off", "bare", "full"},
        y \in {"off", "bare", "full", "idle"}, z \in {"off", "full"} }
MCChats ==
    [kind : Platforms, id : {1}, form : {"direct"}, region : {"amer"}]
      \cup [kind : {"signal", "whatsapp"}, id : {2}, form : {"group"}, region : {"amer"}]
      \cup [kind : {"teams"}, id : {3}, form : {"direct"}, region : {"emea"}]
ASSUME EdgesAssumption /\ WB!WaBinaryAssumption

-----------------------------------------------------------------------------
\* A part that does not act starts in one state only.
MCInit == /\ EdgesInit
          /\ overlap \/ part \in {"limiter", "sockets", "session"}
          /\ part # "noise" => counting
          /\ part # "whatsapp" => paired
          /\ part # "replies" => channelsOn = [k \in RP!Kinds |-> "full"]
          /\ part # "webhooks" => setup = [channel |-> "slack", enabled |-> TRUE, secret |-> TRUE]
          /\ WB!Init /\ (part # "codec" => node = Leaf(Word(1), NoContent))

MCNext == \/ EdgesNext /\ UNCHANGED codec
          \/ part = "codec" /\ WB!Next /\ UNCHANGED edgeVars

MCSpec == MCInit /\ [][MCNext]_mcvars

-----------------------------------------------------------------------------
\* What the WhatsApp client writes is what is read: a node that fits its frame
\* comes back as it was, but for texts that become binary and empty lists.
WireIsFaithful == WB!TypeOK /\ WB!RoundTrip
=============================================================================
