------------------------------- MODULE WaBinary -------------------------------
(***************************************************************************)
(* The codec of the WhatsApp client: encode and decode of a node, a tree   *)
(* of strings, and extract_qr_ref, which reads a decoded one.  A server    *)
(* encodes as this codec does.                                             *)
(*                                                                         *)
(* Abstractions: a frame is a sequence of marks, digits, tokens and blobs, *)
(* each with the bytes it takes; a string is a token of the dictionary, a  *)
(* JID at a server of the dictionary, or bytes of some length; the         *)
(* attributes come in the order of the map's iteration.                    *)
(***************************************************************************)
EXTENDS Integers, Sequences, SequencesExt

CONSTANTS Radix,    \* values of a byte: 256
          Nibble,   \* of its lower half: 16
          Nodes     \* what is encoded

VARIABLES node, frame, got

vars == <<node, frame, got>>

WaBinaryAssumption == Radix \in Nat /\ Nibble \in Nat /\ Nibble > 1 /\ Radix = Nibble * Nibble

-----------------------------------------------------------------------------
(* Strings, contents and nodes.                                            *)

Token(i)          == [kind |-> "token", index |-> i]
Jid(user, server) == [kind |-> "jid", user |-> user, server |-> server]
Raw(id, len)      == [kind |-> "raw", id |-> id, len |-> len]
Empty             == Raw("", 0)

Nothing       == [kind |-> "none"]
Binary(data)  == [kind |-> "binary", data |-> data]
Text(s)       == [kind |-> "text", text |-> s]
List(nodes)   == [kind |-> "list", nodes |-> nodes]

WaNode(tag, attrs, content) == [tag |-> tag, attrs |-> attrs, content |-> content]

-----------------------------------------------------------------------------
(* encode                                                                  *)

Symbol(is, value, bytes) == [is |-> is, value |-> value, bytes |-> bytes]
Mark(name)  == Symbol(name, 0, 1)
Digit(n)    == Symbol("digit", n, 1)
Bytes(buf)  == FoldLeft(LAMBDA n, s : n + s.bytes, 0, buf)

\* The last k digits of n.
Digits(n, k) == [i \in 1..k |-> Digit((n \div Radix ^ (k - i)) % Radix)]

ListStart(size) == CASE size = 0     -> <<Mark("LIST_EMPTY")>>
                     [] size \in 1..Radix - 1 -> <<Mark("LIST_8")>> \o Digits(size, 1)
                     [] OTHER        -> <<Mark("LIST_16")>> \o Digits(size, 2)

\* The first of the three digits keeps its lower half only.
Length20 == Nibble * Radix * Radix

\* Mutant: two digits hold what should be three.
ByteLengthOf16(len) == IF len < Radix THEN <<Mark("BINARY_8")>> \o Digits(len, 1)
                       ELSE <<Mark("BINARY_20"), Digit(0)>> \o Digits(len, 2)

ByteLength(len) == CASE len < Radix    -> <<Mark("BINARY_8")>> \o Digits(len, 1)
                     [] len \in Radix..Length20 - 1 -> <<Mark("BINARY_20")>> \o Digits(len, 3)
                     [] OTHER          -> <<Mark("BINARY_32")>> \o Digits(len, 4)

Blob(raw) == ByteLength(raw.len) \o <<Symbol("blob", raw, raw.len)>>

RECURSIVE WriteString(_), EncodeNode(_)

WriteString(s) ==
    CASE s.kind = "token" -> <<Symbol("token", s.index, 1)>>
      [] s.kind = "jid"   -> <<Mark("JID_PAIR")>> \o WriteString(s.user)
                                \o <<Symbol("token", s.server, 1)>>
      [] s.kind = "raw"   -> Blob(s)

EncodeNode(n) ==
    LET attrs == FlattenSeq([i \in DOMAIN n.attrs |->
                     WriteString(n.attrs[i][1]) \o WriteString(n.attrs[i][2])])
        size  == 1 + 2 * Len(n.attrs) + (IF n.content = Nothing THEN 0 ELSE 1)
        content == CASE n.content.kind = "none"   -> << >>
                     [] n.content.kind = "binary" -> Blob(n.content.data)
                     [] n.content.kind = "text"   -> WriteString(n.content.text)
                     [] n.content.kind = "list"   ->
                            ListStart(Len(n.content.nodes))
                              \o FlattenSeq([i \in DOMAIN n.content.nodes |->
                                                EncodeNode(n.content.nodes[i])])
    IN  ListStart(size) \o WriteString(n.tag) \o attrs \o content

\* The frame: flags and three digits of length.
EncodeFrame(n) == LET buf == EncodeNode(n) IN <<Digit(0)>> \o Digits(Bytes(buf), 3) \o buf

-----------------------------------------------------------------------------
(* decode: a reader takes what is left of the frame, and returns what it   *)
(* read with the rest, or fails.                                           *)

Read(val, rest) == [ok |-> TRUE, val |-> val, rest |-> rest]
Failed          == [ok |-> FALSE, val |-> 0, rest |-> << >>]
Then(r, Reader(_, _)) == IF r.ok THEN Reader(r.val, r.rest) ELSE Failed

ReadDigits(buf, k) ==
    IF Len(buf) < k \/ \E i \in 1..k : buf[i].is # "digit" THEN Failed
    ELSE Read(FoldLeft(LAMBDA n, s : n * Radix + s.value, 0, SubSeq(buf, 1, k)),
              SubSeq(buf, k + 1, Len(buf)))

ReadBytes(len, buf) ==
    IF buf # << >> /\ Head(buf).is = "blob" /\ Head(buf).bytes = len
    THEN Read(Head(buf).value, Tail(buf)) ELSE Failed

ReadListSize(buf) ==
    IF buf = << >> THEN Failed
    ELSE CASE Head(buf).is = "LIST_EMPTY" -> Read(0, Tail(buf))
           [] Head(buf).is = "LIST_8"     -> ReadDigits(Tail(buf), 1)
           [] Head(buf).is = "LIST_16"    -> ReadDigits(Tail(buf), 2)
           [] OTHER                       -> Failed

BinaryMarks == {"BINARY_8", "BINARY_20", "BINARY_32"}

ReadBlob(buf) ==
    CASE Head(buf).is = "BINARY_8"  -> Then(ReadDigits(Tail(buf), 1), ReadBytes)
      [] Head(buf).is = "BINARY_20" -> Then(ReadDigits(Tail(buf), 3),
                                            LAMBDA n, rest : ReadBytes(n % Length20, rest))
      [] Head(buf).is = "BINARY_32" -> Then(ReadDigits(Tail(buf), 4), ReadBytes)

RECURSIVE ReadString(_), ReadPairs(_, _), ReadNodes(_, _), DecodeNode(_)

ReadString(buf) ==
    IF buf = << >> THEN Failed
    ELSE CASE Head(buf).is = "token"      -> Read(Token(Head(buf).value), Tail(buf))
           [] Head(buf).is \in BinaryMarks -> ReadBlob(buf)
           [] Head(buf).is = "JID_PAIR"   ->
                  Then(ReadString(Tail(buf)), LAMBDA user, rest :
                       IF rest = << >> THEN Failed
                       ELSE Read(Jid(user, Head(rest).value), Tail(rest)))
           [] Head(buf).is = "LIST_EMPTY" -> Read(Empty, Tail(buf))
           [] OTHER                       -> Failed

ReadPairs(k, buf) ==
    IF k = 0 THEN Read(<< >>, buf)
    ELSE Then(ReadString(buf), LAMBDA key, r1 :
         Then(ReadString(r1), LAMBDA val, r2 :
         Then(ReadPairs(k - 1, r2), LAMBDA pairs, r3 :
              Read(<<<<key, val>>>> \o pairs, r3))))

ReadNodes(k, buf) ==
    IF k = 0 THEN Read(<< >>, buf)
    ELSE Then(DecodeNode(buf), LAMBDA n, r1 :
         Then(ReadNodes(k - 1, r1), LAMBDA nodes, r2 : Read(<<n>> \o nodes, r2)))

\* Whatever comes with a length is binary; an empty string is no content.
ReadContent(buf) ==
    IF buf = << >> THEN Read(Nothing, buf)
    ELSE CASE Head(buf).is \in {"LIST_8", "LIST_16"} ->
                  Then(ReadListSize(buf), LAMBDA k, r1 :
                  Then(ReadNodes(k, r1), LAMBDA nodes, r2 : Read(List(nodes), r2)))
           [] Head(buf).is \in BinaryMarks ->
                  Then(ReadBlob(buf), LAMBDA raw, rest : Read(Binary(raw), rest))
           [] OTHER ->
                  Then(ReadString(buf), LAMBDA s, rest :
                       Read(IF s = Empty THEN Nothing ELSE Text(s), rest))

DecodeNode(buf) ==
    Then(ReadListSize(buf), LAMBDA size, r1 :
    IF size = 0 THEN Failed ELSE
    Then(ReadString(r1), LAMBDA tag, r2 :
    Then(ReadPairs((size - 1) \div 2, r2), LAMBDA attrs, r3 :
    Then(IF size % 2 = 0 THEN ReadContent(r3) ELSE Read(Nothing, r3), LAMBDA content, r4 :
         Read(WaNode(tag, attrs, content), r4)))))

\* The first n bytes: a blob that is cut cannot be read.
RECURSIVE Cut(_, _)
Cut(buf, n) == IF buf = << >> \/ (n = 0 /\ Head(buf).bytes > 0) THEN << >>
               ELSE IF Head(buf).bytes > n THEN <<Mark("cut")>>
               ELSE <<Head(buf)>> \o Cut(Tail(buf), n - Head(buf).bytes)

\* A frame may be longer than its length says.
DecodeFrame(f) == LET len  == ReadDigits(Tail(f), 3).val
                      rest == SubSeq(f, 5, Len(f))
                  IN  IF Bytes(rest) < len THEN Failed ELSE DecodeNode(Cut(rest, len))

-----------------------------------------------------------------------------
(* extract_qr_ref: the text of a "ref" node, of one of its children or of  *)
(* theirs, in this order.                                                  *)

RefTag == Raw("ref", 1)
NoRef  == [kind |-> "none"]
Refs(n) == IF n.tag = RefTag /\ n.content.kind = "text" THEN <<n.content.text>> ELSE << >>
Children(n) == IF n.content.kind = "list" THEN n.content.nodes ELSE << >>

RefsBelow(n) == FlattenSeq([i \in DOMAIN Children(n) |-> Refs(Children(n)[i])
                   \o FlattenSeq([j \in DOMAIN Children(Children(n)[i]) |->
                                     Refs(Children(Children(n)[i])[j])])])
QrRef(n) == LET all == Refs(n) \o RefsBelow(n) IN IF all = << >> THEN NoRef ELSE all[1]

-----------------------------------------------------------------------------
Init == node \in Nodes /\ frame = << >> /\ got = Failed

Encode == /\ frame = << >> /\ frame' = EncodeFrame(node)
          /\ UNCHANGED <<node, got>>
Decode == /\ frame # << >> /\ ~got.ok /\ got' = DecodeFrame(frame)
          /\ UNCHANGED <<node, frame>>

Next == Encode \/ Decode

Spec == Init /\ [][Next]_vars

-----------------------------------------------------------------------------
TypeOK == node \in Nodes /\ got.ok \in BOOLEAN

\* Sizes that their digits hold.
RECURSIVE Fits(_)
Fits(n) == /\ 2 + 2 * Len(n.attrs) < Radix * Radix
           /\ Len(Children(n)) < Radix * Radix
           /\ \A i \in DOMAIN Children(n) : Fits(Children(n)[i])

\* What a node is after a round trip: a text that went with its length is
\* binary, and an empty list is no content.
RECURSIVE Normal(_)
Normal(n) ==
    [n EXCEPT !.content =
        CASE @.kind = "text" /\ @.text.kind = "raw" -> Binary(@.text)
          [] @.kind = "list" /\ @.nodes = << >>     -> Nothing
          [] @.kind = "list" /\ @.nodes # << >>     ->
                 List([i \in DOMAIN @.nodes |-> Normal(@.nodes[i])])
          [] OTHER -> @]

\* A node that fits its frame comes back as it was, but for such texts and
\* lists; and the reference of a pairing is found only if it is a word of the
\* dictionary or a JID of one of its servers.
RoundTrip ==
    frame # << >> /\ Fits(node) /\ Bytes(frame) < Radix ^ 3 + 4 =>
        /\ DecodeFrame(frame).ok
        /\ got.ok => got.val = Normal(node)
        /\ got.ok /\ QrRef(got.val) # NoRef => QrRef(node).kind \in {"token", "jid"}
=============================================================================
