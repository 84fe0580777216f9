------------------------------ MODULE ModelCalls ------------------------------
(***************************************************************************)
(* One call of a language model: ProviderRegistry::chat_completion, the    *)
(* retries of retry.rs, and what the three providers send and make of the  *)
(* answer.  The clients have no timeout of their own: an attempt lasts     *)
(* until the server answers or the connection fails.                       *)
(*                                                                         *)
(* Abstractions: of a model's name only the part before the "/"; of a      *)
(* message its role and where in the conversation it stands; of an answer  *)
(* what it is and the arguments of its tool calls; time in milliseconds.   *)
(***************************************************************************)
EXTENDS Integers, Sequences, SequencesExt, FiniteSets

CONSTANTS Setups,        \* configurations: [sections, keyed, model]
          Conversations, \* sequences of roles
          ModelPrefixes, \* of the model that the caller asks for
          Answers        \* what comes back: [kind, status, names, asks]

VARIABLES setup, asked,  \* the configuration and the request
          at,            \* "resolve", "send", "wait", "answered" or "failed"
          attempt,       \* retries made
          backoff,       \* the next wait
          result,        \* what the caller gets
          sent,          \* history: per attempt, what was sent and answered
          waits          \* history: the waits

vars == <<setup, asked, at, attempt, backoff, result, sent, waits>>

MaxRetries == 3
InitialBackoff == 500
MaxBackoff == 10000

-----------------------------------------------------------------------------
(* Which provider is asked.                                                *)

Canonical(name) == IF name = "kilocode" THEN "kilo" ELSE name

\* These are registered with a key only; an Ollama there always is.
NeedsKey == {"anthropic", "azure", "google", "openrouter", "kilo"}
Registered(c) == {n \in c.sections : n \in NeedsKey => n \in c.keyed} \cup {"ollama"}

\* parse_model: a model without a "/" is the custom provider's.
DefaultProvider(c) == Canonical(IF c.model = "plain" THEN "custom" ELSE c.model)

Resolved(c, prefix) == IF prefix = "plain" THEN DefaultProvider(c) ELSE Canonical(prefix)

-----------------------------------------------------------------------------
(* What it is sent: the messages by their positions, in their order.       *)

Prompts(conv) == {m \in DOMAIN conv : conv[m] = "system"}

\* to_openai_messages, to_ollama_messages.
AsTheyAre(conv) == [system |-> {}, messages |-> DOMAIN conv]

\* to_anthropic_messages: one system prompt, that of the last system message.
ToAnthropic(conv) ==
    [system   |-> {m \in Prompts(conv) : \A n \in Prompts(conv) : n <= m},
     messages |-> DOMAIN conv \ Prompts(conv)]

Wire(provider, conv) ==
    IF provider = "anthropic" THEN ToAnthropic(conv) ELSE AsTheyAre(conv)

-----------------------------------------------------------------------------
(* What comes back: an answer, a status with a text, or no response.  Of a *)
(* text only whether it names something that is_transient looks for, and   *)
(* of a 429 the wait that it asks for, if any.                             *)

Kinds == {"text", "calls", "garbled", "empty",          \* that parse
          "unparsable", "refusal", "timeout", "unreachable", "cut"}

ModelCallsAssumption ==
    /\ \A a \in Answers : a.kind \in Kinds /\ a.names \in BOOLEAN /\ a.asks \in Nat
    /\ Conversations \subseteq Seq({"system", "user", "assistant", "tool"})

\* map_provider_http_error: the variant of the error, and the wait that it
\* hands on with "RateLimited".
HttpError(a) == CASE a.status = 429 -> "RateLimited"
                  [] a.status \in {500, 502, 503, 504} -> "ProviderUnavailable"
                  [] a.status \in {401, 403} -> "Unauthorized"
                  [] OTHER -> IF a.names THEN "GatewayNaming" ELSE "Gateway"

NoHint == 0
Hint(a) == NoHint

\* map_provider_transport_error, and a response that cannot be read.
ErrorOf(a) == CASE a.kind = "refusal"     -> HttpError(a)
                [] a.kind = "timeout"     -> "Timeout"
                [] a.kind = "unreachable" -> "ProviderUnavailable"
                [] OTHER                  -> "Gateway"

\* Error::is_transient: by the variant, or by what a gateway error's text names.
Transient(e) ==
    e \in {"RateLimited", "ProviderUnavailable", "Timeout", "GatewayNaming"}

\* An empty list of choices is an error with the OpenAI protocol only;
\* arguments that do not parse are null there, and elsewhere are no strings.
Understood(provider, a) == \/ a.kind \in {"text", "calls", "garbled"}
                           \/ a.kind = "empty" /\ provider \in {"anthropic", "ollama"}
Arguments(a) == CASE a.kind = "calls" -> "given" [] a.kind = "garbled" -> "null"
                  [] OTHER -> "none"

-----------------------------------------------------------------------------
Provider == Resolved(setup, asked.prefix)
Pending  == UNCHANGED <<setup, asked>>

Resolve ==
    /\ at = "resolve"
    /\ IF Provider \in Registered(setup)
       THEN at' = "send" /\ UNCHANGED result
       ELSE at' = "failed" /\ result' = "Gateway"
    /\ Pending /\ UNCHANGED <<attempt, backoff, sent, waits>>

\* Anthropic is asked nothing without a message.
Speechless == Provider = "anthropic" /\ Wire(Provider, asked.conv).messages = {}

NothingToSend ==
    /\ at = "send" /\ Speechless
    /\ at' = "failed" /\ result' = "Gateway"
    /\ Pending /\ UNCHANGED <<attempt, backoff, sent, waits>>

Sends(a) ==
    /\ at = "send" /\ ~Speechless
    /\ sent' = Append(sent, [wire |-> Wire(Provider, asked.conv), answer |-> a])

Succeed(a) ==
    /\ Understood(Provider, a) /\ Sends(a)
    /\ at' = "answered" /\ result' = Arguments(a)
    /\ Pending /\ UNCHANGED <<attempt, backoff, waits>>

\* Mutant: one retry too many.
MayRetryOnceMore(a) == Transient(ErrorOf(a)) /\ attempt <= MaxRetries

MayRetry(a) == Transient(ErrorOf(a)) /\ attempt < MaxRetries

Retry(a) ==
    /\ ~Understood(Provider, a) /\ MayRetry(a) /\ Sends(a)
    /\ attempt' = attempt + 1 /\ at' = "wait"
    /\ Pending /\ UNCHANGED <<backoff, result, waits>>

GiveUp(a) ==
    /\ ~Understood(Provider, a) /\ ~MayRetry(a) /\ Sends(a)
    /\ at' = "failed" /\ result' = ErrorOf(a)
    /\ Pending /\ UNCHANGED <<attempt, backoff, waits>>

Capped(time) == IF time < MaxBackoff THEN time ELSE MaxBackoff

\* retry_with_backoff waits as the error hints, or as long as it backs off.
WaitFor(a, doubled) ==
    IF ErrorOf(a) = "RateLimited" /\ Hint(a) # NoHint THEN Capped(Hint(a)) ELSE doubled

\* The wait is over, and the next one doubled whichever it was.
Resume ==
    /\ at = "wait" /\ at' = "send"
    /\ waits' = Append(waits, WaitFor(Last(sent).answer, backoff))
    /\ backoff' = Capped(2 * backoff)
    /\ Pending /\ UNCHANGED <<attempt, result, sent>>

Init == /\ setup \in Setups
        /\ asked \in [prefix : ModelPrefixes, conv : Conversations]
        /\ at = "resolve" /\ attempt = 0 /\ backoff = InitialBackoff
        /\ result = "none" /\ sent = << >> /\ waits = << >>

Next == \/ Resolve \/ NothingToSend \/ Resume
        \/ \E a \in Answers : Succeed(a) \/ Retry(a) \/ GiveUp(a)

Spec == Init /\ [][Next]_vars

-----------------------------------------------------------------------------
TypeOK == /\ at \in {"resolve", "send", "wait", "answered", "failed"}
          /\ attempt \in 0..MaxRetries /\ backoff \in InitialBackoff..MaxBackoff
          /\ Len(waits) <= attempt /\ Len(sent) <= MaxRetries + 1

\* A request is sent again only after a failure that may pass, with the same
\* messages; between two attempts lies the wait that the failure hints at, or
\* one that doubles with every attempt.  What is sent leaves out no message but
\* the system messages before the last one, and the caller is told what came
\* of the last attempt.
SendsAccounted ==
    /\ \A i \in DOMAIN sent :
           /\ i < Len(sent) => Transient(ErrorOf(sent[i].answer))
           /\ sent[i].wire = sent[1].wire
           /\ \A m \in DOMAIN asked.conv :
                  \/ m \in sent[i].wire.system \cup sent[i].wire.messages
                  \/ \E n \in DOMAIN asked.conv :
                         n > m /\ asked.conv[m] = "system" /\ asked.conv[n] = "system"
    /\ Len(sent) <= MaxRetries + 1
    /\ Len(waits) <= Len(sent)
    /\ \A i \in DOMAIN waits :
           waits[i] = WaitFor(sent[i].answer, CASE i = 1 -> InitialBackoff
                                                [] i = 2 -> 2 * InitialBackoff
                                                [] OTHER -> 4 * InitialBackoff)
    /\ at = "answered" => Understood(Provider, Last(sent).answer)
    /\ at = "failed" /\ sent # << >> => result = ErrorOf(Last(sent).answer)

\* A 429 that asks for a wait is waited for so long, up to the most.
HintsAreKept ==
    \A i \in DOMAIN waits :
       LET a == sent[i].answer IN a.status = 429 /\ a.asks # NoHint => waits[i] = Capped(a.asks)
=============================================================================
