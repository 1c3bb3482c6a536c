---------------------------- MODULE Conversation ----------------------------
(***************************************************************************)
(* A conversation with tools across the dialects (convert.py, without      *)
(* streaming).  The client keeps the transcript in its own dialect and     *)
(* sends all of it with every request; the gateway converts it for the     *)
(* upstream, and converts the upstream's reply back, which the client adds *)
(* to its transcript.  So what the upstream said comes back to it through  *)
(* both conversions.                                                       *)
(*                                                                         *)
(* A message is a role and a sequence of items: texts, tool calls and tool *)
(* results, told apart by numbers.  Empty texts and images, which are      *)
(* dropped, are no items; system texts are left out of Anthropic messages, *)
(* as they travel in a field of their own.                                 *)
(***************************************************************************)
EXTENDS Integers, Sequences, SequencesExt

CONSTANTS
    MaxAsks,     \* bound: requests
    MaxMessages, \* bound: messages of the transcript
    Arguments    \* what an upstream may send as the arguments of a call

\* Only an OpenAI upstream can send anything but an object.
ASSUME ArgumentsAssumption == Arguments \subseteq {"object", "nothing", "no json"}

VARIABLES
    client,      \* the dialect of the client; the upstream speaks the other
    transcript,  \* what the client sends
    request,     \* the last request as the upstream got it
    uttered,     \* what the upstream said, turn by turn
    nextItem     \* numbers of items

conversationVars == <<client, transcript, request, uttered, nextItem>>

Text(n) == [is |-> "text", id |-> n, args |-> "object"]
Use(n, a) == [is |-> "call", id |-> n, args |-> a]
Result(n) == [is |-> "result", id |-> n, args |-> "object"]

\* Content is a plain string or a list of blocks; only strings are merged.
Message(role, plain, items) == [role |-> role, plain |-> plain, items |-> items]

\* Items of one kind, in their order.
Only(kind, items) ==
    FlattenSeq([k \in DOMAIN items |-> IF items[k].is = kind THEN <<items[k]>> ELSE <<>>])

ItemsOf(messages) == FlattenSeq([k \in DOMAIN messages |-> messages[k].items])

\* _parse_json_arg: no arguments are an empty object, and what is no JSON is
\* wrapped in one.
ParseArguments(it) ==
    [it EXCEPT !.args = CASE @ = "nothing" -> "empty object"
                          [] @ = "no json" -> "wrapped"
                          [] OTHER -> @]

Parsed(items) == [k \in DOMAIN items |-> ParseArguments(items[k])]

----------------------------------------------------------------------------
\* openai_chat_to_anthropic_messages

FlushResults(acc) ==
    IF acc.pending = <<>> THEN acc
    ELSE [out |-> Append(acc.out, Message("user", FALSE, acc.pending)),
          pending |-> <<>>]

ConvertToAnthropic_HoldsResults(acc, m) ==
    IF m.role = "tool" THEN [acc EXCEPT !.pending = @ \o m.items]
    ELSE IF m.role = "system" THEN acc
    ELSE [IF m.role = "assistant" THEN FlushResults(acc) ELSE acc
             EXCEPT !.out = Append(@, [m EXCEPT !.plain = FALSE])]

ConvertToAnthropic(acc, m) ==
    CASE m.role = "system" -> FlushResults(acc)
      [] m.role = "tool" -> [acc EXCEPT !.pending = @ \o m.items]
      [] m.role = "assistant" ->
           [FlushResults(acc) EXCEPT !.out = Append(@,
               Message("assistant", FALSE,
                       Only("text", m.items) \o Parsed(Only("call", m.items))))]
      [] OTHER ->
           [FlushResults(acc) EXCEPT !.out = Append(@, m)]

MergePlain_MergesBlocks(merged, m) ==
    IF merged # <<>> /\ Last(merged).role = m.role
      THEN [merged EXCEPT ![Len(merged)].items = IF m.plain THEN m.items ELSE @ \o m.items]
      ELSE Append(merged, m)

\* Neighbours of one role that are both plain strings become one message.
MergePlain(merged, m) ==
    IF merged # <<>> /\ Last(merged).role = m.role /\ Last(merged).plain /\ m.plain
      THEN [merged EXCEPT ![Len(merged)].items = @ \o m.items]
      ELSE Append(merged, m)

Placeholder == Message("user", TRUE, <<>>)

\* The loop over the messages, and the one that merges what it made.
Converted(messages) ==
    LET acc[k \in 0 .. Len(messages)] ==
            IF k = 0 THEN [out |-> <<>>, pending |-> <<>>]
            ELSE ConvertToAnthropic(acc[k - 1], messages[k])
    IN FlushResults(acc[Len(messages)]).out

Merged(messages) ==
    LET acc[k \in 0 .. Len(messages)] ==
            IF k = 0 THEN <<>> ELSE MergePlain(acc[k - 1], messages[k])
    IN acc[Len(messages)]

ToAnthropicMessages(messages) ==
    LET merged == Merged(Converted(messages))
    IN IF merged = <<>> THEN <<Placeholder>>
       ELSE IF merged[1].role # "user" THEN <<Placeholder>> \o merged
       ELSE merged

----------------------------------------------------------------------------
\* anthropic_messages_to_openai_chat: the results of a user message become
\* messages of their own and go before its text.

ToolMessages(items) ==
    LET results == Only("result", items)
    IN [k \in DOMAIN results |-> Message("tool", TRUE, <<results[k]>>)]

ConvertToOpenAI(m) ==
    LET texts == Only("text", m.items)
        results == ToolMessages(m.items)
    IN CASE m.role = "assistant" ->
              <<Message("assistant", TRUE, texts \o Only("call", m.items))>>
         [] m.role # "assistant" /\ (m.role = "system" \/ m.plain) -> <<m>>
         [] OTHER ->
              IF texts = <<>> /\ results # <<>> THEN results
              ELSE Append(results, Message("user", TRUE, texts))

ToOpenAIMessages(messages) ==
    FlattenSeq([k \in DOMAIN messages |-> ConvertToOpenAI(messages[k])])

----------------------------------------------------------------------------
\* The reply, as a message of the client's transcript:
\* anthropic_response_to_openai_chat, openai_response_to_anthropic_message.

ReplyToOpenAI(items) ==
    Message("assistant", TRUE, Only("text", items) \o Only("call", items))

ReplyToAnthropic(items) ==
    Message("assistant", FALSE, Only("text", items) \o Parsed(Only("call", items)))

----------------------------------------------------------------------------
\* The calls of a sequence of items that have no result yet, oldest first.
OpenCalls(items) ==
    LET answered == {items[k].id : k \in {j \in DOMAIN items : items[j].is = "result"}}
    IN FlattenSeq([k \in DOMAIN items |->
           IF items[k].is = "call" /\ items[k].id \notin answered THEN <<items[k]>> ELSE <<>>])

Unanswered == OpenCalls(ItemsOf(transcript))

ConversationInit ==
    /\ client \in {"openai", "anthropic"}
    /\ transcript = <<>>
    /\ request = <<>>
    /\ uttered = <<>>
    /\ nextItem = 1

AddToTranscript(m) ==
    /\ Len(transcript) < MaxMessages
    /\ transcript' = Append(transcript, m)
    /\ UNCHANGED <<client, request, uttered>>

\* The Anthropic dialect has its system text once, before the messages.
ClientInstructs ==
    /\ client = "openai" \/ transcript = <<>>
    /\ AddToTranscript(Message("system", TRUE, <<>>))
    /\ UNCHANGED nextItem

ClientSays(plain) ==
    /\ Unanswered = <<>>
    /\ AddToTranscript(Message("user", plain, <<Text(nextItem)>>))
    /\ nextItem' = nextItem + 1

\* A client may also open with a turn it puts into the assistant's mouth.
ClientQuotes ==
    /\ uttered = <<>> /\ \A m \in Range(transcript) : m.role = "system"
    /\ AddToTranscript(Message("assistant", TRUE, <<Text(nextItem)>>))
    /\ nextItem' = nextItem + 1

\* Results come one to a message in the OpenAI dialect; in the Anthropic
\* dialect one user message has one or all of them, with a text before or
\* after them or none.
ClientAnswersOne ==
    /\ client = "openai"
    /\ Unanswered # <<>>
    /\ AddToTranscript(Message("tool", TRUE, <<Result(Head(Unanswered).id)>>))
    /\ UNCHANGED nextItem

ClientAnswersSome(n, texts) ==
    /\ client = "anthropic"
    /\ n \in 1 .. Len(Unanswered)
    /\ texts # "none" => n = Len(Unanswered)
    /\ LET results == [k \in 1 .. n |-> Result(Unanswered[k].id)] IN
       AddToTranscript(Message("user", FALSE,
           CASE texts = "before" -> <<Text(nextItem)>> \o results
             [] texts = "after" -> Append(results, Text(nextItem))
             [] OTHER -> results))
    /\ nextItem' = nextItem + 1

\* A turn of the upstream: a text or none, then calls.
Turns ==
    LET text == <<Text(nextItem)>>
        Calls(n, a) == [k \in 1 .. n |-> Use(nextItem + k, a)]
    IN {t \o Calls(n, a) : t \in {<<>>, text}, n \in 0 .. 2,
        a \in IF client = "openai" THEN {"object"} ELSE Arguments}

Ask(items) ==
    /\ Len(uttered) < MaxAsks
    /\ transcript # <<>> /\ Last(transcript).role # "assistant"
    /\ Unanswered = <<>>
    /\ Len(transcript) < MaxMessages
    /\ request' = IF client = "openai" THEN ToAnthropicMessages(transcript)
                                       ELSE ToOpenAIMessages(transcript)
    /\ uttered' = Append(uttered, items)
    /\ transcript' = Append(transcript,
           IF client = "openai" THEN ReplyToOpenAI(items) ELSE ReplyToAnthropic(items))
    /\ nextItem' = nextItem + 3
    /\ UNCHANGED client

ConversationNext ==
    \/ ClientInstructs \/ ClientQuotes \/ ClientAnswersOne
    \/ \E plain \in BOOLEAN : ClientSays(plain)
    \/ \E n \in 1 .. 2, texts \in {"before", "after", "none"} :
            ClientAnswersSome(n, texts)
    \/ \E items \in Turns : Ask(items)

ConversationSpec == ConversationInit /\ [][ConversationNext]_conversationVars

----------------------------------------------------------------------------
\* In every request the upstream gets, each tool call is answered, and between
\* a call and its result there are only other calls and results: a request
\* that fails this is refused by the upstream.  An Anthropic upstream gets a
\* first message from the user.  This is what the buffer of pending results
\* and the order "results first, then text" are for.
AnswersFollowCalls ==
    LET items == ItemsOf(request) IN
    /\ OpenCalls(items) = <<>>
    /\ \A k \in DOMAIN items : items[k].is = "result" =>
           \E j \in 1 .. k - 1 :
               /\ items[j].is = "call" /\ items[j].id = items[k].id
               /\ \A i \in j .. k : items[i].is # "text"
    /\ client = "openai" /\ request # <<>> => request[1].role = "user"

\* What the assistant said in a sequence of messages, turn by turn, and the
\* texts of the user, in their order.
TurnsIn(messages) ==
    FlattenSeq([k \in DOMAIN messages |->
        IF messages[k].role = "assistant" THEN <<messages[k].items>> ELSE <<>>])

UserTexts(messages) ==
    FlattenSeq([k \in DOMAIN messages |->
        IF messages[k].role = "user" THEN Only("text", messages[k].items) ELSE <<>>])

\* The last request was made of what came before the last turn.
Asked ==
    SubSeq(transcript, 1, Max({k \in DOMAIN transcript : transcript[k].role = "assistant"}) - 1)

\* The upstream gets its own turns back as it uttered them, each as one
\* message, and every text of the user once and in order, however results,
\* instructions and plain messages were split and merged on the way.  Only
\* arguments that were no JSON object come back wrapped.
HistoryKept ==
    LET turns == TurnsIn(request)
        quoted == Len(turns) - (Len(uttered) - 1)
    IN request # <<>> =>
         /\ quoted \in {0, 1}
         /\ \A k \in 1 .. Len(uttered) - 1 : turns[k + quoted] = Parsed(uttered[k])
         /\ UserTexts(request) = UserTexts(Asked)
=============================================================================
