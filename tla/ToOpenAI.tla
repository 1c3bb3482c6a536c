------------------------------ MODULE ToOpenAI ------------------------------
(***************************************************************************)
(* anthropic_sse_to_openai_sse (convert.py): the generator that turns the  *)
(* stream of an Anthropic upstream into the chunks an OpenAI client reads. *)
(*                                                                         *)
(* The upstream is AnthropicStream: an event of it and what the generator  *)
(* does with it up to its next yield are one action.  Any of its events    *)
(* that carry usage may do so or not.  Events the generator skips (pings,  *)
(* thinking, lines that are no JSON) are left out, and so are fragments    *)
(* of a tool call whose block was never started, which no Anthropic        *)
(* upstream sends.  Only output tokens are counted; input tokens go the    *)
(* same way.                                                               *)
(***************************************************************************)
EXTENDS Naturals

CONSTANTS
    MaxUpIndex,     \* bound: indexes of the upstream's blocks
    MaxUpFragments, \* bound: fragments per block
    MaxUpTokens     \* bound: the count of tokens reported

ASSUME UpIndexAssumption == MaxUpIndex \in Nat
ASSUME UpFragmentsAssumption == MaxUpFragments \in Nat
ASSUME UpTokensAssumption == MaxUpTokens \in Nat

VARIABLES
    upReply, upKind, upLive, upGot,  \* the upstream, as in AnthropicStream
    include_usage,   \* what the client asked for in stream_options
    todo,            \* what is yielded next: "role", "read", "usage", "done", "drain" or "end"
    block_tool_slot, \* per block: its slot, or MaxUpIndex + 1 for none
    next_tool_slot, upTokens, upSawUsage, usage_emitted,
    atFinish,        \* the count known when the finish reason was passed on
    phase, tools, parts, counts,  \* what the client sees, as in OpenAIStream
    said             \* the last usage the client was told

upVars == <<upReply, upKind, upLive, upGot>>
slotVars == <<block_tool_slot, next_tool_slot>>
countVars == <<upTokens, upSawUsage>>
readerVars == <<phase, tools, parts, counts, said>>

toOpenAIVars ==
    <<upVars, include_usage, todo, slotVars, countVars, usage_emitted, atFinish,
      readerVars>>

Up == INSTANCE AnthropicStream WITH
          MaxIndex <- MaxUpIndex, reply <- upReply, kind <- upKind,
          live <- upLive, got <- upGot

UpIndexes == 0 .. MaxUpIndex
ToolSlots == 0 .. MaxUpIndex
NoSlot == MaxUpIndex + 1

ToOpenAIInit ==
    /\ Up!Init
    /\ include_usage \in BOOLEAN
    /\ todo = "role"
    /\ block_tool_slot = [i \in UpIndexes |-> NoSlot]
    /\ next_tool_slot = 0
    /\ upTokens = 0 /\ upSawUsage = FALSE /\ usage_emitted = FALSE
    /\ atFinish = 0
    /\ phase = "none" /\ tools = 0
    /\ parts = [s \in ToolSlots |-> 0]
    /\ counts = 0
    /\ said = 0

\* An event with usage raises the count; without, it leaves it.
NoteUsage(withUsage, tokens) ==
    /\ upTokens' = IF withUsage /\ tokens > upTokens THEN tokens ELSE upTokens
    /\ upSawUsage' = (upSawUsage \/ withUsage)

YieldUsage(tokens) ==
    /\ said' = tokens
    /\ counts' = counts + 1

----------------------------------------------------------------------------
YieldRole ==
    /\ todo = "role"
    /\ todo' = "read"
    /\ phase' = "open"
    /\ UNCHANGED <<upVars, include_usage, slotVars, countVars, usage_emitted,
                   atFinish, tools, parts, counts, said>>

MessageStart(withUsage, tokens) ==
    /\ todo = "read"
    /\ Up!StartMessage
    /\ NoteUsage(withUsage, tokens)
    /\ UNCHANGED <<include_usage, todo, slotVars, usage_emitted, atFinish,
                   readerVars>>

TextBlockStart(i) ==
    /\ todo = "read"
    /\ Up!StartBlock(i, "text")
    /\ UNCHANGED <<include_usage, todo, slotVars, countVars, usage_emitted,
                   atFinish, readerVars>>

ToolBlockStart(i) ==
    /\ todo = "read"
    /\ Up!StartBlock(i, "tool")
    /\ block_tool_slot' = [block_tool_slot EXCEPT ![i] = next_tool_slot]
    /\ next_tool_slot' = next_tool_slot + 1
    /\ tools' = tools + 1
    /\ UNCHANGED <<include_usage, todo, countVars, usage_emitted, atFinish,
                   phase, parts, counts, said>>

TextDelta(i) ==
    /\ todo = "read"
    /\ upKind[i] = "text" /\ upGot[i] < MaxUpFragments
    /\ Up!Fragment(i)
    /\ UNCHANGED <<include_usage, todo, slotVars, countVars, usage_emitted,
                   atFinish, readerVars>>

\* A block without a slot would be taken for slot 0.
JsonDelta(i) ==
    /\ todo = "read"
    /\ upKind[i] = "tool" /\ upGot[i] < MaxUpFragments
    /\ Up!Fragment(i)
    /\ LET slot == IF block_tool_slot[i] = NoSlot THEN 0 ELSE block_tool_slot[i]
       IN parts' = [parts EXCEPT ![slot] = @ + 1]
    /\ UNCHANGED <<include_usage, todo, slotVars, countVars, usage_emitted,
                   atFinish, phase, tools, counts, said>>

BlockStop(i) ==
    /\ todo = "read"
    /\ Up!StopBlock(i)
    /\ UNCHANGED <<include_usage, todo, slotVars, countVars, usage_emitted,
                   atFinish, readerVars>>

\* With a stop reason the finish chunk is sent, and with it the usage unless
\* the client asked for a chunk of its own.  An upstream gives one reason.
MessageDelta(withReason, withUsage, tokens) ==
    /\ todo = "read"
    /\ withReason => phase = "open"
    /\ Up!EndMessage
    /\ NoteUsage(withUsage, tokens)
    /\ IF withReason
         THEN LET final == upSawUsage' /\ ~include_usage IN
              /\ phase' = "finished"
              /\ atFinish' = upTokens'
              /\ usage_emitted' = final
              /\ IF final THEN YieldUsage(upTokens') ELSE UNCHANGED <<counts, said>>
         ELSE UNCHANGED <<phase, atFinish, usage_emitted, counts, said>>
    /\ UNCHANGED <<include_usage, todo, slotVars, tools, parts>>

MessageStop_TellsAgain ==
    /\ todo = "read"
    /\ Up!StopMessage
    /\ todo' = IF upSawUsage THEN "usage" ELSE "done"
    /\ UNCHANGED <<include_usage, slotVars, countVars, usage_emitted, atFinish,
                   readerVars>>

\* message_stop: the usage if the client does not have it yet, then [DONE].
MessageStop ==
    /\ todo = "read"
    /\ Up!StopMessage
    /\ todo' = IF upSawUsage /\ (include_usage \/ ~usage_emitted)
                 THEN "usage" ELSE "done"
    /\ UNCHANGED <<include_usage, slotVars, countVars, usage_emitted, atFinish,
                   readerVars>>

YieldFinalUsage ==
    /\ todo = "usage"
    /\ todo' = "done"
    /\ YieldUsage(upTokens)
    /\ UNCHANGED <<upVars, include_usage, slotVars, countVars, usage_emitted,
                   atFinish, phase, tools, parts>>

\* An error event is passed on, then [DONE].
UpstreamError ==
    /\ todo = "read"
    /\ Up!Break
    /\ todo' = "done"
    /\ phase' = "failed"
    /\ UNCHANGED <<include_usage, slotVars, countVars, usage_emitted, atFinish,
                   tools, parts, counts, said>>

\* The generator reads on after [DONE], until the upstream closes.
YieldDone ==
    /\ todo = "done"
    /\ todo' = "drain"
    /\ phase' = "done"
    /\ UNCHANGED <<upVars, include_usage, slotVars, countVars, usage_emitted,
                   atFinish, tools, parts, counts, said>>

\* The upstream closes its stream, after its last event or too early; too
\* early, the client gets no [DONE].
UpstreamEnds ==
    /\ \/ todo = "drain" /\ UNCHANGED upVars
       \/ todo = "read" /\ Up!Break
    /\ todo' = "end"
    /\ UNCHANGED <<include_usage, slotVars, countVars, usage_emitted, atFinish,
                   readerVars>>

\* Reading fails: the caller of the generator sends an error and [DONE] in
\* one frame, also when [DONE] was sent before.
UpstreamBreaks ==
    /\ \/ todo = "drain" /\ UNCHANGED upVars
       \/ todo = "read" /\ Up!Break
    /\ todo' = "end"
    /\ phase' = "aborted"
    /\ UNCHANGED <<include_usage, slotVars, countVars, usage_emitted, atFinish,
                   tools, parts, counts, said>>

ToOpenAINext ==
    \/ YieldRole \/ MessageStop \/ YieldFinalUsage \/ UpstreamError
    \/ YieldDone \/ UpstreamEnds \/ UpstreamBreaks
    \/ \E tokens \in 0 .. MaxUpTokens : MessageStart(TRUE, tokens)
    \/ MessageStart(FALSE, 0)
    \/ \E withReason \in BOOLEAN :
        \/ \E tokens \in 0 .. MaxUpTokens : MessageDelta(withReason, TRUE, tokens)
        \/ MessageDelta(withReason, FALSE, 0)
    \/ \E i \in UpIndexes :
        \/ TextBlockStart(i) \/ ToolBlockStart(i) \/ BlockStop(i)
        \/ TextDelta(i) \/ JsonDelta(i)

ToOpenAISpec == ToOpenAIInit /\ [][ToOpenAINext]_toOpenAIVars

----------------------------------------------------------------------------
ToOpenAITypeOK ==
    /\ upReply \in {"none", "open", "ended", "stopped", "broken"}
    /\ upKind \in [UpIndexes -> {"none", "text", "tool"}]
    /\ upLive \subseteq UpIndexes
    /\ upGot \in [UpIndexes -> Nat]
    /\ include_usage \in BOOLEAN
    /\ todo \in {"role", "read", "usage", "done", "drain", "end"}
    /\ block_tool_slot \in [UpIndexes -> ToolSlots \cup {NoSlot}]
    /\ next_tool_slot \in Nat
    /\ upTokens \in Nat /\ upSawUsage \in BOOLEAN /\ usage_emitted \in BOOLEAN
    /\ atFinish \in Nat
    /\ phase \in {"none", "open", "finished", "failed", "done", "aborted"}
    /\ tools \in Nat
    /\ parts \in [ToolSlots -> Nat]
    /\ counts \in Nat
    /\ said \in Nat

\* Every tool block of the upstream has a slot of its own that was announced
\* to the client, and the client got as many fragments for the slot as the
\* upstream sent for the block (block_tool_slot and next_tool_slot of
\* anthropic_sse_to_openai_sse).
ToolCallsReachClient ==
    /\ \A i \in UpIndexes : upKind[i] = "tool" =>
           /\ block_tool_slot[i] < tools
           /\ parts[block_tool_slot[i]] = upGot[i]
    /\ \A i, j \in UpIndexes :
           upKind[i] = "tool" /\ upKind[j] = "tool"
             /\ block_tool_slot[i] = block_tool_slot[j] => i = j

\* A stream that was read to its end tells the client its usage exactly once,
\* if the upstream reported any: on a chunk of its own, with the final count,
\* if the client asked for that, otherwise with the finish reason and the
\* count known then, or at the end (usage_emitted and include_usage).
UsageOnce ==
    upReply = "stopped" /\ todo \in {"drain", "end"} =>
        IF upSawUsage
          THEN counts = 1 /\ said = (IF usage_emitted THEN atFinish ELSE upTokens)
          ELSE counts = 0

Client == INSTANCE OpenAIStream WITH MaxSlots <- MaxUpIndex + 1

\* The client always reads a well-formed OpenAI stream: the role first, slots
\* announced before their fragments, one finish reason, usage at most once.
ImplementsOpenAIStream == Client!Spec
=============================================================================
