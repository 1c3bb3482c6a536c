----------------------------- MODULE ToAnthropic -----------------------------
(***************************************************************************)
(* openai_sse_to_anthropic_sse (convert.py): the generator that turns the  *)
(* stream of an OpenAI upstream into the stream an Anthropic client reads. *)
(*                                                                         *)
(* An action is the code from one yield to the next, since the reader may  *)
(* leave or the source may break at each of them.  The upstream sends any  *)
(* lines it likes: a line may carry text, fragments of several tool calls, *)
(* a finish reason and a count of tokens, in any order of lines.  Lines    *)
(* that are no JSON, comments and [DONE] have no effect and are left out.  *)
(* Only completion tokens are counted; prompt tokens go the same way,      *)
(* without the estimate.                                                   *)
(***************************************************************************)
EXTENDS Naturals, Sequences, FiniteSets, FiniteSetsExt

CONSTANTS
    Slots,        \* the values of tool_calls[].index an upstream uses
    FinishReasons,\* what it may put in finish_reason
    NoReason,     \* no finish_reason so far
    TokenReports, \* the completion_tokens it may report
    MaxLines,     \* bound: lines per stream
    MaxCalls      \* bound: entries of tool_calls per line

ASSUME SlotsAssumption == IsFiniteSet(Slots)
ASSUME ReasonAssumption == NoReason \notin FinishReasons
ASSUME ReportsAssumption == TokenReports \subseteq Nat
ASSUME LinesAssumption == MaxLines \in Nat /\ MaxCalls \in Nat

VARIABLES
    at,           \* "start", "first", "read", "line", "closing", "final" or "over"
    text, calls, reason,   \* what is left of the line under work
    tool_index_by_slot,    \* 0: the slot has no block yet
    next_index, open_text, open_tools, finish_reason, output_tokens, saw_usage,
    lines,        \* bound
    sentText, sentParts,   \* what the upstream sent: text deltas, fragments by slot
    early, reported,       \* text deltas before its first count, its largest count
    reply, kind, live, got,\* what the client sees, as in AnthropicStream
    answer        \* the final event: stop reason and tokens

lineVars == <<text, calls, reason>>
upstreamVars == <<sentText, sentParts, early, reported>>
clientVars == <<reply, kind, live, got, answer>>
indexVars == <<tool_index_by_slot, next_index, open_text, open_tools>>
usageVars == <<output_tokens, saw_usage>>

toAnthropicVars ==
    <<at, lines, lineVars, indexVars, finish_reason, usageVars, upstreamVars,
      clientVars>>

MaxBlock == Cardinality(Slots)
Blocks == 0 .. MaxBlock

\* A fragment of a tool call, with arguments or only naming the call.
Call == [slot : Slots, args : BOOLEAN]

Lines(n) == UNION {[1 .. m -> Call] : m \in 0 .. n}

Larger(a, b) == IF a < b THEN b ELSE a

ToAnthropicInit ==
    /\ at = "start"
    /\ text = FALSE /\ calls = <<>> /\ reason = NoReason
    /\ tool_index_by_slot = [s \in Slots |-> 0]
    /\ next_index = 1
    /\ open_text = TRUE /\ open_tools = {}
    /\ finish_reason = NoReason
    /\ output_tokens = 0 /\ saw_usage = FALSE
    /\ lines = 0
    /\ sentText = 0 /\ sentParts = [s \in Slots |-> 0]
    /\ early = 0 /\ reported = 0
    /\ reply = "none"
    /\ kind = [i \in Blocks |-> "none"]
    /\ live = {}
    /\ got = [i \in Blocks |-> 0]
    /\ answer = [stop |-> "none", tokens |-> 0]

----------------------------------------------------------------------------
\* What the client's view becomes with each event.

YieldStart(i, k) ==
    /\ kind' = [kind EXCEPT ![i] = k]
    /\ live' = live \cup {i}
    /\ UNCHANGED <<reply, got, answer>>

YieldDelta(i) ==
    /\ got' = [got EXCEPT ![i] = @ + 1]
    /\ UNCHANGED <<reply, kind, live, answer>>

YieldStop(i) ==
    /\ live' = live \ {i}
    /\ UNCHANGED <<reply, kind, got, answer>>

----------------------------------------------------------------------------
YieldMessageStart ==
    /\ at = "start"
    /\ at' = "first"
    /\ reply' = "open"
    /\ UNCHANGED <<kind, live, got, answer, lines, lineVars, indexVars,
                   finish_reason, usageVars, upstreamVars>>

\* The text block is opened before anything was read.
YieldTextBlock ==
    /\ at = "first"
    /\ at' = "read"
    /\ YieldStart(0, "text")
    /\ UNCHANGED <<lines, lineVars, indexVars, finish_reason, usageVars,
                   upstreamVars>>

Counted_AlwaysEstimates(t, withReport, tokens) ==
    (IF withReport THEN Larger(output_tokens, tokens) ELSE output_tokens)
        + (IF t THEN 1 ELSE 0)

\* usage: the larger of what is known and what is reported; without a report
\* so far, every text delta is taken for one token.
Counted(t, withReport, tokens) ==
    LET known == IF withReport THEN Larger(output_tokens, tokens)
                               ELSE output_tokens
    IN IF t /\ ~saw_usage /\ ~withReport THEN known + 1 ELSE known

ReadLine(t, cs, r, withReport, tokens) ==
    /\ at = "read"
    /\ lines < MaxLines
    /\ lines' = lines + 1
    /\ at' = "line"
    /\ text' = t /\ calls' = cs /\ reason' = r
    /\ saw_usage' = (saw_usage \/ withReport)
    /\ output_tokens' = Counted(t, withReport, tokens)
    /\ sentText' = IF t THEN sentText + 1 ELSE sentText
    /\ sentParts' = [s \in Slots |-> sentParts[s]
           + Cardinality({n \in DOMAIN cs : cs[n].slot = s /\ cs[n].args})]
    /\ early' = IF t /\ ~saw_usage /\ ~withReport THEN early + 1 ELSE early
    /\ reported' = IF withReport THEN Larger(reported, tokens) ELSE reported
    /\ UNCHANGED <<indexVars, finish_reason, clientVars>>

\* text_index is 0 for the whole stream, also when the block was closed.
YieldText ==
    /\ at = "line" /\ text
    /\ text' = FALSE
    /\ YieldDelta(0)
    /\ UNCHANGED <<at, lines, calls, reason, indexVars, finish_reason,
                   usageVars, upstreamVars>>

AtCall == at = "line" /\ ~text /\ calls # <<>>

CloseTextForTool_StaysOpen ==
    /\ AtCall
    /\ tool_index_by_slot[Head(calls).slot] = 0
    /\ open_text
    /\ open_text' = FALSE
    /\ UNCHANGED <<at, lines, lineVars, tool_index_by_slot, next_index,
                   open_tools, finish_reason, usageVars, upstreamVars, clientVars>>

\* The first fragment of a slot closes the text block,
CloseTextForTool ==
    /\ AtCall
    /\ tool_index_by_slot[Head(calls).slot] = 0
    /\ open_text
    /\ open_text' = FALSE
    /\ YieldStop(0)
    /\ UNCHANGED <<at, lines, lineVars, tool_index_by_slot, next_index,
                   open_tools, finish_reason, usageVars, upstreamVars>>

YieldToolBlock_SameIndex ==
    /\ AtCall
    /\ tool_index_by_slot[Head(calls).slot] = 0
    /\ ~open_text
    /\ tool_index_by_slot' =
           [tool_index_by_slot EXCEPT ![Head(calls).slot] = next_index]
    /\ open_tools' = open_tools \cup {Head(calls).slot}
    /\ YieldStart(next_index, "tool")
    /\ UNCHANGED <<at, lines, lineVars, next_index, open_text, finish_reason,
                   usageVars, upstreamVars>>

\* and opens a block for the tool.
YieldToolBlock ==
    /\ AtCall
    /\ tool_index_by_slot[Head(calls).slot] = 0
    /\ ~open_text
    /\ tool_index_by_slot' =
           [tool_index_by_slot EXCEPT ![Head(calls).slot] = next_index]
    /\ next_index' = next_index + 1
    /\ open_tools' = open_tools \cup {Head(calls).slot}
    /\ YieldStart(next_index, "tool")
    /\ UNCHANGED <<at, lines, lineVars, open_text, finish_reason, usageVars,
                   upstreamVars>>

YieldArguments ==
    /\ AtCall
    /\ tool_index_by_slot[Head(calls).slot] # 0
    /\ Head(calls).args
    /\ calls' = Tail(calls)
    /\ YieldDelta(tool_index_by_slot[Head(calls).slot])
    /\ UNCHANGED <<at, lines, text, reason, indexVars, finish_reason,
                   usageVars, upstreamVars>>

NoArguments ==
    /\ AtCall
    /\ tool_index_by_slot[Head(calls).slot] # 0
    /\ ~Head(calls).args
    /\ calls' = Tail(calls)
    /\ UNCHANGED <<at, lines, text, reason, indexVars, finish_reason,
                   usageVars, upstreamVars, clientVars>>

EndOfLine ==
    /\ at = "line" /\ ~text /\ calls = <<>>
    /\ at' = "read"
    /\ finish_reason' = IF reason = NoReason THEN finish_reason ELSE reason
    /\ UNCHANGED <<lines, lineVars, indexVars, usageVars, upstreamVars,
                   clientVars>>

\* The upstream closes its stream, with [DONE] or without.
SourceEnds ==
    /\ at = "read"
    /\ at' = "closing"
    /\ UNCHANGED <<lines, lineVars, indexVars, finish_reason, usageVars,
                   upstreamVars, clientVars>>

\* Reading fails; the caller of the generator sends an error frame and stops.
SourceBreaks ==
    /\ at = "read"
    /\ at' = "over"
    /\ reply' = "broken"
    /\ UNCHANGED <<kind, live, got, answer, lines, lineVars, indexVars,
                   finish_reason, usageVars, upstreamVars>>

CloseText ==
    /\ at = "closing" /\ open_text
    /\ open_text' = FALSE
    /\ YieldStop(0)
    /\ UNCHANGED <<at, lines, lineVars, tool_index_by_slot, next_index,
                   open_tools, finish_reason, usageVars, upstreamVars>>

\* list(open_tools) has the order of a set.
CloseTool(s) ==
    /\ at = "closing" /\ ~open_text
    /\ s \in open_tools
    /\ open_tools' = open_tools \ {s}
    /\ YieldStop(tool_index_by_slot[s])
    /\ UNCHANGED <<at, lines, lineVars, tool_index_by_slot, next_index,
                   open_text, finish_reason, usageVars, upstreamVars>>

\* _finish_reason_to_stop_reason
StopReason(r) ==
    CASE r = "length" -> "max_tokens"
      [] r \in {"tool_calls", "function_call"} -> "tool_use"
      [] OTHER -> "end_turn"

\* The message_delta; without any report at least one token is claimed.
YieldMessageDelta ==
    /\ at = "closing" /\ ~open_text /\ open_tools = {}
    /\ at' = "final"
    /\ reply' = "ended"
    /\ answer' = [stop |-> StopReason(finish_reason),
                  tokens |-> Larger(output_tokens, IF saw_usage THEN 0 ELSE 1)]
    /\ UNCHANGED <<kind, live, got, lines, lineVars, indexVars, finish_reason,
                   usageVars, upstreamVars>>

YieldMessageStop ==
    /\ at = "final"
    /\ at' = "over"
    /\ reply' = "stopped"
    /\ UNCHANGED <<kind, live, got, answer, lines, lineVars, indexVars,
                   finish_reason, usageVars, upstreamVars>>

ToAnthropicNext ==
    \/ YieldMessageStart \/ YieldTextBlock
    \/ \E t \in BOOLEAN, cs \in Lines(MaxCalls),
          r \in FinishReasons \cup {NoReason}, tokens \in TokenReports :
            ReadLine(t, cs, r, TRUE, tokens)
    \/ \E t \in BOOLEAN, cs \in Lines(MaxCalls),
          r \in FinishReasons \cup {NoReason} : ReadLine(t, cs, r, FALSE, 0)
    \/ YieldText \/ CloseTextForTool \/ YieldToolBlock \/ YieldArguments
    \/ NoArguments \/ EndOfLine \/ SourceEnds \/ SourceBreaks
    \/ CloseText \/ \E s \in Slots : CloseTool(s)
    \/ YieldMessageDelta \/ YieldMessageStop

ToAnthropicSpec == ToAnthropicInit /\ [][ToAnthropicNext]_toAnthropicVars

----------------------------------------------------------------------------
ToAnthropicTypeOK ==
    /\ at \in {"start", "first", "read", "line", "closing", "final", "over"}
    /\ text \in BOOLEAN
    /\ calls \in Seq(Call)
    /\ reason \in FinishReasons \cup {NoReason}
    /\ tool_index_by_slot \in [Slots -> Blocks]
    /\ next_index \in Nat
    /\ open_text \in BOOLEAN
    /\ open_tools \subseteq Slots
    /\ finish_reason \in FinishReasons \cup {NoReason}
    /\ output_tokens \in Nat /\ saw_usage \in BOOLEAN
    /\ lines \in Nat
    /\ sentText \in Nat /\ sentParts \in [Slots -> Nat]
    /\ early \in Nat /\ reported \in Nat
    /\ reply \in {"none", "open", "ended", "stopped", "broken"}
    /\ kind \in [Blocks -> {"none", "text", "tool"}]
    /\ live \subseteq Blocks
    /\ got \in [Blocks -> Nat]
    /\ answer \in [stop : {"none", "end_turn", "max_tokens", "tool_use"},
                  tokens : Nat]

\* What the generator still holds of the line under work.
Held(s) == Cardinality({n \in DOMAIN calls : calls[n].slot = s /\ calls[n].args})

\* Every text and every argument fragment the upstream sent is with the
\* client or still in the line under work, and two tool calls never share a
\* block, however their fragments are mixed in the upstream's lines
\* (tool_index_by_slot and next_index of openai_sse_to_anthropic_sse).
FragmentsReachTheirBlock ==
    /\ got[0] + (IF text THEN 1 ELSE 0) = sentText
    /\ \A s \in Slots :
           (IF tool_index_by_slot[s] = 0 THEN 0 ELSE got[tool_index_by_slot[s]])
             + Held(s) = sentParts[s]
    /\ \A s, t \in Slots :
           tool_index_by_slot[s] = tool_index_by_slot[t] =>
               s = t \/ tool_index_by_slot[s] = 0

\* A count the upstream reported is told to the client unchanged in the closing
\* events, which the caller bills by, on whichever line it came and however many
\* texts came before or after: the estimate made until then is not added to it.
\* Nothing is said of a stream whose texts before the first report outnumber the
\* tokens reported, nor of one without a report: there the estimate remains.
FinalCountIsReported ==
    reply \in {"ended", "stopped"} /\ saw_usage /\ early <= reported =>
        answer.tokens = reported

\* What README.md says under "Monitor": "If a vendor omits usage, those counters
\* stay at zero for that request."  The closing events carry the estimate.
NoUsageStaysZero ==
    reply \in {"ended", "stopped"} /\ ~saw_usage => answer.tokens = 0

Reader == INSTANCE AnthropicStream WITH MaxIndex <- MaxBlock

\* The client always reads a well-formed Anthropic stream, whatever order the
\* upstream sends text, tool calls, reasons and counts in.
ImplementsAnthropicStream == Reader!Spec
=============================================================================
