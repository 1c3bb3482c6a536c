---------------------------- MODULE ConvertProofs ----------------------------
(***************************************************************************)
(* Proofs about the converters.                                            *)
(*                                                                         *)
(* Streams: what each of the two converters yields is a well-formed stream *)
(* of the client's dialect, for any upstream, any number of tool calls and *)
(* lines of any length; and no count of tokens or fragment goes astray.    *)
(*                                                                         *)
(* Conversations: the converters of messages are loops over sequences.     *)
(* What the properties look at are measures of a transcript that do not    *)
(* depend on how its items are packed into messages; both conversions keep *)
(* every such measure (ToAnthropicKeeps, ToOpenAIKeeps), so the invariant  *)
(* TalkInv is about the transcript only.                                   *)
(***************************************************************************)
EXTENDS MCConvert, FoldTheorems, SequenceTheorems

----------------------------------------------------------------------------
\* From OpenAI to Anthropic.

\* Where the generator is tells what the client has of the message.
PlaceTells ==
    /\ at = "start" => reply = "none"
    /\ at \in {"first", "read", "line", "closing"} => reply = "open"
    /\ at = "final" => reply = "ended"
    /\ at \in {"start", "first"} =>
           /\ live = {} /\ kind = [i \in Blocks |-> "none"]
           /\ open_text /\ open_tools = {} /\ next_index = 1
    /\ at = "final" => live = {}

\* Slots have blocks of their own below next_index, and there is always an
\* index left for a slot that has none.
SlotsIndexed ==
    /\ next_index = 1 + Cardinality({s \in Slots : tool_index_by_slot[s] # 0})
    /\ \A s \in Slots : tool_index_by_slot[s] < next_index
    /\ \A s, t \in Slots : tool_index_by_slot[s] = tool_index_by_slot[t] =>
           s = t \/ tool_index_by_slot[s] = 0
    /\ \A s \in open_tools : tool_index_by_slot[s] # 0
    /\ open_tools # {} => ~open_text

\* The blocks the client has open are those the generator believes open.
ViewAgrees ==
    at \notin {"start", "first"} =>
        /\ live = {tool_index_by_slot[s] : s \in open_tools}
                     \cup (IF open_text THEN {0} ELSE {})
        /\ kind[0] = "text"
        /\ \A i \in Blocks : kind[i] # "none" <=> i < next_index
        /\ at \in {"read", "line"} =>
             \A s \in Slots : tool_index_by_slot[s] # 0 => s \in open_tools

StreamInv == ToAnthropicTypeOK /\ PlaceTells /\ SlotsIndexed /\ ViewAgrees

\* output_tokens is the estimate until the first report, and the larger of
\* both afterwards.
CountInv ==
    /\ saw_usage => output_tokens = Larger(reported, early)
    /\ ~saw_usage => output_tokens = sentText /\ early = sentText /\ reported = 0
    /\ FinalCountIsReported

LEMMA BlocksFinite ==
    /\ Cardinality(Slots) \in Nat
    /\ MaxBlock \in Nat /\ 0 \in Blocks
BY SlotsAssumption, FS_CardinalityType, SMT DEF MaxBlock, Blocks

LEMMA StreamStarts == ToAnthropicInit => StreamInv
<1> SUFFICES ASSUME ToAnthropicInit PROVE StreamInv
  OBVIOUS
<1>1. ToAnthropicTypeOK
  <2> USE DEF ToAnthropicInit
  <2>1. calls \in Seq(Call)
    OBVIOUS
  <2>2. tool_index_by_slot \in [Slots -> Blocks] /\ sentParts \in [Slots -> Nat]
    BY BlocksFinite
  <2>3. kind \in [Blocks -> {"none", "text", "tool"}] /\ got \in [Blocks -> Nat]
    OBVIOUS
  <2>4. answer \in [stop : {"none", "end_turn", "max_tokens", "tool_use"}, tokens : Nat]
    OBVIOUS
  <2>5. text \in BOOLEAN /\ open_text \in BOOLEAN /\ saw_usage \in BOOLEAN
    BY Zenon
  <2> QED BY <2>1, <2>2, <2>3, <2>4, <2>5 DEF ToAnthropicTypeOK
<1>2. {s \in Slots : tool_index_by_slot[s] # 0} = {}
  BY DEF ToAnthropicInit
<1>3. Cardinality({s \in Slots : tool_index_by_slot[s] # 0}) = 0
  BY <1>2, FS_EmptySet
<1>4. PlaceTells /\ ViewAgrees
  BY DEF ToAnthropicInit, PlaceTells, ViewAgrees
<1>5. SlotsIndexed
  <2>1. next_index = 1 /\ open_tools = {} /\ tool_index_by_slot = [s \in Slots |-> 0]
    BY DEF ToAnthropicInit
  <2> QED BY <2>1, <1>3 DEF SlotsIndexed
<1> QED BY <1>1, <1>4, <1>5 DEF StreamInv

\* A slot without a block finds an index within the bound.
LEMMA RoomForBlock ==
    ASSUME StreamInv, NEW s \in Slots, tool_index_by_slot[s] = 0
    PROVE  next_index \in Blocks /\ next_index # 0
<1> DEFINE Indexed == {t \in Slots : tool_index_by_slot[t] # 0}
<1>1. Indexed \subseteq Slots \ {s}
  OBVIOUS
<1>2. IsFiniteSet(Slots \ {s}) /\ Cardinality(Slots \ {s}) = Cardinality(Slots) - 1
  BY SlotsAssumption, FS_RemoveElement
<1>3. Cardinality(Indexed) <= Cardinality(Slots \ {s})
  BY <1>1, <1>2, FS_Subset
<1>4. IsFiniteSet(Indexed)
  BY <1>1, <1>2, FS_Subset
<1>5. Cardinality(Indexed) \in Nat
  BY <1>4, FS_CardinalityType
<1>6. next_index = 1 + Cardinality(Indexed)
  BY DEF StreamInv, SlotsIndexed
<1> HIDE DEF Indexed
<1> QED BY <1>2, <1>3, <1>5, <1>6, BlocksFinite, SMT DEF Blocks, MaxBlock

\* Giving the slot the next index counts one more slot.
LEMMA OneMoreIndexed ==
    ASSUME StreamInv, NEW s \in Slots, tool_index_by_slot[s] = 0,
           tool_index_by_slot' = [tool_index_by_slot EXCEPT ![s] = next_index]
    PROVE  Cardinality({t \in Slots : tool_index_by_slot'[t] # 0})
             = Cardinality({t \in Slots : tool_index_by_slot[t] # 0}) + 1
<1> DEFINE Indexed == {t \in Slots : tool_index_by_slot[t] # 0}
<1>1. next_index # 0
  BY RoomForBlock
<1>2. tool_index_by_slot \in [Slots -> Blocks]
  BY DEF StreamInv, ToAnthropicTypeOK
<1>3. {t \in Slots : tool_index_by_slot'[t] # 0} = Indexed \cup {s}
  BY <1>1, <1>2
<1>4. s \notin Indexed
  OBVIOUS
<1>5. IsFiniteSet(Indexed)
  BY SlotsAssumption, FS_Subset
<1> HIDE DEF Indexed
<1>6. Cardinality(Indexed \cup {s}) = Cardinality(Indexed) + 1
  BY <1>4, <1>5, FS_AddElement
<1> QED BY <1>3, <1>6 DEF Indexed

\* An action that leaves blocks, indexes and client alone keeps their parts
\* of the invariant.
LEMMA ViewUntouched ==
    ASSUME StreamInv,
           UNCHANGED indexVars, UNCHANGED <<kind, live>>,
           at \notin {"start", "first"}, at' \notin {"start", "first"},
           at' \in {"read", "line"} => at \in {"read", "line"}
    PROVE  SlotsIndexed' /\ ViewAgrees'
BY DEF StreamInv, SlotsIndexed, ViewAgrees, indexVars

LEMMA HeadOfLine ==
    ASSUME ToAnthropicTypeOK, calls # <<>>
    PROVE  Head(calls).slot \in Slots /\ Tail(calls) \in Seq(Call)
<1>1. calls \in Seq(Call)
  BY DEF ToAnthropicTypeOK
<1>2. Head(calls) \in Call /\ Tail(calls) \in Seq(Call)
  BY <1>1
<1> QED BY <1>2 DEF Call

LEMMA StreamTyped ==
    ASSUME StreamInv, ToAnthropicNext PROVE ToAnthropicTypeOK'
<1> USE DEF StreamInv, ToAnthropicTypeOK, lineVars, indexVars, usageVars,
            upstreamVars, clientVars
<1>1. CASE YieldMessageStart \/ YieldTextBlock \/ SourceEnds \/ SourceBreaks
           \/ YieldMessageStop \/ EndOfLine \/ CloseText
  BY <1>1, BlocksFinite DEF YieldMessageStart, YieldTextBlock, SourceEnds, SourceBreaks,
         YieldMessageStop, EndOfLine, CloseText, YieldStart, YieldStop
<1>2. ASSUME NEW t \in BOOLEAN, NEW cs \in Lines(MaxCalls),
             NEW r \in FinishReasons \cup {NoReason}, NEW w \in BOOLEAN,
             NEW tokens \in Nat, ReadLine(t, cs, r, w, tokens)
      PROVE  ToAnthropicTypeOK'
  <2>1. PICK m \in 0 .. MaxCalls : cs \in [1 .. m -> Call]
    BY DEF Lines
  <2>2. m \in Nat /\ cs \in Seq(Call)
    BY <2>1, LinesAssumption
  <2>3. \A s \in Slots :
          Cardinality({n \in DOMAIN cs : cs[n].slot = s /\ cs[n].args}) \in Nat
    <3> TAKE s \in Slots
    <3> DEFINE Some == {n \in DOMAIN cs : cs[n].slot = s /\ cs[n].args}
    <3>1. Some \subseteq 1 .. m
      BY <2>1
    <3>2. IsFiniteSet(1 .. m)
      BY <2>2, FS_Interval
    <3>3. IsFiniteSet(Some)
      BY <3>1, <3>2, FS_Subset
    <3> QED BY <3>3, FS_CardinalityType
  <2>4. sentParts' \in [Slots -> Nat]
    <3> DEFINE More(s) == Cardinality({n \in DOMAIN cs : cs[n].slot = s /\ cs[n].args})
    <3>1. \A s \in Slots : More(s) \in Nat
      BY <2>3
    <3>2. sentParts' = [s \in Slots |-> sentParts[s] + More(s)]
      BY <1>2 DEF ReadLine
    <3> HIDE DEF More
    <3> QED BY <3>1, <3>2
  <2>5. output_tokens' \in Nat
    BY <1>2 DEF ReadLine, Counted, Larger
  <2>6. reported' \in Nat /\ early' \in Nat /\ sentText' \in Nat /\ saw_usage' \in BOOLEAN
    BY <1>2 DEF ReadLine, Larger
  <2> QED BY <1>2, <2>2, <2>4, <2>5, <2>6 DEF ReadLine
<1>3. CASE YieldText
  <2>1. got' \in [Blocks -> Nat]
    BY <1>3, BlocksFinite DEF YieldText, YieldDelta
  <2>2. text' \in BOOLEAN
    BY <1>3, Zenon DEF YieldText
  <2> QED BY <1>3, <2>1, <2>2 DEF YieldText, YieldDelta
<1>4. CASE CloseTextForTool
  BY <1>4, ZenonT(30) DEF CloseTextForTool, YieldStop
<1>5. CASE YieldToolBlock
  <2>1. Head(calls).slot \in Slots
    BY <1>5, HeadOfLine DEF YieldToolBlock, AtCall
  <2>2. next_index \in Blocks
    BY <1>5, <2>1, RoomForBlock DEF YieldToolBlock
  <2>3. /\ tool_index_by_slot' \in [Slots -> Blocks] /\ next_index' \in Nat
        /\ open_tools' \subseteq Slots
    BY <1>5, <2>1, <2>2 DEF YieldToolBlock
  <2>4. kind' \in [Blocks -> {"none", "text", "tool"}] /\ live' \subseteq Blocks
    BY <1>5, <2>2 DEF YieldToolBlock, YieldStart
  <2>5. UNCHANGED <<reply, got, answer, at, lines, text, calls, reason, sentText, sentParts,
                    open_text, finish_reason, output_tokens, saw_usage, early, reported>>
    BY <1>5 DEF YieldToolBlock, YieldStart
  <2> QED BY <2>3, <2>4, <2>5
<1>6. CASE YieldArguments \/ NoArguments
  <2>1. Head(calls).slot \in Slots /\ calls' \in Seq(Call)
    BY <1>6, HeadOfLine DEF YieldArguments, NoArguments, AtCall
  <2>2. CASE YieldArguments
    BY <2>1, <2>2 DEF YieldArguments, YieldDelta
  <2>3. CASE NoArguments
    BY <2>1, <2>3 DEF NoArguments
  <2> QED BY <1>6, <2>2, <2>3
<1>7. ASSUME NEW s \in Slots, CloseTool(s) PROVE ToAnthropicTypeOK'
  BY <1>7 DEF CloseTool, YieldStop
<1>8. CASE YieldMessageDelta
  BY <1>8 DEF YieldMessageDelta, StopReason, Larger
<1> HIDE DEF StreamInv, ToAnthropicTypeOK
<1> QED BY <1>1, <1>2, <1>3, <1>4, <1>5, <1>6, <1>7, <1>8, ReportsAssumption
        DEF ToAnthropicNext

\* One step per action; what an action does not touch is ViewUntouched.
LEMMA StreamKept ==
    ASSUME StreamInv, [ToAnthropicNext]_toAnthropicVars PROVE StreamInv'
<1> USE DEF PlaceTells
<1>t. ASSUME ToAnthropicNext PROVE ToAnthropicTypeOK'
  BY <1>t, StreamTyped
<1>p. PlaceTells /\ ToAnthropicTypeOK /\ SlotsIndexed /\ ViewAgrees
  BY DEF StreamInv
<1>q. SUFFICES ASSUME ToAnthropicNext PROVE PlaceTells' /\ SlotsIndexed' /\ ViewAgrees'
  <2>1. CASE UNCHANGED toAnthropicVars
    <3> USE <2>1 DEF toAnthropicVars, lineVars, indexVars, usageVars, upstreamVars, clientVars
    <3>1. ToAnthropicTypeOK'
      BY <1>p DEF ToAnthropicTypeOK
    <3>2. PlaceTells' /\ SlotsIndexed' /\ ViewAgrees'
      BY <1>p DEF SlotsIndexed, ViewAgrees
    <3> QED BY <3>1, <3>2 DEF StreamInv
  <2>2. CASE ToAnthropicNext
    BY <1>q, <1>t, <2>2 DEF StreamInv
  <2> QED BY <2>1, <2>2
<1>1. CASE YieldMessageStart
  BY <1>1, <1>p DEF YieldMessageStart, indexVars, SlotsIndexed, ViewAgrees
<1>2. CASE YieldTextBlock
  <2>1. live' = {0} /\ open_tools' = {} /\ open_text' /\ next_index' = 1
    BY <1>2, <1>p DEF YieldTextBlock, YieldStart, indexVars
  <2>2. kind' = [[i \in Blocks |-> "none"] EXCEPT ![0] = "text"]
    BY <1>2, <1>p DEF YieldTextBlock, YieldStart
  <2>3. kind'[0] = "text" /\ \A i \in Blocks : kind'[i] # "none" <=> i < 1
    BY <2>2, BlocksFinite, SMT DEF Blocks
  <2>n. \A s \in Slots : tool_index_by_slot'[s] = 0
    BY <1>2, <1>p, BlocksFinite, SMT
       DEF YieldTextBlock, indexVars, SlotsIndexed, ToAnthropicTypeOK, Blocks
  <2>4. ViewAgrees'
    BY <2>1, <2>3, <2>n DEF ViewAgrees
  <2>5. SlotsIndexed'
    BY <1>2, <1>p DEF YieldTextBlock, indexVars, SlotsIndexed
  <2> QED BY <1>2, <1>p, <2>4, <2>5 DEF YieldTextBlock, YieldStart
<1>3. ASSUME NEW t, NEW cs, NEW r, NEW w, NEW tokens, ReadLine(t, cs, r, w, tokens)
      PROVE  PlaceTells' /\ SlotsIndexed' /\ ViewAgrees'
  <2>1. SlotsIndexed' /\ ViewAgrees'
    BY <1>3, ViewUntouched DEF ReadLine, clientVars
  <2> QED BY <1>3, <1>p, <2>1 DEF ReadLine, clientVars
<1>4. CASE YieldText \/ YieldArguments \/ NoArguments \/ EndOfLine \/ SourceEnds
           \/ SourceBreaks
  <2> USE DEF YieldText, YieldArguments, NoArguments, EndOfLine, SourceEnds,
              SourceBreaks, AtCall, YieldDelta, clientVars
  <2>1. SlotsIndexed' /\ ViewAgrees'
    BY <1>4, ViewUntouched
  <2>2. PlaceTells'
    BY <1>4, <1>p
  <2> QED BY <2>1, <2>2
<1>5. CASE CloseTextForTool \/ CloseText
  <2> USE <1>5 DEF CloseTextForTool, CloseText, AtCall, YieldStop
  <2>1. open_text /\ open_tools = {}
    BY <1>p DEF SlotsIndexed
  <2>2. live' = {} /\ ~open_text' /\ open_tools' = {}
    BY <1>p, <2>1 DEF ViewAgrees
  <2>3. UNCHANGED <<at, kind, next_index, tool_index_by_slot, reply>>
    OBVIOUS
  <2>4. ViewAgrees' /\ PlaceTells'
    BY <1>p, <2>2, <2>3 DEF ViewAgrees
  <2>5. SlotsIndexed'
    BY <1>p, <2>2, <2>3 DEF SlotsIndexed
  <2> QED BY <2>4, <2>5
<1>6. CASE YieldToolBlock
  <2> DEFINE s == Head(calls).slot
  <2>1. s \in Slots
    BY <1>6, <1>p, HeadOfLine DEF YieldToolBlock, AtCall
  <2>2. /\ at = "line" /\ at' = "line" /\ reply' = reply
        /\ tool_index_by_slot[s] = 0 /\ ~open_text /\ ~open_text'
        /\ tool_index_by_slot' = [tool_index_by_slot EXCEPT ![s] = next_index]
        /\ next_index' = next_index + 1
        /\ open_tools' = open_tools \cup {s}
        /\ kind' = [kind EXCEPT ![next_index] = "tool"]
        /\ live' = live \cup {next_index}
    BY <1>6 DEF YieldToolBlock, AtCall, YieldStart
  <2> HIDE DEF s
  <2>3. next_index \in Blocks /\ next_index # 0
    BY <2>1, <2>2, RoomForBlock
  <2>4. next_index' = 1 + Cardinality({t \in Slots : tool_index_by_slot'[t] # 0})
    <3> DEFINE Count == Cardinality({t \in Slots : tool_index_by_slot[t] # 0})
               Count2 == Cardinality({t \in Slots : tool_index_by_slot'[t] # 0})
    <3>1. Count2 = Count + 1
      BY <2>1, <2>2, OneMoreIndexed
    <3>2. next_index = 1 + Count
      BY <1>p DEF SlotsIndexed
    <3>3. IsFiniteSet({t \in Slots : tool_index_by_slot[t] # 0})
      BY SlotsAssumption, FS_Subset
    <3>4. Count \in Nat
      BY <3>3, FS_CardinalityType
    <3> HIDE DEF Count, Count2
    <3>5. next_index' = 1 + Count2
      BY <2>2, <3>1, <3>2, <3>4
    <3> QED BY <3>5 DEF Count2
  <2>5. tool_index_by_slot \in [Slots -> Blocks] /\ next_index \in Nat
        /\ kind \in [Blocks -> {"none", "text", "tool"}] /\ open_tools \subseteq Slots
    BY <1>p DEF ToAnthropicTypeOK
  <2>6. \A t \in Slots : tool_index_by_slot'[t] =
                           IF t = s THEN next_index ELSE tool_index_by_slot[t]
    BY <2>2, <2>5
  <2>7. \A t \in Slots : tool_index_by_slot[t] < next_index
    BY <1>p DEF SlotsIndexed
  <2>8. SlotsIndexed'
    <3>1. \A t \in Slots : tool_index_by_slot'[t] < next_index'
      BY <2>2, <2>5, <2>6, <2>7, SMT DEF Blocks
    <3>2. \A t, u \in Slots : tool_index_by_slot'[t] = tool_index_by_slot'[u] =>
             t = u \/ tool_index_by_slot'[t] = 0
      <4>1. \A t \in Slots : tool_index_by_slot[t] # next_index
        BY <2>5, <2>7, SMT DEF Blocks
      <4>2. \A t, u \in Slots : tool_index_by_slot[t] = tool_index_by_slot[u] =>
               t = u \/ tool_index_by_slot[t] = 0
        BY <1>p DEF SlotsIndexed
      <4> QED BY <2>6, <4>1, <4>2
    <3>3. \A t \in open_tools' : tool_index_by_slot'[t] # 0
      BY <1>p, <2>1, <2>2, <2>3, <2>5, <2>6 DEF SlotsIndexed
    <3> QED BY <2>2, <2>4, <3>1, <3>2, <3>3 DEF SlotsIndexed
  <2>9. ViewAgrees'
    <3>1. live = {tool_index_by_slot[t] : t \in open_tools}
      BY <1>p, <2>2 DEF ViewAgrees
    <3>2. live' = {tool_index_by_slot'[t] : t \in open_tools'}
      <4>1. \A t \in open_tools : t # s
        BY <1>p, <2>2 DEF SlotsIndexed
      <4>2. {tool_index_by_slot'[t] : t \in open_tools'}
              = {tool_index_by_slot[t] : t \in open_tools} \cup {next_index}
        BY <4>1, <2>1, <2>2, <2>5, <2>6
      <4> QED BY <4>2, <3>1, <2>2
    <3>3. kind'[0] = "text"
      BY <1>p, <2>2, <2>3, <2>5, BlocksFinite DEF ViewAgrees
    <3>4. \A i \in Blocks : kind'[i] # "none" <=> i < next_index'
      <4>1. \A i \in Blocks : kind[i] # "none" <=> i < next_index
        BY <1>p, <2>2 DEF ViewAgrees
      <4>2. \A i \in Blocks : kind'[i] = IF i = next_index THEN "tool" ELSE kind[i]
        BY <2>2, <2>5
      <4> QED BY <2>2, <2>5, <4>1, <4>2, SMT DEF Blocks
    <3>5. \A t \in Slots : tool_index_by_slot'[t] # 0 => t \in open_tools'
      BY <1>p, <2>2, <2>6 DEF ViewAgrees
    <3> QED BY <2>2, <3>2, <3>3, <3>4, <3>5 DEF ViewAgrees
  <2> QED BY <1>p, <2>2, <2>8, <2>9
<1>7. ASSUME NEW s \in Slots, CloseTool(s)
      PROVE  PlaceTells' /\ SlotsIndexed' /\ ViewAgrees'
  <2>1. /\ at = "closing" /\ ~open_text /\ s \in open_tools
        /\ open_tools' = open_tools \ {s}
        /\ live' = live \ {tool_index_by_slot[s]}
        /\ UNCHANGED <<at, kind, next_index, tool_index_by_slot, reply, open_text>>
    BY <1>7 DEF CloseTool, YieldStop
  <2>2. SlotsIndexed'
    BY <1>p, <2>1 DEF SlotsIndexed
  <2>3. live = {tool_index_by_slot[t] : t \in open_tools}
    BY <1>p, <2>1 DEF ViewAgrees
  <2>4. \A t \in open_tools : t # s => tool_index_by_slot[t] # tool_index_by_slot[s]
    BY <1>p, <2>1 DEF SlotsIndexed, ToAnthropicTypeOK
  <2>5. live' = {tool_index_by_slot[t] : t \in open_tools'}
    BY <2>1, <2>3, <2>4
  <2>6. ViewAgrees'
    BY <1>p, <2>1, <2>5 DEF ViewAgrees
  <2> QED BY <1>p, <2>1, <2>2, <2>6
<1>8. CASE YieldMessageDelta \/ YieldMessageStop
  <2> USE DEF YieldMessageDelta, YieldMessageStop
  <2>1. SlotsIndexed' /\ ViewAgrees'
    BY <1>8, ViewUntouched
  <2>2. at = "closing" /\ ~open_text /\ open_tools = {} => live = {}
    BY <1>p DEF ViewAgrees
  <2> QED BY <1>8, <1>p, <2>1, <2>2
<1> QED BY <1>q, <1>1, <1>2, <1>3, <1>4, <1>5, <1>6, <1>7, <1>8 DEF ToAnthropicNext

LEMMA ArgumentsFindBlock ==
    ASSUME StreamInv, at = "line", NEW s \in Slots, tool_index_by_slot[s] # 0
    PROVE  tool_index_by_slot[s] \in live
BY DEF StreamInv, ViewAgrees

\* The stream the client reads has its grammar: blocks opened in order, kept
\* apart and all closed before the end.
THEOREM AnthropicStreamWellFormed == ToAnthropicSpec => ImplementsAnthropicStream
<1>1. ToAnthropicInit => Reader!Init
  BY DEF ToAnthropicInit, Reader!Init, Reader!Indexes, Blocks
<1>2. ASSUME StreamInv, [ToAnthropicNext]_toAnthropicVars
      PROVE  [Reader!Next]_(Reader!streamVars)
  <2> USE DEF Reader!streamVars, Reader!Next
  <2> DEFINE Goal == Reader!Next \/ UNCHANGED <<reply, kind, live, got>>
  <2>p. PlaceTells /\ ToAnthropicTypeOK /\ SlotsIndexed /\ ViewAgrees
    BY <1>2 DEF StreamInv
  <2>i. Reader!Indexes = Blocks
    BY DEF Reader!Indexes, Blocks
  <2>0. CASE UNCHANGED toAnthropicVars
    BY <2>0 DEF toAnthropicVars, clientVars
  <2>1. CASE YieldMessageStart
    BY <2>1, <2>p DEF YieldMessageStart, Reader!StartMessage, PlaceTells
  <2>2. CASE YieldTextBlock
    <3>1. Reader!StartBlock(0, "text")
      BY <2>2, <2>p, <2>i, BlocksFinite, SMT
         DEF YieldTextBlock, YieldStart, Reader!StartBlock, PlaceTells, Blocks
    <3> QED BY <3>1, <2>i, BlocksFinite
  <2>3. CASE YieldText
    <3>1. Reader!Fragment(0)
      BY <2>3, <2>p DEF YieldText, YieldDelta, Reader!Fragment, PlaceTells, ViewAgrees
    <3> QED BY <3>1, <2>i, BlocksFinite
  <2>4. CASE CloseTextForTool \/ CloseText
    <3>1. Reader!StopBlock(0)
      BY <2>4, <2>p DEF CloseTextForTool, CloseText, AtCall, YieldStop,
         Reader!StopBlock, PlaceTells, ViewAgrees
    <3> QED BY <3>1, <2>i, BlocksFinite
  <2>5. CASE YieldToolBlock
    <3>1. Head(calls).slot \in Slots
      BY <2>5, <2>p, HeadOfLine DEF YieldToolBlock, AtCall
    <3>2. next_index \in Blocks
      BY <1>2, <2>5, <3>1, RoomForBlock DEF YieldToolBlock
    <3>3. \A i \in Blocks : kind[i] # "none" <=> i < next_index
      BY <2>5, <2>p DEF YieldToolBlock, AtCall, ViewAgrees
    <3>4. kind[next_index] = "none"
      BY <3>2, <3>3, SMT DEF Blocks
    <3>5. Reader!StartBlock(next_index, "tool")
      BY <2>5, <2>p, <2>i, <3>3, <3>4
         DEF YieldToolBlock, AtCall, YieldStart, Reader!StartBlock, PlaceTells
    <3> QED BY <3>5, <3>2, <2>i
  <2>6. CASE YieldArguments
    <3> DEFINE s == Head(calls).slot
    <3>1. s \in Slots /\ tool_index_by_slot[s] \in Blocks
      BY <2>6, <2>p, HeadOfLine DEF YieldArguments, AtCall, ToAnthropicTypeOK
    <3>2. tool_index_by_slot[s] \in live
      BY <1>2, <2>6, <3>1, ArgumentsFindBlock DEF YieldArguments, AtCall
    <3>3. Reader!Fragment(tool_index_by_slot[s])
      BY <2>6, <2>p, <3>2 DEF YieldArguments, AtCall, YieldDelta, Reader!Fragment, PlaceTells
    <3> QED BY <3>3, <3>1, <2>i
  <2>7. ASSUME NEW s \in Slots, CloseTool(s) PROVE Goal
    <3>1. tool_index_by_slot[s] \in Blocks
      BY <2>p DEF ToAnthropicTypeOK
    <3>2. Reader!StopBlock(tool_index_by_slot[s])
      BY <2>7, <2>p DEF CloseTool, YieldStop, Reader!StopBlock, PlaceTells, ViewAgrees
    <3> QED BY <3>2, <3>1, <2>i
  <2>8. CASE YieldMessageDelta
    <3>1. live = {}
      BY <2>8, <2>p DEF YieldMessageDelta, ViewAgrees
    <3> QED BY <2>8, <2>p, <3>1 DEF YieldMessageDelta, Reader!EndMessage, PlaceTells
  <2>9. CASE YieldMessageStop
    BY <2>9, <2>p DEF YieldMessageStop, Reader!StopMessage, PlaceTells
  <2>10. CASE SourceBreaks
    BY <2>10, <2>p DEF SourceBreaks, Reader!Break, PlaceTells
  <2>11. CASE NoArguments \/ EndOfLine \/ SourceEnds
    BY <2>11 DEF NoArguments, EndOfLine, SourceEnds, clientVars
  <2>12. ASSUME NEW t, NEW cs, NEW r, NEW w, NEW tokens, ReadLine(t, cs, r, w, tokens)
         PROVE  Goal
    BY <2>12 DEF ReadLine, clientVars
  <2> QED BY <1>2, <2>0, <2>1, <2>2, <2>3, <2>4, <2>5, <2>6, <2>7, <2>8, <2>9,
             <2>10, <2>11, <2>12 DEF ToAnthropicNext
<1> QED BY <1>1, <1>2, StreamStarts, StreamKept, PTL
        DEF ToAnthropicSpec, ImplementsAnthropicStream, Reader!Spec

LEMMA CountKept ==
    ASSUME StreamInv, CountInv, [ToAnthropicNext]_toAnthropicVars PROVE CountInv'
<1> USE DEF CountInv, FinalCountIsReported
<1>p. PlaceTells /\ ToAnthropicTypeOK
  BY DEF StreamInv
<1>1. CASE UNCHANGED toAnthropicVars
  BY <1>1 DEF toAnthropicVars, clientVars, usageVars, upstreamVars, Larger
<1>2. ASSUME NEW t \in BOOLEAN, NEW cs, NEW r, NEW w \in BOOLEAN, NEW tokens \in Nat,
             ReadLine(t, cs, r, w, tokens)
      PROVE  CountInv'
  <2>1. reply' = "open"
    BY <1>2, <1>p DEF ReadLine, clientVars, PlaceTells
  <2>2. output_tokens \in Nat /\ reported \in Nat /\ early \in Nat /\ sentText \in Nat
    BY <1>p DEF ToAnthropicTypeOK
  <2>3. /\ saw_usage' = (saw_usage \/ w)
        /\ output_tokens' = Counted(t, w, tokens)
        /\ sentText' = IF t THEN sentText + 1 ELSE sentText
        /\ early' = IF t /\ ~saw_usage /\ ~w THEN early + 1 ELSE early
        /\ reported' = IF w THEN Larger(reported, tokens) ELSE reported
    BY <1>2 DEF ReadLine
  <2>4. CASE saw_usage /\ w
    <3>1. output_tokens' = Larger(reported', early')
      BY <2>2, <2>3, <2>4, SMT DEF Counted, Larger
    <3>2. saw_usage'
      BY <2>3, <2>4
    <3> QED BY <2>1, <3>1, <3>2
  <2>5. CASE saw_usage /\ ~w
    BY <2>1, <2>2, <2>3, <2>5 DEF Counted, Larger
  <2>6. CASE ~saw_usage /\ w
    <3>1. output_tokens' = Larger(reported', early')
      BY <2>2, <2>3, <2>6, SMT DEF Counted, Larger
    <3>2. saw_usage'
      BY <2>3, <2>6
    <3> QED BY <2>1, <3>1, <3>2
  <2>7. CASE ~saw_usage /\ ~w
    BY <2>1, <2>2, <2>3, <2>7 DEF Counted, Larger
  <2> QED BY <2>4, <2>5, <2>6, <2>7
<1>3. CASE YieldMessageDelta
  <2>1. output_tokens \in Nat /\ reported \in Nat /\ early \in Nat /\ sentText \in Nat
    BY <1>p DEF ToAnthropicTypeOK
  <2>2. /\ answer'.tokens = Larger(output_tokens, IF saw_usage THEN 0 ELSE 1)
        /\ UNCHANGED <<usageVars, upstreamVars>>
    BY <1>3 DEF YieldMessageDelta
  <2> QED BY <2>1, <2>2 DEF usageVars, upstreamVars, Larger
<1>4. CASE YieldMessageStop
  <2>1. reply = "ended"
    BY <1>4, <1>p DEF YieldMessageStop, PlaceTells
  <2> QED BY <1>4, <2>1 DEF YieldMessageStop, usageVars, upstreamVars, Larger
<1>5. CASE \/ YieldMessageStart \/ YieldTextBlock \/ YieldText \/ CloseTextForTool
           \/ YieldToolBlock \/ YieldArguments \/ NoArguments \/ EndOfLine
           \/ SourceEnds \/ SourceBreaks \/ CloseText
           \/ \E s \in Slots : CloseTool(s)
  <2>1. UNCHANGED <<usageVars, upstreamVars, answer>> /\ reply' \in {reply, "open", "broken"}
    BY <1>5 DEF YieldMessageStart, YieldTextBlock, YieldText, CloseTextForTool,
       YieldToolBlock, YieldArguments, NoArguments, EndOfLine, SourceEnds,
       SourceBreaks, CloseText, CloseTool, YieldStart, YieldDelta, YieldStop, clientVars
  <2> QED BY <2>1 DEF usageVars, upstreamVars, Larger
<1> QED BY <1>1, <1>2, <1>3, <1>4, <1>5, ReportsAssumption DEF ToAnthropicNext

\* A count the upstream reported, not smaller than the estimate before it, is what
\* the closing events carry.
THEOREM FinalCountReported == ToAnthropicSpec => []FinalCountIsReported
<1>1. ToAnthropicInit => CountInv
  BY DEF ToAnthropicInit, CountInv, FinalCountIsReported
<1>2. CountInv => FinalCountIsReported
  BY DEF CountInv
<1> QED BY <1>1, <1>2, StreamStarts, StreamKept, CountKept, PTL DEF ToAnthropicSpec

\* No fragment is lost on the way through a line: what is held of it loses
\* its head with every call that is done.
Of(q, s) == {n \in DOMAIN q : q[n].slot = s /\ q[n].args}

LEMMA HeldFinite ==
    ASSUME NEW q \in Seq(Call), NEW s
    PROVE  IsFiniteSet(Of(q, s)) /\ Cardinality(Of(q, s)) \in Nat
<1>1. Len(q) \in Nat /\ DOMAIN q = 1 .. Len(q)
  OBVIOUS
<1>2. IsFiniteSet(1 .. Len(q))
  BY <1>1, FS_Interval
<1>3. Of(q, s) \in SUBSET (1 .. Len(q))
  BY <1>1 DEF Of
<1> QED BY <1>2, <1>3, FS_Subset, FS_CardinalityType

LEMMA HeadIsDone ==
    ASSUME NEW q \in Seq(Call), q # <<>>, NEW s
    PROVE  Cardinality(Of(q, s)) = Cardinality(Of(Tail(q), s))
               + IF Head(q).slot = s /\ Head(q).args THEN 1 ELSE 0
<1> DEFINE S == Of(q, s)
           T == Of(Tail(q), s)
           f == [n \in T |-> n + 1]
<1>1. /\ Len(q) \in Nat /\ Len(q) >= 1 /\ DOMAIN q = 1 .. Len(q)
      /\ Tail(q) \in Seq(Call) /\ DOMAIN Tail(q) = 1 .. Len(q) - 1
      /\ \A n \in 1 .. Len(q) - 1 : Tail(q)[n] = q[n + 1]
      /\ Head(q) = q[1]
  OBVIOUS
<1>2. T = {n \in 1 .. Len(q) - 1 : q[n + 1].slot = s /\ q[n + 1].args}
  BY <1>1 DEF Of
<1>3. S = {n \in 1 .. Len(q) : q[n].slot = s /\ q[n].args}
  BY <1>1 DEF Of
<1>4. 1 \in S <=> Head(q).slot = s /\ Head(q).args
  BY <1>1, <1>3
<1>5. \A n \in T : n \in Nat /\ n + 1 \in S \ {1}
  BY <1>1, <1>2, <1>3
<1>6. \A m \in S \ {1} : m - 1 \in T /\ m = (m - 1) + 1
  BY <1>1, <1>2, <1>3
<1>f. /\ IsFiniteSet(S) /\ Cardinality(S) \in Nat
      /\ IsFiniteSet(T) /\ Cardinality(T) \in Nat
  BY <1>1, HeldFinite
<1> HIDE DEF S, T
<1>7. f \in Bijection(T, S \ {1})
  <2>1. f \in [T -> S \ {1}]
    BY <1>5
  <2>2. \A a, b \in T : f[a] = f[b] => a = b
    BY <1>5
  <2>3. \A m \in S \ {1} : \E n \in T : f[n] = m
    BY <1>6
  <2> QED BY <2>1, <2>2, <2>3 DEF Bijection, Injection, Surjection, IsInjective
<1>8. Cardinality(S \ {1}) = Cardinality(T)
  <2>1. ExistsBijection(T, S \ {1})
    BY <1>7 DEF ExistsBijection
  <2> QED BY <1>f, <2>1, FS_Bijection
<1>9. Cardinality(S \ {1}) = IF 1 \in S THEN Cardinality(S) - 1 ELSE Cardinality(S)
  BY <1>f, FS_RemoveElement
<1>10. Cardinality(S) = Cardinality(T) + IF 1 \in S THEN 1 ELSE 0
  BY <1>f, <1>8, <1>9
<1> QED BY <1>4, <1>10 DEF S, T

\* Between lines nothing is held, and blocks not opened yet are empty.
FragmentsInv ==
    /\ at # "line" => text = FALSE /\ calls = <<>>
    /\ \A i \in Blocks : i >= next_index => got[i] = 0
    /\ FragmentsReachTheirBlock

LEMMA FragmentsStart == ToAnthropicInit => FragmentsInv
<1> SUFFICES ASSUME ToAnthropicInit PROVE FragmentsInv
  OBVIOUS
<1>1. \A s \in Slots : Of(calls, s) = {}
  BY DEF ToAnthropicInit, Of
<1>2. \A s \in Slots : Held(s) = 0
  BY <1>1, FS_EmptySet DEF Held, Of
<1>3. \A s \in Slots : tool_index_by_slot[s] = 0 /\ sentParts[s] = 0
  BY DEF ToAnthropicInit
<1>4. got[0] = 0 /\ sentText = 0 /\ text = FALSE /\ \A i \in Blocks : got[i] = 0
  BY BlocksFinite DEF ToAnthropicInit
<1>5. FragmentsReachTheirBlock
  <2>1. got[0] + (IF text THEN 1 ELSE 0) = sentText
    BY <1>4
  <2>2. \A s \in Slots : (IF tool_index_by_slot[s] = 0 THEN 0 ELSE got[tool_index_by_slot[s]])
                           + Held(s) = sentParts[s]
    BY <1>2, <1>3
  <2>3. ToAnthropicInit => \A s, t \in Slots :
           tool_index_by_slot[s] = tool_index_by_slot[t] =>
               s = t \/ tool_index_by_slot[s] = 0
    BY <1>3
  <2> QED BY <2>1, <2>2, <2>3 DEF FragmentsReachTheirBlock
<1> QED BY <1>4, <1>5 DEF FragmentsInv, ToAnthropicInit

\* What a slot's block has got.
Arrived(s) == IF tool_index_by_slot[s] = 0 THEN 0 ELSE got[tool_index_by_slot[s]]

LEMMA FragmentsKept ==
    ASSUME StreamInv, StreamInv', FragmentsInv, [ToAnthropicNext]_toAnthropicVars
    PROVE  FragmentsInv'
<1>p. /\ ToAnthropicTypeOK /\ SlotsIndexed /\ SlotsIndexed' /\ FragmentsReachTheirBlock
      /\ \A s \in Slots : Arrived(s) + Held(s) = sentParts[s]
      /\ got[0] + (IF text THEN 1 ELSE 0) = sentText
  BY DEF StreamInv, FragmentsInv, FragmentsReachTheirBlock, Arrived
<1>s. \A s, t \in Slots : tool_index_by_slot'[s] = tool_index_by_slot'[t] =>
               s = t \/ tool_index_by_slot'[s] = 0
  BY <1>p DEF SlotsIndexed
<1>t. /\ \A s \in Slots : tool_index_by_slot[s] \in Blocks
      /\ \A i \in Blocks : got[i] \in Nat
      /\ calls \in Seq(Call) /\ 0 \in Blocks /\ sentText \in Nat
      /\ \A s \in Slots : sentParts[s] \in Nat
  BY <1>p, BlocksFinite DEF ToAnthropicTypeOK
<1>h. /\ \A s \in Slots : Held(s) = Cardinality(Of(calls, s)) /\ Held(s) \in Nat
      /\ \A s \in Slots : Held(s)' = Cardinality(Of(calls', s))
  BY <1>t, HeldFinite DEF Held, Of
<1>g. ASSUME at' # "line" => text' = FALSE /\ calls' = <<>>,
             \A i \in Blocks : i >= next_index' => got'[i] = 0,
             \A s \in Slots : Arrived(s)' + Held(s)' = sentParts'[s],
             got'[0] + (IF text' THEN 1 ELSE 0) = sentText'
      PROVE  FragmentsInv'
  BY <1>g, <1>s DEF FragmentsInv, FragmentsReachTheirBlock, Arrived
<1>e. ASSUME UNCHANGED <<calls, tool_index_by_slot, got, sentParts>>
      PROVE  \A s \in Slots : Arrived(s)' + Held(s)' = sentParts'[s]
  BY <1>e, <1>p DEF Arrived, Held
<1>1. CASE \/ YieldMessageStart \/ YieldTextBlock \/ CloseTextForTool \/ EndOfLine
           \/ SourceEnds \/ SourceBreaks \/ CloseText \/ YieldMessageDelta
           \/ YieldMessageStop \/ UNCHANGED toAnthropicVars
           \/ \E s \in Slots : CloseTool(s)
  <2> USE DEF YieldMessageStart, YieldTextBlock, CloseTextForTool, EndOfLine, SourceEnds,
              SourceBreaks, CloseText, YieldMessageDelta, YieldMessageStop, CloseTool
  <2>1. UNCHANGED <<calls, text, tool_index_by_slot, next_index, got, sentParts, sentText>>
    BY <1>1 DEF YieldStart, YieldStop, toAnthropicVars, lineVars, indexVars, upstreamVars, clientVars
  <2>2. at' = "line" \/ at # "line" \/ (text = FALSE /\ calls = <<>>)
    <3>1. CASE EndOfLine
      BY <1>p, <3>1 DEF ToAnthropicTypeOK
    <3>2. CASE ~EndOfLine
      BY <1>1, <3>2 DEF AtCall, toAnthropicVars
    <3> QED BY <3>1, <3>2
  <2>3. at' # "line" => text' = FALSE /\ calls' = <<>>
    BY <2>1, <2>2 DEF FragmentsInv
  <2>4. \A i \in Blocks : i >= next_index' => got'[i] = 0
    BY <2>1 DEF FragmentsInv
  <2>5. got'[0] + (IF text' THEN 1 ELSE 0) = sentText'
    BY <1>p, <2>1
  <2> QED BY <1>g, <1>e, <2>1, <2>3, <2>4, <2>5
<1>2. ASSUME NEW t \in BOOLEAN, NEW cs \in Seq(Call), NEW r, NEW w, NEW tokens,
             ReadLine(t, cs, r, w, tokens)
      PROVE  FragmentsInv'
  <2>1. /\ at' = "line" /\ text' = t /\ calls' = cs /\ text = FALSE /\ calls = <<>>
        /\ UNCHANGED <<tool_index_by_slot, next_index, got>>
        /\ sentText' = IF t THEN sentText + 1 ELSE sentText
        /\ sentParts' = [s \in Slots |-> sentParts[s] + Cardinality(Of(cs, s))]
    BY <1>2 DEF ReadLine, FragmentsInv, indexVars, clientVars, Of
  <2>2. \A s \in Slots : Of(calls, s) = {}
    BY <2>1 DEF Of
  <2>3. \A s \in Slots : Held(s) = 0
    BY <1>h, <2>2, FS_EmptySet
  <2>4. \A s \in Slots : Arrived(s)' + Held(s)' = sentParts'[s]
    <3> SUFFICES ASSUME NEW s \in Slots PROVE Arrived(s)' + Held(s)' = sentParts'[s]
      OBVIOUS
    <3>1. Arrived(s)' = Arrived(s) /\ Arrived(s) \in Nat
      BY <1>t, <2>1 DEF Arrived
    <3>2. Held(s)' = Cardinality(Of(cs, s)) /\ Held(s)' \in Nat
      BY <1>h, <2>1, HeldFinite
    <3>3. sentParts'[s] = sentParts[s] + Held(s)' /\ sentParts[s] = Arrived(s)
      BY <1>p, <2>1, <2>3, <3>1, <3>2
    <3> QED BY <3>1, <3>2, <3>3
  <2>5. got'[0] + (IF text' THEN 1 ELSE 0) = sentText'
    BY <1>p, <1>t, <2>1
  <2>6. \A i \in Blocks : i >= next_index' => got'[i] = 0
    BY <2>1 DEF FragmentsInv
  <2> QED BY <1>g, <2>1, <2>4, <2>5, <2>6
<1>3. CASE YieldText
  <2>1. /\ at = "line" /\ at' = at /\ text /\ text' = FALSE
        /\ UNCHANGED <<calls, tool_index_by_slot, next_index, sentParts, sentText>>
        /\ got' = [got EXCEPT ![0] = got[0] + 1]
    BY <1>3 DEF YieldText, YieldDelta, indexVars, upstreamVars
  <2>2. /\ got'[0] = got[0] + 1
        /\ \A i \in Blocks : i # 0 => got'[i] = got[i]
    BY <1>p, <1>t, <2>1 DEF ToAnthropicTypeOK
  <2>3. \A s \in Slots : Arrived(s)' = Arrived(s) /\ Held(s)' = Held(s)
    BY <1>t, <2>1, <2>2 DEF Arrived, Held
  <2>4. next_index > 0
    <3> DEFINE used == {s \in Slots : tool_index_by_slot[s] # 0}
    <3>1. used \in SUBSET Slots
      OBVIOUS
    <3>2. Cardinality(used) \in Nat
      BY <3>1, SlotsAssumption, FS_Subset, FS_CardinalityType
    <3>3. next_index = 1 + Cardinality(used)
      BY <1>p DEF SlotsIndexed
    <3> HIDE DEF used
    <3> QED BY <3>2, <3>3
  <2> QED BY <1>g, <1>p, <1>t, <2>1, <2>2, <2>3, <2>4 DEF FragmentsInv
<1>4. CASE YieldToolBlock
  <2>1. /\ at = "line" /\ at' = at /\ calls # <<>>
        /\ UNCHANGED <<calls, text, got, sentParts, sentText>>
        /\ tool_index_by_slot[Head(calls).slot] = 0 /\ next_index' = next_index + 1
        /\ tool_index_by_slot' = [tool_index_by_slot EXCEPT ![Head(calls).slot] = next_index]
    BY <1>4 DEF YieldToolBlock, YieldStart, AtCall, lineVars, upstreamVars
  <2>2. Head(calls).slot \in Slots /\ next_index \in Nat
    BY <1>p, <2>1, HeadOfLine DEF ToAnthropicTypeOK
  <2>3. next_index \in Blocks /\ next_index # 0
    <3>1. tool_index_by_slot'[Head(calls).slot] = next_index
      BY <1>p, <2>1, <2>2 DEF ToAnthropicTypeOK
    <3>2. tool_index_by_slot'[Head(calls).slot] \in Blocks
      BY <2>2 DEF StreamInv, ToAnthropicTypeOK
    <3>3. tool_index_by_slot[Head(calls).slot] < next_index
      BY <1>p, <2>2 DEF SlotsIndexed
    <3> QED BY <2>1, <2>2, <3>1, <3>2, <3>3
  <2>4. got[next_index] = 0
    BY <2>2, <2>3 DEF FragmentsInv
  <2>5. \A s \in Slots : Arrived(s)' = Arrived(s) /\ Held(s)' = Held(s)
    <3> SUFFICES ASSUME NEW s \in Slots PROVE Arrived(s)' = Arrived(s) /\ Held(s)' = Held(s)
      OBVIOUS
    <3>1. CASE s = Head(calls).slot
      <4>1. tool_index_by_slot'[s] = next_index /\ tool_index_by_slot[s] = 0
        BY <1>p, <2>1, <2>2, <3>1 DEF ToAnthropicTypeOK
      <4> QED BY <2>1, <2>3, <2>4, <4>1 DEF Arrived, Held
    <3>2. CASE s # Head(calls).slot
      <4>1. tool_index_by_slot'[s] = tool_index_by_slot[s]
        BY <1>p, <2>1, <2>2, <3>2 DEF ToAnthropicTypeOK
      <4> QED BY <2>1, <4>1 DEF Arrived, Held
    <3> QED BY <3>1, <3>2
  <2>6. \A i \in Blocks : i >= next_index' => got'[i] = 0
    <3>1. \A i \in Blocks : i \in Nat
      BY DEF Blocks
    <3> QED BY <2>1, <2>2, <3>1 DEF FragmentsInv
  <2> QED BY <1>g, <1>p, <2>1, <2>5, <2>6
<1>5. CASE YieldArguments
  <2> DEFINE b == tool_index_by_slot[Head(calls).slot]
  <2>1. /\ at = "line" /\ at' = at /\ calls # <<>> /\ calls' = Tail(calls) /\ Head(calls).args
        /\ UNCHANGED <<text, tool_index_by_slot, next_index, sentParts, sentText>>
        /\ b # 0 /\ got' = [got EXCEPT ![b] = got[b] + 1]
    BY <1>5 DEF YieldArguments, YieldDelta, AtCall, indexVars, upstreamVars
  <2>2. Head(calls).slot \in Slots /\ b \in Blocks
    BY <1>p, <1>t, <2>1, HeadOfLine
  <2>3. b < next_index
    BY <1>p, <2>2 DEF SlotsIndexed
  <2>b. \A s \in Slots : tool_index_by_slot[s] = b <=> s = Head(calls).slot
    BY <1>p, <2>1, <2>2 DEF SlotsIndexed
  <2> HIDE DEF b
  <2>4. /\ got'[b] = got[b] + 1
        /\ \A i \in Blocks : i # b => got'[i] = got[i]
    BY <1>p, <2>1, <2>2 DEF ToAnthropicTypeOK
  <2>5. \A s \in Slots : Arrived(s)' + Held(s)' = sentParts'[s]
    <3> SUFFICES ASSUME NEW s \in Slots PROVE Arrived(s)' + Held(s)' = sentParts'[s]
      OBVIOUS
    <3>1. Held(s) = Held(s)' + IF Head(calls).slot = s THEN 1 ELSE 0
      BY <1>h, <1>t, <2>1, HeadIsDone
    <3>2. Held(s)' \in Nat
      <4>1. Tail(calls) \in Seq(Call)
        BY <1>t, <2>1
      <4> QED BY <1>h, <2>1, <4>1, HeldFinite
    <3>3. Arrived(s) \in Nat /\ Arrived(s)' = Arrived(s) + IF Head(calls).slot = s THEN 1 ELSE 0
      <4>1. CASE Head(calls).slot = s
        <5>1. tool_index_by_slot[s] = b /\ tool_index_by_slot'[s] = b
          BY <2>1, <2>b, <4>1
        <5>2. Arrived(s) = got[b] /\ Arrived(s)' = got'[b]
          BY <2>1, <5>1 DEF Arrived
        <5> QED BY <1>t, <2>2, <2>4, <4>1, <5>2
      <4>2. CASE Head(calls).slot # s
        <5>1. tool_index_by_slot[s] # b /\ tool_index_by_slot'[s] = tool_index_by_slot[s]
          BY <2>1, <2>b, <4>2
        <5>2. Arrived(s)' = Arrived(s) /\ Arrived(s) \in Nat
          BY <1>t, <2>4, <5>1 DEF Arrived
        <5> QED BY <4>2, <5>2
      <4> QED BY <4>1, <4>2
    <3>4. sentParts'[s] = Arrived(s) + Held(s)
      BY <1>p, <2>1
    <3> QED BY <3>1, <3>2, <3>3, <3>4
  <2>6. \A i \in Blocks : i >= next_index' => got'[i] = 0
    <3> SUFFICES ASSUME NEW i \in Blocks, i >= next_index' PROVE got'[i] = 0
      OBVIOUS
    <3>1. i \in Nat /\ b \in Nat /\ next_index \in Nat
      BY <1>p, <2>2 DEF Blocks, ToAnthropicTypeOK
    <3>2. i # b /\ got[i] = 0
      BY <2>1, <2>3, <3>1 DEF FragmentsInv
    <3> QED BY <2>4, <3>2
  <2>7. got'[0] = got[0]
    BY <1>t, <2>1, <2>4
  <2> QED BY <1>g, <1>p, <2>1, <2>5, <2>6, <2>7
<1>6. CASE NoArguments
  <2>1. /\ at = "line" /\ at' = at /\ calls # <<>> /\ calls' = Tail(calls) /\ ~Head(calls).args
        /\ UNCHANGED <<text, tool_index_by_slot, next_index, got, sentParts, sentText>>
    BY <1>6 DEF NoArguments, AtCall, indexVars, upstreamVars, clientVars
  <2>2. \A s \in Slots : Held(s)' = Held(s)
    <3> SUFFICES ASSUME NEW s \in Slots PROVE Held(s)' = Held(s)
      OBVIOUS
    <3>1. Tail(calls) \in Seq(Call)
      BY <1>t, <2>1
    <3>2. Cardinality(Of(Tail(calls), s)) \in Nat
      BY <3>1, HeldFinite
    <3>3. Cardinality(Of(calls, s)) = Cardinality(Of(Tail(calls), s)) + 0
      BY <1>t, <2>1, HeadIsDone
    <3> QED BY <1>h, <2>1, <3>2, <3>3
  <2>3. \A s \in Slots : Arrived(s)' = Arrived(s)
    BY <2>1 DEF Arrived
  <2> QED BY <1>g, <1>p, <2>1, <2>2, <2>3 DEF FragmentsInv
<1>7. \A n : Lines(n) \subseteq Seq(Call)
  BY DEF Lines
<1> QED BY <1>1, <1>2, <1>3, <1>4, <1>5, <1>6, <1>7 DEF ToAnthropicNext

\* No fragment of a tool call is lost, doubled or given to another call.
THEOREM FragmentsReach == ToAnthropicSpec => []FragmentsReachTheirBlock
<1>1. FragmentsInv => FragmentsReachTheirBlock
  BY DEF FragmentsInv
<1> QED BY <1>1, StreamStarts, StreamKept, FragmentsStart, FragmentsKept, PTL
        DEF ToAnthropicSpec

----------------------------------------------------------------------------
\* From Anthropic to OpenAI.

\* Where the generator is tells what both sides have seen.
TodoTells ==
    /\ todo = "role" => phase = "none" /\ upReply = "none"
    /\ todo = "read" => phase \in {"open", "finished"}
                          /\ upReply \notin {"stopped", "broken"}
    /\ phase = "finished" /\ todo = "read" => upReply = "ended"
    /\ todo = "usage" => phase \in {"open", "finished"} /\ upReply = "stopped"
                          /\ upSawUsage /\ (include_usage \/ ~usage_emitted)
    /\ todo = "done" => phase \in {"open", "finished", "failed"}
                          /\ upReply \in {"stopped", "broken"}
    /\ todo = "drain" => phase = "done" /\ upReply \in {"stopped", "broken"}

\* Slots are given out in the order of the blocks.
SlotsOrdered ==
    /\ tools = next_tool_slot
    /\ \A i \in UpIndexes : upKind[i] = "none" => next_tool_slot <= i
    /\ \A i \in UpIndexes : upKind[i] = "tool" <=> block_tool_slot[i] # NoSlot
    /\ \A i \in UpIndexes : upKind[i] # "tool" => upKind[i] = "text" \/ upGot[i] = 0
    /\ \A s \in ToolSlots : s >= next_tool_slot => parts[s] = 0

\* The usage was told at most once so far.
UsageInv ==
    /\ todo \in {"role", "read", "usage"} => counts = (IF usage_emitted THEN 1 ELSE 0)
    /\ todo = "role" \/ (todo = "read" /\ phase = "open") => ~usage_emitted
    /\ usage_emitted => upSawUsage /\ ~include_usage
    /\ usage_emitted /\ counts = 1 => said = atFinish
    /\ upReply = "stopped" /\ todo = "done" =>
         IF upSawUsage
           THEN counts = 1 /\ said = (IF usage_emitted THEN atFinish ELSE upTokens)
           ELSE counts = 0
    /\ UsageOnce

ChunkInv == ToOpenAITypeOK /\ TodoTells /\ SlotsOrdered /\ ToolCallsReachClient
               /\ UsageInv

LEMMA ChunksStart == ToOpenAIInit => ChunkInv
<1> SUFFICES ASSUME ToOpenAIInit PROVE ChunkInv
  OBVIOUS
<1> USE UpIndexAssumption DEF ToOpenAIInit, Up!Init, UpIndexes, ToolSlots, NoSlot,
        Up!Indexes
<1>1. ToOpenAITypeOK
  <2>1. upSawUsage \in BOOLEAN /\ usage_emitted \in BOOLEAN /\ include_usage \in BOOLEAN
    BY Zenon
  <2> QED BY <2>1 DEF ToOpenAITypeOK
<1>2. TodoTells /\ SlotsOrdered /\ ToolCallsReachClient
  BY DEF TodoTells, SlotsOrdered, ToolCallsReachClient
<1>3. UsageInv
  BY DEF UsageInv, UsageOnce
<1> QED BY <1>1, <1>2, <1>3 DEF ChunkInv

\* The counts of tokens and the slots are independent of each other; these
\* two lemmas say what keeps each of them.
LEMMA SlotsUntouched ==
    ASSUME SlotsOrdered, ToolCallsReachClient, UNCHANGED <<slotVars, upKind, upGot, tools, parts>>
    PROVE  SlotsOrdered' /\ ToolCallsReachClient'
BY DEF SlotsOrdered, ToolCallsReachClient, slotVars

LEMMA ChunksTyped ==
    ASSUME ChunkInv, ToOpenAINext PROVE ToOpenAITypeOK'
<1> USE UpIndexAssumption, UpTokensAssumption DEF ChunkInv, ToOpenAITypeOK, UpIndexes,
        ToolSlots, NoSlot, Up!Indexes, upVars, slotVars, countVars, readerVars
<1>1. CASE YieldRole \/ MessageStop \/ UpstreamError \/ YieldDone \/ UpstreamEnds
           \/ UpstreamBreaks
  BY <1>1, ZenonT(30) DEF YieldRole, MessageStop, UpstreamError, YieldDone, UpstreamEnds,
     UpstreamBreaks, Up!StopMessage, Up!Break
<1>2. CASE YieldFinalUsage
  BY <1>2 DEF YieldFinalUsage, YieldUsage
<1>3. ASSUME NEW w \in BOOLEAN, NEW tokens \in Nat, MessageStart(w, tokens)
      PROVE  ToOpenAITypeOK'
  BY <1>3 DEF MessageStart, NoteUsage, Up!StartMessage
<1>4. ASSUME NEW r \in BOOLEAN, NEW w \in BOOLEAN, NEW tokens \in Nat,
             MessageDelta(r, w, tokens)
      PROVE  ToOpenAITypeOK'
  <2>1. upTokens' \in Nat /\ upSawUsage' \in BOOLEAN
    BY <1>4 DEF MessageDelta, NoteUsage
  <2>2. counts' \in Nat /\ said' \in Nat /\ atFinish' \in Nat
        /\ phase' \in {phase, "finished"}
    BY <1>4, <2>1 DEF MessageDelta, YieldUsage
  <2>3. usage_emitted' \in BOOLEAN
    BY <1>4, Zenon DEF MessageDelta
  <2> QED BY <1>4, <2>1, <2>2, <2>3 DEF MessageDelta, Up!EndMessage
<1>5. ASSUME NEW i \in UpIndexes, TextBlockStart(i) \/ BlockStop(i) \/ TextDelta(i)
      PROVE  ToOpenAITypeOK'
  <2>1. CASE TextBlockStart(i)
    BY <2>1 DEF TextBlockStart, Up!StartBlock
  <2>2. CASE BlockStop(i)
    BY <2>2 DEF BlockStop, Up!StopBlock
  <2>3. CASE TextDelta(i)
    <3>1. upGot' \in [UpIndexes -> Nat]
      BY <2>3 DEF TextDelta, Up!Fragment
    <3> QED BY <2>3, <3>1 DEF TextDelta, Up!Fragment
  <2> QED BY <1>5, <2>1, <2>2, <2>3
<1>6. ASSUME NEW i \in UpIndexes, ToolBlockStart(i) PROVE ToOpenAITypeOK'
  <2>1. next_tool_slot \in ToolSlots
    BY <1>6 DEF ToolBlockStart, Up!StartBlock, SlotsOrdered
  <2> QED BY <1>6, <2>1, SMTT(20) DEF ToolBlockStart, Up!StartBlock
<1>7. ASSUME NEW i \in UpIndexes, JsonDelta(i) PROVE ToOpenAITypeOK'
  <2>1. block_tool_slot[i] \in ToolSlots
    BY <1>7 DEF JsonDelta, SlotsOrdered
  <2>2. parts' \in [ToolSlots -> Nat]
    BY <1>7, <2>1 DEF JsonDelta
  <2>3. upGot' \in [UpIndexes -> Nat]
    <3>1. upGot' = [upGot EXCEPT ![i] = @ + 1]
      BY <1>7 DEF JsonDelta, Up!Fragment
    <3>2. upGot \in [UpIndexes -> Nat]
      OBVIOUS
    <3> QED BY <3>1, <3>2
  <2>4. UNCHANGED <<upReply, upKind, upLive, include_usage, todo, block_tool_slot,
                    next_tool_slot, upTokens, upSawUsage, usage_emitted, atFinish, phase,
                    tools, counts, said>>
    BY <1>7 DEF JsonDelta, Up!Fragment
  <2> QED BY <2>2, <2>3, <2>4, SMTT(20)
<1>8. 0 .. MaxUpTokens \subseteq Nat
  OBVIOUS
<1> HIDE DEF ChunkInv, ToOpenAITypeOK, UpIndexes
<1> QED BY <1>1, <1>2, <1>3, <1>4, <1>5, <1>6, <1>7, <1>8 DEF ToOpenAINext

LEMMA TodoKept == ASSUME ChunkInv, ToOpenAINext PROVE TodoTells'
<1> USE DEF ChunkInv, TodoTells, upVars, readerVars
<1>1. CASE YieldRole \/ MessageStop \/ UpstreamError \/ YieldDone \/ UpstreamEnds
           \/ UpstreamBreaks \/ YieldFinalUsage
  BY <1>1 DEF YieldRole, MessageStop, UpstreamError, YieldDone, UpstreamEnds,
     UpstreamBreaks, Up!StopMessage, Up!Break, YieldFinalUsage, YieldUsage, countVars
<1>2. ASSUME NEW w, NEW tokens, MessageStart(w, tokens) PROVE TodoTells'
  BY <1>2 DEF MessageStart, Up!StartMessage
<1>3. ASSUME NEW r, NEW w, NEW tokens, MessageDelta(r, w, tokens) PROVE TodoTells'
  BY <1>3 DEF MessageDelta, Up!EndMessage
<1>4. ASSUME NEW i, TextBlockStart(i) \/ ToolBlockStart(i) \/ BlockStop(i)
                     \/ TextDelta(i) \/ JsonDelta(i)
      PROVE  TodoTells'
  BY <1>4 DEF TextBlockStart, ToolBlockStart, BlockStop, TextDelta, JsonDelta,
     Up!StartBlock, Up!StopBlock, Up!Fragment
<1> QED BY <1>1, <1>2, <1>3, <1>4 DEF ToOpenAINext

LEMMA SlotsKept ==
    ASSUME ChunkInv, ToOpenAINext PROVE SlotsOrdered' /\ ToolCallsReachClient'
<1>p. ToOpenAITypeOK /\ SlotsOrdered /\ ToolCallsReachClient
  BY DEF ChunkInv
<1>1. CASE YieldRole \/ MessageStop \/ UpstreamError \/ YieldDone \/ UpstreamEnds
           \/ UpstreamBreaks \/ YieldFinalUsage
  BY <1>1, <1>p, SlotsUntouched
     DEF YieldRole, MessageStop, UpstreamError, YieldDone, UpstreamEnds, UpstreamBreaks,
     Up!StopMessage, Up!Break, YieldFinalUsage, YieldUsage, upVars, readerVars
<1>2. ASSUME NEW w, NEW tokens, MessageStart(w, tokens)
      PROVE  SlotsOrdered' /\ ToolCallsReachClient'
  BY <1>2, <1>p, SlotsUntouched DEF MessageStart, Up!StartMessage, readerVars
<1>3. ASSUME NEW r, NEW w, NEW tokens, MessageDelta(r, w, tokens)
      PROVE  SlotsOrdered' /\ ToolCallsReachClient'
  BY <1>3, <1>p, SlotsUntouched DEF MessageDelta, Up!EndMessage
<1> USE UpIndexAssumption DEF UpIndexes, ToolSlots, NoSlot, Up!Indexes
<1>4. ASSUME NEW i \in UpIndexes, BlockStop(i)
      PROVE  SlotsOrdered' /\ ToolCallsReachClient'
  BY <1>4, <1>p, SlotsUntouched DEF BlockStop, Up!StopBlock, readerVars
<1>5. ASSUME NEW i \in UpIndexes, TextBlockStart(i) \/ TextDelta(i)
      PROVE  SlotsOrdered' /\ ToolCallsReachClient'
  <2>1. UNCHANGED <<slotVars, tools, parts>>
    BY <1>5 DEF TextBlockStart, TextDelta, readerVars
  <2>2. \A j \in UpIndexes : upKind'[j] = "tool" <=> upKind[j] = "tool"
    BY <1>5, <1>p DEF TextBlockStart, TextDelta, Up!StartBlock, Up!Fragment, ToOpenAITypeOK
  <2>3. \A j \in UpIndexes : upKind[j] = "tool" => upGot'[j] = upGot[j]
    BY <1>5, <1>p DEF TextBlockStart, TextDelta, Up!StartBlock, Up!Fragment, ToOpenAITypeOK
  <2>4. \A j \in UpIndexes : /\ upKind'[j] = "none" => upKind[j] = "none"
                             /\ upKind'[j] # "tool" => upKind'[j] = "text" \/ upGot'[j] = 0
    BY <1>5, <1>p DEF TextBlockStart, TextDelta, Up!StartBlock, Up!Fragment,
       ToOpenAITypeOK, SlotsOrdered
  <2>5. SlotsOrdered'
    BY <1>p, <2>1, <2>2, <2>4 DEF SlotsOrdered, slotVars
  <2>6. ToolCallsReachClient'
    BY <1>p, <2>1, <2>2, <2>3 DEF ToolCallsReachClient, slotVars
  <2> QED BY <2>5, <2>6
<1>6. ASSUME NEW i \in UpIndexes, ToolBlockStart(i)
      PROVE  SlotsOrdered' /\ ToolCallsReachClient'
  <2>1. /\ upKind[i] = "none" /\ \A j \in UpIndexes : j < i => upKind[j] # "none"
        /\ upKind' = [upKind EXCEPT ![i] = "tool"]
        /\ block_tool_slot' = [block_tool_slot EXCEPT ![i] = next_tool_slot]
        /\ next_tool_slot' = next_tool_slot + 1 /\ tools' = tools + 1
        /\ UNCHANGED <<upGot, parts>>
    BY <1>6 DEF ToolBlockStart, Up!StartBlock
  <2>2. next_tool_slot <= i /\ next_tool_slot \in ToolSlots /\ next_tool_slot # NoSlot
    BY <1>p, <2>1 DEF SlotsOrdered, ToOpenAITypeOK
  <2>3. \A j \in UpIndexes :
          /\ upKind'[j] = IF j = i THEN "tool" ELSE upKind[j]
          /\ block_tool_slot'[j] = IF j = i THEN next_tool_slot ELSE block_tool_slot[j]
    BY <1>p, <2>1 DEF ToOpenAITypeOK
  <2>4. SlotsOrdered'
    <3>1. \A j \in UpIndexes : upKind'[j] = "none" => next_tool_slot' <= j
      BY <1>p, <2>1, <2>2, <2>3 DEF ToOpenAITypeOK
    <3>2. \A s \in ToolSlots : s >= next_tool_slot' => parts'[s] = 0
      BY <1>p, <2>1 DEF SlotsOrdered, ToOpenAITypeOK
    <3>3. \A j \in UpIndexes : upKind'[j] = "tool" <=> block_tool_slot'[j] # NoSlot
      BY <1>p, <2>2, <2>3 DEF SlotsOrdered
    <3>4. \A j \in UpIndexes : upKind'[j] # "tool" => upKind'[j] = "text" \/ upGot'[j] = 0
      BY <1>p, <2>1, <2>3 DEF SlotsOrdered
    <3> QED BY <1>p, <2>1, <3>1, <3>2, <3>3, <3>4 DEF SlotsOrdered
  <2>5. parts[next_tool_slot] = 0 /\ upGot[i] = 0
    BY <1>p, <2>1, <2>2 DEF SlotsOrdered, ToOpenAITypeOK
  <2>6. \A j \in UpIndexes : upKind[j] = "tool" => block_tool_slot[j] < next_tool_slot
    BY <1>p DEF ToolCallsReachClient, SlotsOrdered
  <2>t. next_tool_slot \in Nat /\ tools = next_tool_slot
        /\ block_tool_slot \in [UpIndexes -> Nat]
    BY <1>p DEF SlotsOrdered, ToOpenAITypeOK
  <2>7. \A j \in UpIndexes : upKind'[j] = "tool" =>
           block_tool_slot'[j] < tools' /\ parts'[block_tool_slot'[j]] = upGot'[j]
    BY <1>p, <2>1, <2>3, <2>5, <2>6, <2>t DEF ToolCallsReachClient
  <2>8. \A j, k \in UpIndexes :
           upKind'[j] = "tool" /\ upKind'[k] = "tool"
             /\ block_tool_slot'[j] = block_tool_slot'[k] => j = k
    BY <1>p, <2>3, <2>6, <2>t DEF ToolCallsReachClient
  <2> QED BY <2>4, <2>7, <2>8 DEF ToolCallsReachClient
<1>7. ASSUME NEW i \in UpIndexes, JsonDelta(i)
      PROVE  SlotsOrdered' /\ ToolCallsReachClient'
  <2> DEFINE slot == block_tool_slot[i]
  <2>1. upKind[i] = "tool" /\ slot \in ToolSlots /\ slot # NoSlot /\ slot < tools
    BY <1>7, <1>p DEF JsonDelta, SlotsOrdered, ToOpenAITypeOK, ToolCallsReachClient
  <2>2. /\ parts' = [parts EXCEPT ![slot] = @ + 1]
        /\ upGot' = [upGot EXCEPT ![i] = @ + 1]
        /\ UNCHANGED <<upKind, block_tool_slot, next_tool_slot, tools>>
    BY <1>7, <2>1 DEF JsonDelta, Up!Fragment, slotVars
  <2>3. SlotsOrdered'
    <3>1. SlotsOrdered /\ upGot \in [UpIndexes -> Nat] /\ parts \in [ToolSlots -> Nat]
          /\ tools \in Nat
      BY <1>p DEF ToOpenAITypeOK
    <3>2. \A j \in UpIndexes : upKind[j] # "tool" => upGot'[j] = upGot[j]
      BY <2>1, <2>2, <3>1
    <3>3. \A s \in ToolSlots : s >= next_tool_slot => parts'[s] = parts[s]
      <4>1. tools = next_tool_slot
        BY <3>1 DEF SlotsOrdered
      <4>2. \A s \in ToolSlots : s >= tools => s # slot
        BY <2>1, <3>1
      <4>3. QED
        BY <2>2, <3>1, <4>1, <4>2
    <3> QED BY <2>2, <3>1, <3>2, <3>3 DEF SlotsOrdered
  <2>4. \A j \in UpIndexes : upKind[j] = "tool" /\ j # i => block_tool_slot[j] # slot
    BY <1>p, <2>1 DEF ToolCallsReachClient
  <2>5. \A j \in UpIndexes : upKind[j] = "tool" => parts'[block_tool_slot[j]] = upGot'[j]
    BY <1>p, <2>1, <2>2, <2>4 DEF ToolCallsReachClient, ToOpenAITypeOK, SlotsOrdered
  <2>6. ToolCallsReachClient'
    BY <1>p, <2>2, <2>5 DEF ToolCallsReachClient
  <2> QED BY <2>3, <2>6
<1> QED BY <1>1, <1>2, <1>3, <1>4, <1>5, <1>6, <1>7 DEF ToOpenAINext

LEMMA UsageKept == ASSUME ChunkInv, ToOpenAINext PROVE UsageInv'
<1> USE DEF UsageInv, UsageOnce
<1>p. UsageInv /\ TodoTells /\ ToOpenAITypeOK
  BY DEF ChunkInv
<1>1. CASE YieldRole \/ UpstreamError \/ YieldDone \/ UpstreamEnds \/ UpstreamBreaks
  <2>1. UNCHANGED <<include_usage, upTokens, upSawUsage, usage_emitted, atFinish, counts, said>>
    BY <1>1 DEF YieldRole, UpstreamError, YieldDone, UpstreamEnds, UpstreamBreaks,
       countVars, readerVars
  <2>2. \/ todo = "role" /\ todo' = "read" /\ upReply' = "none"
        \/ todo = "read" /\ upReply' = "broken" /\ todo' \in {"done", "end"}
        \/ todo \in {"done", "drain"} /\ todo' \in {"drain", "end"} /\ upReply' = upReply
    BY <1>1, <1>p DEF YieldRole, UpstreamError, YieldDone, UpstreamEnds, UpstreamBreaks,
       upVars, Up!Break, TodoTells
  <2> QED BY <1>p, <2>1, <2>2
<1>2. CASE MessageStop
  <2>1. UNCHANGED <<include_usage, upTokens, upSawUsage, usage_emitted, atFinish, counts, said>>
    BY <1>2 DEF MessageStop, countVars, readerVars
  <2>2. todo = "read" /\ upReply' = "stopped"
        /\ todo' = IF upSawUsage /\ (include_usage \/ ~usage_emitted) THEN "usage" ELSE "done"
    BY <1>2 DEF MessageStop, Up!StopMessage
  <2> QED BY <1>p, <2>1, <2>2
<1>3. CASE YieldFinalUsage
  <2>1. /\ todo = "usage" /\ todo' = "done" /\ said' = upTokens /\ counts' = counts + 1
        /\ UNCHANGED <<include_usage, upTokens, upSawUsage, usage_emitted, atFinish, upReply>>
    BY <1>3 DEF YieldFinalUsage, YieldUsage, countVars, upVars
  <2>2. upSawUsage /\ ~usage_emitted
    BY <1>p, <2>1 DEF TodoTells
  <2>3. counts' = 1
    BY <1>p, <2>1, <2>2
  <2> QED BY <1>p, <2>1, <2>2, <2>3
<1>4. ASSUME NEW w, NEW tokens, MessageStart(w, tokens) PROVE UsageInv'
  <2>1. /\ todo = "read" /\ upReply' = "open" /\ upSawUsage' = (upSawUsage \/ w)
        /\ UNCHANGED <<include_usage, todo, usage_emitted, atFinish, counts, said, phase>>
    BY <1>4 DEF MessageStart, NoteUsage, Up!StartMessage, readerVars
  <2> QED BY <1>p, <2>1
<1>5. ASSUME NEW r \in BOOLEAN, NEW w, NEW tokens, MessageDelta(r, w, tokens) PROVE UsageInv'
  <2>1. /\ todo = "read" /\ todo' = "read" /\ upReply' = "ended"
        /\ upSawUsage' = (upSawUsage \/ w) /\ include_usage' = include_usage
    BY <1>5 DEF MessageDelta, NoteUsage, Up!EndMessage
  <2>2. CASE ~r
    <3>1. UNCHANGED <<usage_emitted, atFinish, counts, said, phase>>
      BY <1>5, <2>2 DEF MessageDelta
    <3> QED BY <1>p, <2>1, <3>1
  <2>3. CASE r
    <3>1. phase = "open" /\ phase' = "finished"
      BY <1>5, <2>3 DEF MessageDelta
    <3>2. usage_emitted' = (upSawUsage' /\ ~include_usage) /\ atFinish' = upTokens'
      BY <1>5, <2>3 DEF MessageDelta
    <3>3. IF usage_emitted' THEN said' = upTokens' /\ counts' = counts + 1
                            ELSE UNCHANGED <<counts, said>>
      BY <1>5, <2>3, <3>2 DEF MessageDelta, YieldUsage
    <3>4. counts = 0 /\ ~usage_emitted
      BY <1>p, <2>1, <3>1 DEF UsageInv
    <3>5. CASE usage_emitted'
      <4>1. upSawUsage' /\ ~include_usage' /\ counts' = 1 /\ said' = atFinish'
        <5>1. counts' = 1 /\ said' = atFinish'
          BY <3>2, <3>3, <3>4, <3>5
        <5>2. upSawUsage' /\ ~include_usage
          BY <3>2, <3>5, Zenon
        <5> QED BY <2>1, <5>1, <5>2
      <4> QED BY <2>1, <3>1, <3>5, <4>1
    <3>6. CASE ~usage_emitted'
      <4>1. counts' = 0
        BY <3>3, <3>4, <3>6
      <4> QED BY <2>1, <3>1, <3>6, <4>1
    <3> QED BY <3>5, <3>6
  <2> QED BY <2>2, <2>3
<1>6. ASSUME NEW i, TextBlockStart(i) \/ ToolBlockStart(i) \/ BlockStop(i)
                     \/ TextDelta(i) \/ JsonDelta(i)
      PROVE  UsageInv'
  <2>1. /\ todo = "read" /\ UNCHANGED <<todo, upReply, phase>>
        /\ UNCHANGED <<include_usage, upTokens, upSawUsage, usage_emitted, atFinish, counts, said>>
    BY <1>6 DEF TextBlockStart, ToolBlockStart, BlockStop, TextDelta, JsonDelta,
       Up!StartBlock, Up!StopBlock, Up!Fragment, countVars, readerVars
  <2> QED BY <1>p, <2>1
<1> QED BY <1>1, <1>2, <1>3, <1>4, <1>5, <1>6 DEF ToOpenAINext

LEMMA ChunksKept == ASSUME ChunkInv, [ToOpenAINext]_toOpenAIVars PROVE ChunkInv'
<1>1. CASE ToOpenAINext
  BY <1>1, ChunksTyped, TodoKept, SlotsKept, UsageKept DEF ChunkInv
<1>2. CASE UNCHANGED toOpenAIVars
  BY <1>2 DEF toOpenAIVars, upVars, slotVars, countVars, readerVars, ChunkInv,
     ToOpenAITypeOK, TodoTells, SlotsOrdered, ToolCallsReachClient, UsageInv, UsageOnce
<1> QED BY <1>1, <1>2

\* Nothing of a tool call is lost on the way to an OpenAI client.
THEOREM ToolCallsReach == ToOpenAISpec => []ToolCallsReachClient
<1>1. ChunkInv => ToolCallsReachClient
  BY DEF ChunkInv
<1> QED BY <1>1, ChunksStart, ChunksKept, PTL DEF ToOpenAISpec

\* A stream read to its end tells its usage once.
THEOREM UsageToldOnce == ToOpenAISpec => []UsageOnce
<1>1. ChunkInv => UsageOnce
  BY DEF ChunkInv, UsageInv
<1> QED BY <1>1, ChunksStart, ChunksKept, PTL DEF ToOpenAISpec

\* The chunks have the grammar of the OpenAI dialect.
THEOREM OpenAIStreamWellFormed == ToOpenAISpec => ImplementsOpenAIStream
<1>1. ToOpenAIInit => Client!Init
  <2>1. 0 .. (MaxUpIndex + 1) - 1 = ToolSlots
    BY UpIndexAssumption DEF ToolSlots
  <2> QED BY <2>1 DEF ToOpenAIInit, Client!Init
<1>2. ASSUME ChunkInv, [ToOpenAINext]_toOpenAIVars PROVE [Client!Next]_(Client!chunkVars)
  <2> USE DEF Client!chunkVars, Client!Next
  <2> DEFINE Goal == Client!Next \/ UNCHANGED <<phase, tools, parts, counts>>
  <2>p. TodoTells /\ SlotsOrdered /\ ToolCallsReachClient /\ UsageInv /\ ToOpenAITypeOK
    BY <1>2 DEF ChunkInv
  <2>0. CASE UNCHANGED toOpenAIVars
    BY <2>0 DEF toOpenAIVars, readerVars
  <2>1. CASE YieldRole
    BY <2>1, <2>p DEF YieldRole, Client!Role, TodoTells
  <2>2. CASE MessageStop \/ UpstreamEnds
    BY <2>2 DEF MessageStop, UpstreamEnds, readerVars
  <2>3. CASE YieldFinalUsage
    <3>1. counts = 0
      BY <2>3, <2>p DEF YieldFinalUsage, TodoTells, UsageInv
    <3> QED BY <2>3, <2>p, <3>1 DEF YieldFinalUsage, YieldUsage, Client!Usage, TodoTells
  <2>4. CASE UpstreamError
    BY <2>4, <2>p DEF UpstreamError, Client!Error, TodoTells
  <2>5. CASE UpstreamBreaks
    BY <2>5, <2>p DEF UpstreamBreaks, Client!Abort, TodoTells
  <2>6. CASE YieldDone
    BY <2>6, <2>p DEF YieldDone, Client!Done, TodoTells
  <2>7. ASSUME NEW w, NEW tokens, MessageStart(w, tokens) PROVE Goal
    BY <2>7 DEF MessageStart, readerVars
  <2>8. ASSUME NEW r \in BOOLEAN, NEW w, NEW tokens, MessageDelta(r, w, tokens) PROVE Goal
    <3>1. CASE ~r
      BY <2>8, <3>1 DEF MessageDelta
    <3>2. CASE r
      <4>1. phase = "open" /\ phase' = "finished" /\ UNCHANGED <<tools, parts>>
        BY <2>8, <3>2 DEF MessageDelta
      <4>2. IF upSawUsage' /\ ~include_usage THEN counts' = counts + 1 ELSE counts' = counts
        BY <2>8, <3>2 DEF MessageDelta, YieldUsage
      <4>3. counts = 0
        <5>1. todo = "read"
          BY <2>8 DEF MessageDelta
        <5> QED BY <2>p, <4>1, <5>1 DEF UsageInv
      <4>4. Client!Finish(TRUE) \/ Client!Finish(FALSE)
        BY <4>1, <4>2, <4>3 DEF Client!Finish
      <4> QED BY <4>4
    <3> QED BY <3>1, <3>2
  <2>9. ASSUME NEW i \in UpIndexes, TextBlockStart(i) \/ BlockStop(i) \/ TextDelta(i)
        PROVE  Goal
    BY <2>9 DEF TextBlockStart, BlockStop, TextDelta, readerVars
  <2>10. ASSUME NEW i \in UpIndexes, ToolBlockStart(i) PROVE Goal
    <3>1. phase = "open"
      BY <2>10, <2>p DEF ToolBlockStart, Up!StartBlock, TodoTells
    <3> QED BY <2>10, <3>1 DEF ToolBlockStart, Client!Announce
  <2>11. ASSUME NEW i \in UpIndexes, JsonDelta(i) PROVE Goal
    <3> DEFINE slot == block_tool_slot[i]
    <3>1. phase = "open"
      BY <2>11, <2>p DEF JsonDelta, Up!Fragment, TodoTells
    <3>2. slot # NoSlot /\ slot < tools /\ slot \in ToolSlots
      BY <2>11, <2>p DEF JsonDelta, SlotsOrdered, ToolCallsReachClient, ToOpenAITypeOK
    <3>3. slot \in 0 .. (MaxUpIndex + 1) - 1
      BY <3>2, UpIndexAssumption DEF ToolSlots
    <3>4. Client!Part(slot)
      BY <2>11, <3>1, <3>2 DEF JsonDelta, Client!Part
    <3> QED BY <3>3, <3>4
  <2> QED BY <1>2, <2>0, <2>1, <2>2, <2>3, <2>4, <2>5, <2>6, <2>7, <2>8, <2>9, <2>10,
             <2>11 DEF ToOpenAINext
<1> QED BY <1>1, <1>2, ChunksStart, ChunksKept, PTL
        DEF ToOpenAISpec, ImplementsOpenAIStream, Client!Spec
----------------------------------------------------------------------------
\* All converters: the properties of the run, of whichever of them is drawn.

LEMMA OneAtATime ==
    ASSUME [Next]_allVars
    PROVE  [ToAnthropicNext]_toAnthropicVars /\ [ToOpenAINext]_toOpenAIVars
BY DEF Next, allVars

\* Fragments of tool calls arrive once and where they belong, in both
\* directions.
THEOREM ToolArgumentsReach == Spec => []ToolArgumentsArrive
<1>1. Spec => ToAnthropicSpec /\ ToOpenAISpec
  BY OneAtATime, PTL DEF Spec, Init, ToAnthropicSpec, ToOpenAISpec
<1>2. FragmentsReachTheirBlock /\ ToolCallsReachClient => ToolArgumentsArrive
  BY DEF ToolArgumentsArrive
<1> QED BY <1>1, <1>2, FragmentsReach, ToolCallsReach, PTL

\* A count the upstream reported is told once and unchanged, unless the text deltas
\* before it outnumber it; of streams without a count nothing is claimed.
THEOREM UsageReach == Spec => []UsageArrives
<1>1. Spec => ToAnthropicSpec /\ ToOpenAISpec
  BY OneAtATime, PTL DEF Spec, Init, ToAnthropicSpec, ToOpenAISpec
<1>2. FinalCountIsReported /\ UsageOnce => UsageArrives
  BY DEF UsageArrives
<1> QED BY <1>1, <1>2, FinalCountReported, UsageToldOnce, PTL

----------------------------------------------------------------------------
\* The conversation.

----------------------------------------------------------------------------
(* Items and messages *)

Item == [is : {"text", "call", "result"}, id : Nat,
         args : {"object", "nothing", "no json", "empty object", "wrapped"}]

Msg == [role : {"system", "user", "assistant", "tool"}, plain : BOOLEAN, items : Seq(Item)]

Kind(k) == {x \in Item : x.is = k}

\* What a message has of each of the three things the properties look at.
Pick(k) == [x \in Item |-> IF x.is = k THEN <<x>> ELSE <<>>]
Body == [m \in Msg |-> m.items]
Turn == [m \in Msg |-> IF m.role = "assistant" THEN <<m.items>> ELSE <<>>]
Words == [m \in Msg |-> IF m.role = "user" THEN Only("text", m.items) ELSE <<>>]

\* A sequence over a set is one over any larger set.
LEMMA Wider ==
    ASSUME NEW A, NEW B, A \subseteq B, NEW s \in Seq(A)
    PROVE  s \in Seq(B)
  BY SeqMonotonic

\* Items of one kind are items.
LEMMA KindsAreItems ==
    ASSUME NEW k, NEW s \in Seq(Kind(k))
    PROVE  s \in Seq(Item)
  <1>1. Kind(k) \subseteq Item
    BY DEF Kind
  <1>2. QED
    BY <1>1, Wider

\* What an item contributes to the items of one kind.
LEMMA PickGives == ASSUME NEW k PROVE Gives(Pick(k), Item, Seq(Kind(k)))
  <1>1. ASSUME NEW x \in Item PROVE Pick(k)[x] \in Seq(Kind(k))
    <2>1. CASE x.is = k
      <3>1. x \in Kind(k)
        BY <2>1 DEF Kind
      <3>2. <<x>> \in Seq(Kind(k))
        BY <3>1
      <3>3. QED
        BY <2>1, <3>2 DEF Pick
    <2>2. CASE x.is # k
      <3>1. Pick(k)[x] = <<>>
        BY <2>2 DEF Pick
      <3>2. QED
        BY <3>1
    <2>3. QED
      BY <2>1, <2>2
  <1>2. QED
    BY <1>1 DEF Gives

\* Only is a gathering,
LEMMA OnlyIs ==
    ASSUME NEW k, NEW s \in Seq(Item)
    PROVE  Only(k, s) = Gather(Pick(k), s)
  <1>1. \A i \in DOMAIN s : s[i] \in Item
    OBVIOUS
  <1>2. \A i \in DOMAIN s : Pick(k)[s[i]] = IF s[i].is = k THEN <<s[i]>> ELSE <<>>
    BY <1>1 DEF Pick
  <1>3. Each(Pick(k), s) = [i \in DOMAIN s |-> IF s[i].is = k THEN <<s[i]>> ELSE <<>>]
    BY <1>2 DEF Each
  <1>4. QED
    BY <1>3 DEF Only, Gather

\* so it has items of the kind only,
LEMMA OnlyTyped ==
    ASSUME NEW k, NEW s \in Seq(Item)
    PROVE  Only(k, s) \in Seq(Kind(k)) /\ Only(k, s) \in Seq(Item)
  <1>1. Gather(Pick(k), s) \in Seq(Kind(k))
    BY PickGives, GatherTyped
  <1>2. QED
    BY <1>1, OnlyIs, KindsAreItems

\* may be taken of two parts,
LEMMA OnlyCat ==
    ASSUME NEW k, NEW s \in Seq(Item), NEW t \in Seq(Item)
    PROVE  Only(k, s \o t) = Only(k, s) \o Only(k, t)
  <1>1. Gather(Pick(k), s \o t) = Gather(Pick(k), s) \o Gather(Pick(k), t)
    BY PickGives, GatherCat
  <1>2. s \o t \in Seq(Item)
    OBVIOUS
  <1>3. QED
    BY <1>1, <1>2, OnlyIs

\* leaves items of the kind alone,
LEMMA OnlyAll ==
    ASSUME NEW k, NEW s \in Seq(Kind(k))
    PROVE  Only(k, s) = s
  <1>1. \A x \in Kind(k) : Pick(k)[x] = <<x>>
    BY DEF Kind, Pick
  <1>2. Gather(Pick(k), s) = s
    BY <1>1, GatherSingles
  <1>3. QED
    BY <1>2, KindsAreItems, OnlyIs

\* drops all others,
LEMMA OnlyNothing ==
    ASSUME NEW k, NEW M \in SUBSET Item, \A x \in M : x.is # k, NEW s \in Seq(M)
    PROVE  Only(k, s) = <<>>
  <1>1. \A x \in M : Pick(k)[x] = <<>>
    BY DEF Pick
  <1>2. Gather(Pick(k), s) = <<>>
    BY <1>1, GatherNothing
  <1>3. s \in Seq(Item)
    BY Wider
  <1>4. QED
    BY <1>2, <1>3, OnlyIs

\* those of another kind among them,
LEMMA OnlyOther ==
    ASSUME NEW k, NEW j, j # k, NEW s \in Seq(Kind(j))
    PROVE  Only(k, s) = <<>>
  <1>1. Kind(j) \in SUBSET Item /\ \A x \in Kind(j) : x.is # k
    BY DEF Kind
  <1>2. QED
    BY <1>1, OnlyNothing

\* and keeps every item of the kind.
LEMMA OnlyHas ==
    ASSUME NEW k, NEW s \in Seq(Item), NEW y
    PROVE  Has(Only(k, s), y) <=> Has(s, y) /\ y.is = k
  <1>1. Has(Gather(Pick(k), s), y) <=> \E i \in DOMAIN s : Has(Pick(k)[s[i]], y)
    BY PickGives, GatherHas
  <1>2. ASSUME NEW i \in DOMAIN s
        PROVE  Has(Pick(k)[s[i]], y) <=> s[i] = y /\ y.is = k
    <2>1. s[i] \in Item
      OBVIOUS
    <2>2. CASE s[i].is = k
      <3>1. Pick(k)[s[i]] = <<s[i]>>
        BY <2>1, <2>2 DEF Pick
      <3>2. Has(<<s[i]>>, y) <=> s[i] = y
        BY DEF Has
      <3>3. QED
        BY <2>2, <3>1, <3>2
    <2>3. CASE s[i].is # k
      <3>1. Pick(k)[s[i]] = <<>>
        BY <2>1, <2>3 DEF Pick
      <3>2. ~ Has(<<>>, y)
        BY DEF Has
      <3>3. QED
        BY <2>3, <3>1, <3>2
    <2>4. QED
      BY <2>2, <2>3
  <1>3. Only(k, s) = Gather(Pick(k), s)
    BY OnlyIs
  <1>4. QED
    BY <1>1, <1>2, <1>3 DEF Has

\* What a message contributes to the items,
LEMMA BodyGives == Gives(Body, Msg, Seq(Item))
  <1>1. \A m \in Msg : m.items \in Seq(Item)
    BY DEF Msg
  <1>2. QED
    BY <1>1 DEF Gives, Body

\* to the turns of the assistant,
LEMMA TurnGives == Gives(Turn, Msg, Seq(Seq(Item)))
  <1>1. ASSUME NEW m \in Msg PROVE Turn[m] \in Seq(Seq(Item))
    <2> DEFINE B == Seq(Item)
    <2>1. m.items \in B
      BY DEF Msg
    <2> HIDE DEF B
    <2>2. <<m.items>> \in Seq(B) /\ <<>> \in Seq(B)
      BY <2>1
    <2>3. Turn[m] \in Seq(B)
      BY <2>2 DEF Turn
    <2>4. QED
      BY <2>3 DEF B
  <1>2. QED
    BY <1>1 DEF Gives

\* and to the texts of the user.
LEMMA WordsGives == Gives(Words, Msg, Seq(Item))
  <1>1. ASSUME NEW m \in Msg PROVE Words[m] \in Seq(Item)
    <2>1. m.items \in Seq(Item)
      BY DEF Msg
    <2>2. Only("text", m.items) \in Seq(Item)
      BY <2>1, OnlyTyped
    <2>3. <<>> \in Seq(Item)
      OBVIOUS
    <2>4. QED
      BY <2>2, <2>3 DEF Words
  <1>2. QED
    BY <1>1 DEF Gives

\* The three operators the properties use are gatherings.
LEMMA MeasuresAre ==
    ASSUME NEW T \in Seq(Msg)
    PROVE  /\ ItemsOf(T) = Gather(Body, T)
           /\ TurnsIn(T) = Gather(Turn, T)
           /\ UserTexts(T) = Gather(Words, T)
  <1>1. \A k \in DOMAIN T : T[k] \in Msg
    OBVIOUS
  <1>2. ItemsOf(T) = Gather(Body, T)
    <2>1. \A k \in DOMAIN T : Body[T[k]] = T[k].items
      BY <1>1 DEF Body
    <2>2. Each(Body, T) = [k \in DOMAIN T |-> T[k].items]
      BY <2>1 DEF Each
    <2>3. QED
      BY <2>2 DEF ItemsOf, Gather
  <1>3. TurnsIn(T) = Gather(Turn, T)
    <2>1. \A k \in DOMAIN T : Turn[T[k]] = IF T[k].role = "assistant" THEN <<T[k].items>> ELSE <<>>
      BY <1>1 DEF Turn
    <2>2. Each(Turn, T) = [k \in DOMAIN T |-> IF T[k].role = "assistant" THEN <<T[k].items>> ELSE <<>>]
      BY <2>1 DEF Each
    <2>3. QED
      BY <2>2 DEF TurnsIn, Gather
  <1>4. UserTexts(T) = Gather(Words, T)
    <2>1. \A k \in DOMAIN T :
             Words[T[k]] = IF T[k].role = "user" THEN Only("text", T[k].items) ELSE <<>>
      BY <1>1 DEF Words
    <2>2. Each(Words, T) = [k \in DOMAIN T |->
             IF T[k].role = "user" THEN Only("text", T[k].items) ELSE <<>>]
      BY <2>1 DEF Each
    <2>3. QED
      BY <2>2 DEF UserTexts, Gather
  <1>5. QED
    BY <1>2, <1>3, <1>4

----------------------------------------------------------------------------
(* From OpenAI to Anthropic *)

Obj == {x \in Item : x.args = "object"}

TextsThenCalls(s) == \E t \in Seq(Kind("text")), c \in Seq(Kind("call")) : s = t \o c

\* The messages in the transcript of an OpenAI client.
OMsg == {m \in Msg :
           /\ m.items \in Seq(Obj)
           /\ m.role = "system" => m.items = <<>>
           /\ m.role = "user" => m.items \in Seq(Kind("text"))
           /\ m.role = "tool" => m.items \in Seq(Kind("result"))
           /\ m.role = "assistant" => TextsThenCalls(m.items)}

\* What they become: only texts of the user stay plain.
OutMsg == {m \in Msg : m.plain => m.role = "user"}

\* A measure does not depend on how the items of a message are packed.
PacksResults(g) ==
    \A p, r \in Seq(Kind("result")), b \in BOOLEAN :
        g[Message("user", FALSE, p \o r)] = g[Message("user", FALSE, p)] \o g[Message("tool", b, r)]
PacksWords(g) ==
    \A a, b \in Seq(Item) :
        g[Message("user", TRUE, a \o b)] = g[Message("user", TRUE, a)] \o g[Message("user", TRUE, b)]
PacksReplies(g) ==
    \A s \in Seq(Item), b \in BOOLEAN :
        g[Message("assistant", FALSE, s)] = g[Message("assistant", b, s)]
SkipsEmpty(g) ==
    \A b \in BOOLEAN : g[Message("system", b, <<>>)] = <<>> /\ g[Message("user", b, <<>>)] = <<>>

Measures(g, S) ==
    /\ Gives(g, Msg, Seq(S))
    /\ PacksResults(g) /\ PacksWords(g) /\ PacksReplies(g) /\ SkipsEmpty(g)

\* A message and its parts.
LEMMA MessageTyped ==
    ASSUME NEW r \in {"system", "user", "assistant", "tool"}, NEW b \in BOOLEAN, NEW s \in Seq(Item)
    PROVE  /\ Message(r, b, s) \in Msg
           /\ Message(r, b, s).role = r /\ Message(r, b, s).plain = b /\ Message(r, b, s).items = s
  BY DEF Message, Msg

\* A message is made of its parts.
LEMMA MessageIs ==
    ASSUME NEW m \in Msg
    PROVE  /\ m = Message(m.role, m.plain, m.items) /\ m.items \in Seq(Item) /\ m.plain \in BOOLEAN
           /\ m.role \in {"system", "user", "assistant", "tool"}
  BY DEF Message, Msg

\* The type of a concatenation,
LEMMA CatTyped ==
    ASSUME NEW S, NEW s \in Seq(S), NEW t \in Seq(S)
    PROVE  s \o t \in Seq(S)
  BY ConcatProperties

\* and of the empty sequence.
LEMMA NoneTyped == ASSUME NEW S PROVE <<>> \in Seq(S)
  OBVIOUS

\* The three do not depend on the packing.
LEMMA BodyMeasures == Measures(Body, Item)
  <1>1. \A r \in {"system", "user", "assistant", "tool"}, b \in BOOLEAN, s \in Seq(Item) :
           Body[Message(r, b, s)] = s
    BY MessageTyped DEF Body
  <1>2. PacksResults(Body)
    <2>1. ASSUME NEW p \in Seq(Kind("result")), NEW r \in Seq(Kind("result")), NEW b \in BOOLEAN
          PROVE  Body[Message("user", FALSE, p \o r)] =
                     Body[Message("user", FALSE, p)] \o Body[Message("tool", b, r)]
      <3>1. p \in Seq(Item) /\ r \in Seq(Item) /\ p \o r \in Seq(Item)
        BY KindsAreItems, CatTyped
      <3>2. QED
        BY <1>1, <3>1
    <2>2. QED
      BY <2>1 DEF PacksResults
  <1>3. PacksWords(Body)
    <2>1. ASSUME NEW a \in Seq(Item), NEW b \in Seq(Item)
          PROVE  Body[Message("user", TRUE, a \o b)] =
                     Body[Message("user", TRUE, a)] \o Body[Message("user", TRUE, b)]
      <3>1. a \o b \in Seq(Item)
        BY CatTyped
      <3>2. QED
        BY <1>1, <3>1
    <2>2. QED
      BY <2>1 DEF PacksWords
  <1>4. PacksReplies(Body)
    BY <1>1 DEF PacksReplies
  <1>5. SkipsEmpty(Body)
    BY <1>1, NoneTyped DEF SkipsEmpty
  <1>6. QED
    BY <1>2, <1>3, <1>4, <1>5, BodyGives DEF Measures

\* The turns: results and texts of the user are none.
LEMMA TurnMeasures == Measures(Turn, Seq(Item))
  <1>1. \A r \in {"system", "user", "assistant", "tool"}, b \in BOOLEAN, s \in Seq(Item) :
           Turn[Message(r, b, s)] = IF r = "assistant" THEN <<s>> ELSE <<>>
    BY MessageTyped DEF Turn
  <1>2. PacksResults(Turn)
    <2>1. ASSUME NEW p \in Seq(Kind("result")), NEW r \in Seq(Kind("result")), NEW b \in BOOLEAN
          PROVE  Turn[Message("user", FALSE, p \o r)] =
                     Turn[Message("user", FALSE, p)] \o Turn[Message("tool", b, r)]
      <3>1. p \in Seq(Item) /\ r \in Seq(Item) /\ p \o r \in Seq(Item)
        BY KindsAreItems, CatTyped
      <3>2. /\ Turn[Message("user", FALSE, p \o r)] = <<>>
            /\ Turn[Message("user", FALSE, p)] = <<>> /\ Turn[Message("tool", b, r)] = <<>>
        BY <1>1, <3>1
      <3>3. QED
        BY <3>2
    <2>2. QED
      BY <2>1 DEF PacksResults
  <1>3. PacksWords(Turn)
    <2>1. ASSUME NEW a \in Seq(Item), NEW b \in Seq(Item)
          PROVE  Turn[Message("user", TRUE, a \o b)] =
                     Turn[Message("user", TRUE, a)] \o Turn[Message("user", TRUE, b)]
      <3>1. a \o b \in Seq(Item)
        BY CatTyped
      <3>2. /\ Turn[Message("user", TRUE, a \o b)] = <<>>
            /\ Turn[Message("user", TRUE, a)] = <<>> /\ Turn[Message("user", TRUE, b)] = <<>>
        BY <1>1, <3>1
      <3>3. QED
        BY <3>2
    <2>2. QED
      BY <2>1 DEF PacksWords
  <1>4. PacksReplies(Turn)
    BY <1>1 DEF PacksReplies
  <1>5. SkipsEmpty(Turn)
    BY <1>1, NoneTyped DEF SkipsEmpty
  <1>6. QED
    BY <1>2, <1>3, <1>4, <1>5, TurnGives DEF Measures

\* The words: results are none, merged texts stay in their order.
LEMMA WordsMeasures == Measures(Words, Item)
  <1>1. \A r \in {"system", "user", "assistant", "tool"}, b \in BOOLEAN, s \in Seq(Item) :
           Words[Message(r, b, s)] = IF r = "user" THEN Only("text", s) ELSE <<>>
    BY MessageTyped DEF Words
  <1>2. PacksResults(Words)
    <2>1. ASSUME NEW p \in Seq(Kind("result")), NEW r \in Seq(Kind("result")), NEW b \in BOOLEAN
          PROVE  Words[Message("user", FALSE, p \o r)] =
                     Words[Message("user", FALSE, p)] \o Words[Message("tool", b, r)]
      <3>1. p \in Seq(Item) /\ r \in Seq(Item) /\ p \o r \in Seq(Item)
        BY KindsAreItems, CatTyped
      <3>2. p \o r \in Seq(Kind("result"))
        BY CatTyped
      <3>3. Only("text", p \o r) = <<>> /\ Only("text", p) = <<>>
        BY <3>2, OnlyOther
      <3>4. /\ Words[Message("user", FALSE, p \o r)] = <<>>
            /\ Words[Message("user", FALSE, p)] = <<>> /\ Words[Message("tool", b, r)] = <<>>
        BY <1>1, <3>1, <3>3
      <3>5. QED
        BY <3>4
    <2>2. QED
      BY <2>1 DEF PacksResults
  <1>3. PacksWords(Words)
    <2>1. ASSUME NEW a \in Seq(Item), NEW b \in Seq(Item)
          PROVE  Words[Message("user", TRUE, a \o b)] =
                     Words[Message("user", TRUE, a)] \o Words[Message("user", TRUE, b)]
      <3>1. a \o b \in Seq(Item)
        BY CatTyped
      <3>2. Only("text", a \o b) = Only("text", a) \o Only("text", b)
        BY OnlyCat
      <3>3. QED
        BY <1>1, <3>1, <3>2
    <2>2. QED
      BY <2>1 DEF PacksWords
  <1>4. PacksReplies(Words)
    BY <1>1 DEF PacksReplies
  <1>5. SkipsEmpty(Words)
    <2>1. Only("text", <<>>) = <<>>
      <3>1. <<>> \in Seq(Kind("call"))
        BY NoneTyped
      <3>2. QED
        BY <3>1, OnlyOther
    <2>2. QED
      BY <1>1, <2>1, NoneTyped DEF SkipsEmpty
  <1>6. QED
    BY <1>2, <1>3, <1>4, <1>5, WordsGives DEF Measures

\* Texts and then calls can be told apart again.
LEMMA SplitsBack ==
    ASSUME NEW t \in Seq(Kind("text")), NEW c \in Seq(Kind("call"))
    PROVE  /\ t \o c \in Seq(Item)
           /\ Only("text", t \o c) = t /\ Only("call", t \o c) = c /\ Only("result", t \o c) = <<>>
  <1>1. t \in Seq(Item) /\ c \in Seq(Item)
    BY KindsAreItems
  <1>2. /\ Only("text", t) = t /\ Only("text", c) = <<>>
        /\ Only("call", t) = <<>> /\ Only("call", c) = c
        /\ Only("result", t) = <<>> /\ Only("result", c) = <<>>
    BY OnlyAll, OnlyOther
  <1>3. Only("text", t \o c) = t \o <<>>
    BY <1>1, <1>2, OnlyCat, ZenonT(40)
  <1>4. Only("call", t \o c) = <<>> \o c
    BY <1>1, <1>2, OnlyCat, ZenonT(40)
  <1>5. Only("result", t \o c) = <<>> \o <<>>
    BY <1>1, <1>2, OnlyCat
  <1>6. t \o <<>> = t /\ <<>> \o c = c
    BY ConcatEmptySeq
  <1>7. <<>> \o <<>> = <<>>
    OBVIOUS
  <1>8. QED
    BY <1>1, <1>3, <1>4, <1>5, <1>6, <1>7, CatTyped

\* _parse_json_arg leaves arguments that are objects alone.
LEMMA ParsedObjects ==
    ASSUME NEW s \in Seq(Obj)
    PROVE  Parsed(s) = s
  <1>1. \A k \in DOMAIN s : s[k] \in Obj
    OBVIOUS
  <1>2. ASSUME NEW x \in Obj PROVE ParseArguments(x) = x
    BY DEF ParseArguments, Obj, Item
  <1>3. Parsed(s) = [k \in DOMAIN s |-> s[k]]
    BY <1>1, <1>2 DEF Parsed
  <1>4. QED
    BY <1>3

\* What a stage of the loop has produced and what it still holds back.
HeldBack(g, acc) == Gather(g, acc.out) \o g[Message("user", FALSE, acc.pending)]

Stage == [out : Seq(OutMsg), pending : Seq(Kind("result"))]

\* What the first loop makes are messages,
LEMMA OutMsgs == OutMsg \subseteq Msg
  BY DEF OutMsg

\* so a measure applies to them.
LEMMA OutGives ==
    ASSUME NEW S, NEW g, Measures(g, S)
    PROVE  Gives(g, OutMsg, Seq(S))
  BY OutMsgs DEF Measures, Gives

\* Results are items.
LEMMA ResultsTyped == Kind("result") \subseteq Item
  BY DEF Kind

\* Flushing moves the results held back to the output, in one message.
LEMMA FlushKeeps ==
    ASSUME NEW S, NEW g, Measures(g, S), NEW acc \in Stage
    PROVE  /\ FlushResults(acc) \in Stage /\ FlushResults(acc).pending = <<>>
           /\ Gather(g, FlushResults(acc).out) = HeldBack(g, acc)
  <1> DEFINE m == Message("user", FALSE, acc.pending)
  <1>1. acc.out \in Seq(OutMsg) /\ acc.pending \in Seq(Kind("result")) /\ acc.pending \in Seq(Item)
    <2>1. acc.out \in Seq(OutMsg) /\ acc.pending \in Seq(Kind("result"))
      BY DEF Stage
    <2>2. QED
      BY <2>1, KindsAreItems
  <1>2. m \in OutMsg
    BY <1>1, MessageTyped DEF OutMsg
  <1>3. Gives(g, OutMsg, Seq(S))
    BY OutGives
  <1>4. Gather(g, acc.out) \in Seq(S)
    BY <1>1, <1>3, GatherTyped
  <1>5. CASE acc.pending = <<>>
    <2>1. g[m] = <<>>
      BY <1>5 DEF Measures, SkipsEmpty
    <2>2. HeldBack(g, acc) = Gather(g, acc.out)
      BY <1>4, <2>1, ConcatEmptySeq DEF HeldBack
    <2>3. FlushResults(acc) = acc
      BY <1>5 DEF FlushResults
    <2>4. QED
      BY <1>5, <2>2, <2>3
  <1>6. CASE acc.pending # <<>>
    <2>1. FlushResults(acc) = [out |-> Append(acc.out, m), pending |-> <<>>]
      BY <1>6 DEF FlushResults
    <2> HIDE DEF m
    <2>2. Append(acc.out, m) \in Seq(OutMsg)
      BY <1>1, <1>2, AppendProperties
    <2>3. Gather(g, Append(acc.out, m)) = Gather(g, acc.out) \o g[m]
      BY <1>1, <1>2, <1>3, GatherOneMore, ZenonT(40)
    <2>4. FlushResults(acc) \in Stage
      BY <2>1, <2>2, NoneTyped DEF Stage
    <2>5. FlushResults(acc).pending = <<>> /\ FlushResults(acc).out = Append(acc.out, m)
      BY <2>1
    <2>6. QED
      BY <2>3, <2>4, <2>5 DEF HeldBack, m
  <1>7. QED
    BY <1>5, <1>6

\* A message that is appended contributes at the end.
LEMMA AppendKeeps ==
    ASSUME NEW S, NEW g, Measures(g, S), NEW out \in Seq(OutMsg), NEW x \in OutMsg,
           NEW next, next = [out |-> Append(out, x), pending |-> <<>>]
    PROVE  next \in Stage /\ HeldBack(g, next) = Gather(g, out) \o g[x]
  <1>1. Gives(g, OutMsg, Seq(S))
    BY OutGives
  <1>2. Append(out, x) \in Seq(OutMsg)
    BY AppendProperties
  <1>3. next.out = Append(out, x) /\ next.pending = <<>> /\ next \in Stage
    BY <1>2, NoneTyped DEF Stage
  <1>4. Gather(g, Append(out, x)) = Gather(g, out) \o g[x]
    BY <1>1, GatherOneMore
  <1>5. Gather(g, next.out) \in Seq(S)
    BY <1>1, <1>2, <1>3, GatherTyped
  <1>6. g[Message("user", FALSE, <<>>)] = <<>>
    BY DEF Measures, SkipsEmpty
  <1>7. HeldBack(g, next) = Gather(g, next.out) \o <<>>
    BY <1>3, <1>6 DEF HeldBack
  <1>8. HeldBack(g, next) = Gather(g, next.out)
    BY <1>5, <1>7, ConcatEmptySeq
  <1>9. QED
    BY <1>3, <1>4, <1>8

\* One message more in the first loop.
LEMMA ConvertKeeps ==
    ASSUME NEW S, NEW g, Measures(g, S), NEW acc \in Stage, NEW m \in OMsg,
           NEW next, next = ConvertToAnthropic(acc, m)
    PROVE  next \in Stage /\ HeldBack(g, next) = HeldBack(g, acc) \o g[m]
  <1>1. PICK fl \in Stage : /\ fl = FlushResults(acc) /\ fl.pending = <<>>
                            /\ Gather(g, fl.out) = HeldBack(g, acc)
    BY FlushKeeps
  <1>2. m \in Msg /\ m = Message(m.role, m.plain, m.items) /\ m.items \in Seq(Item)
        /\ m.plain \in BOOLEAN /\ m.role \in {"system", "user", "assistant", "tool"}
    <2>1. m \in Msg
      BY DEF OMsg
    <2>2. QED
      BY <2>1, MessageIs
  <1>3. fl.out \in Seq(OutMsg) /\ fl = [out |-> fl.out, pending |-> <<>>]
    BY <1>1 DEF Stage
  <1>4. HeldBack(g, acc) \in Seq(S)
    <2>1. Gives(g, OutMsg, Seq(S))
      BY OutGives
    <2>2. Gather(g, fl.out) \in Seq(S)
      BY <1>3, <2>1, GatherTyped
    <2>3. QED
      BY <1>1, <2>2
  \* A stage that was flushed and has one message more.
  <1>5. ASSUME NEW x \in OutMsg, g[x] = g[m], next = [fl EXCEPT !.out = Append(@, x)]
        PROVE  next \in Stage /\ HeldBack(g, next) = HeldBack(g, acc) \o g[m]
    <2>1. next = [out |-> Append(fl.out, x), pending |-> <<>>]
      <3> DEFINE o == fl.out
      <3>1. fl = [out |-> o, pending |-> <<>>]
        BY <1>3
      <3> HIDE DEF o
      <3>2. [fl EXCEPT !.out = Append(@, x)] = [out |-> Append(o, x), pending |-> <<>>]
        BY <3>1
      <3>3. QED
        BY <1>5, <3>2 DEF o
    <2>2. next \in Stage /\ HeldBack(g, next) = Gather(g, fl.out) \o g[x]
      BY <1>3, <2>1, AppendKeeps
    <2>3. QED
      BY <1>1, <1>5, <2>2
  <1>6. CASE m.role = "system"
    <2>1. next = fl
      BY <1>1, <1>6 DEF ConvertToAnthropic
    <2>2. g[m] = <<>>
      <3>1. m.items = <<>>
        BY <1>6 DEF OMsg
      <3>2. m = Message("system", m.plain, <<>>)
        BY <1>2, <1>6, <3>1
      <3>3. g[Message("system", m.plain, <<>>)] = <<>>
        BY <1>2 DEF Measures, SkipsEmpty
      <3>4. QED
        BY <3>2, <3>3
    <2>3. HeldBack(g, fl) = HeldBack(g, acc) \o <<>>
      <3>1. g[Message("user", FALSE, <<>>)] = <<>>
        BY DEF Measures, SkipsEmpty
      <3>2. QED
        BY <1>1, <3>1 DEF HeldBack
    <2>4. QED
      BY <1>1, <2>1, <2>2, <2>3
  <1>7. CASE m.role = "tool"
    <2> DEFINE p == acc.pending
               r == m.items
               a == Gather(g, acc.out)
               b == g[Message("user", FALSE, p)]
               c == g[m]
    <2>1. acc.out \in Seq(OutMsg) /\ p \in Seq(Kind("result"))
      BY DEF Stage
    <2>2. r \in Seq(Kind("result"))
      BY <1>7 DEF OMsg
    <2>3. next = [out |-> acc.out, pending |-> p \o r]
      <3>1. next = [acc EXCEPT !.pending = @ \o m.items]
        BY <1>7 DEF ConvertToAnthropic
      <3>2. QED
        BY <3>1 DEF Stage
    <2>4. p \o r \in Seq(Kind("result"))
      BY <2>1, <2>2, CatTyped
    <2>5. next \in Stage /\ next.out = acc.out /\ next.pending = p \o r
      BY <2>1, <2>3, <2>4 DEF Stage
    <2>6. c = g[Message("tool", m.plain, r)] /\ m.plain \in BOOLEAN
      BY <1>2, <1>7
    <2>7. HeldBack(g, acc) = a \o b
      BY DEF HeldBack
    <2>8. HeldBack(g, next) = a \o g[Message("user", FALSE, p \o r)]
      BY <2>5 DEF HeldBack
    <2>9. a \in Seq(S)
      BY <2>1, OutGives, GatherTyped
    <2>10. b \in Seq(S) /\ c \in Seq(S)
      <3>1. Message("user", FALSE, p) \in Msg
        BY <2>1, KindsAreItems, MessageTyped
      <3>2. QED
        BY <1>2, <3>1 DEF Measures, Gives
    <2> HIDE DEF a, b, c, p, r
    <2>11. g[Message("user", FALSE, p \o r)] =
               g[Message("user", FALSE, p)] \o g[Message("tool", m.plain, r)]
      BY <2>1, <2>2, <2>6 DEF Measures, PacksResults
    <2>12. g[Message("user", FALSE, p)] = b
      BY DEF b, p
    <2>13. (a \o b) \o c = a \o (b \o c)
      BY <2>9, <2>10, ConcatAssociative
    <2>14. HeldBack(g, next) = HeldBack(g, acc) \o c
      BY <2>6, <2>7, <2>8, <2>11, <2>12, <2>13
    <2>15. QED
      BY <2>5, <2>14 DEF c
  <1>8. CASE m.role = "assistant"
    <2>1. PICK t \in Seq(Kind("text")), c \in Seq(Kind("call")) : m.items = t \o c
      BY <1>8 DEF OMsg, TextsThenCalls
    <2>2. c \in Seq(Obj)
      <3>1. m.items \in Seq(Obj)
        BY DEF OMsg
      <3>2. \A x : Has(c, x) => x \in Obj
        <4>1. ASSUME NEW x, Has(c, x) PROVE x \in Obj
          <5>1. t \in Seq(Item) /\ c \in Seq(Item)
            BY KindsAreItems
          <5>2. Has(t \o c, x)
            BY <4>1, <5>1, CatHas
          <5>3. Has(m.items, x)
            BY <2>1, <5>2
          <5>4. QED
            BY <3>1, <5>3 DEF Has
        <4>2. QED
          BY <4>1
      <3>3. \A i \in 1 .. Len(c) : c[i] \in Obj
        <4>1. DOMAIN c = 1 .. Len(c)
          OBVIOUS
        <4>2. QED
          BY <3>2, <4>1 DEF Has
      <3>4. Len(c) \in Nat /\ c = [i \in 1 .. Len(c) |-> c[i]]
        OBVIOUS
      <3>5. c \in [1 .. Len(c) -> Obj]
        BY <3>3, <3>4
      <3>6. QED
        BY <3>4, <3>5, SeqDef
    <2>3. Only("text", m.items) \o Parsed(Only("call", m.items)) = m.items
      <3>1. Only("text", t \o c) = t /\ Only("call", t \o c) = c
        BY SplitsBack
      <3>2. Parsed(c) = c
        BY <2>2, ParsedObjects
      <3>3. QED
        BY <2>1, <3>1, <3>2
    <2> DEFINE x == Message("assistant", FALSE, m.items)
    <2>4. next = [fl EXCEPT !.out = Append(@, x)]
      BY <1>1, <1>8, <2>3 DEF ConvertToAnthropic
    <2>5. x \in OutMsg
      BY <1>2, MessageTyped DEF OutMsg
    <2>6. g[x] = g[m]
      BY <1>2, <1>8 DEF Measures, PacksReplies
    <2> HIDE DEF x
    <2>7. QED
      BY <1>5, <2>4, <2>5, <2>6
  <1>9. CASE m.role = "user"
    <2>1. next = [fl EXCEPT !.out = Append(@, m)]
      BY <1>1, <1>9 DEF ConvertToAnthropic
    <2>2. m \in OutMsg
      BY <1>2, <1>9 DEF OutMsg
    <2>3. QED
      BY <1>5, <2>1, <2>2
  <1>10. QED
    BY <1>2, <1>6, <1>7, <1>8, <1>9

\* The messages of an OpenAI client are messages.
LEMMA OMsgs == OMsg \subseteq Msg
  BY DEF OMsg

\* A measure applies to any set of messages.
LEMMA NarrowerGives ==
    ASSUME NEW S, NEW g, Measures(g, S), NEW M \in SUBSET Msg
    PROVE  Gives(g, M, Seq(S))
  BY DEF Measures, Gives

\* The first loop loses nothing and keeps the order.
LEMMA ConvertedKeeps ==
    ASSUME NEW S, NEW g, Measures(g, S), NEW T \in Seq(OMsg)
    PROVE  Converted(T) \in Seq(OutMsg) /\ Gather(g, Converted(T)) = Gather(g, T)
  <1> DEFINE n == Len(T)
             base == [out |-> <<>>, pending |-> <<>>]
             step == [p \in Stage \X OMsg |-> ConvertToAnthropic(p[1], p[2])]
             F(f) == [k \in 0 .. n |-> IF k = 0 THEN base ELSE ConvertToAnthropic(f[k - 1], T[k])]
             acc == CHOOSE f : f = F(f)
  <1>1. base \in Stage /\ HeldBack(g, base) = <<>>
    <2>1. base \in Stage /\ base.out = <<>> /\ base.pending = <<>>
      BY NoneTyped DEF Stage
    <2>2. g[Message("user", FALSE, <<>>)] = <<>> /\ Gather(g, <<>>) = <<>>
      BY GatherOfNone DEF Measures, SkipsEmpty
    <2> HIDE DEF base
    <2>3. HeldBack(g, base) = <<>> \o <<>>
      BY <2>1, <2>2 DEF HeldBack
    <2>4. QED
      BY <2>1, <2>3
  <1>2. step \in [Stage \X OMsg -> Stage]
    <2>1. \A p \in Stage \X OMsg : ConvertToAnthropic(p[1], p[2]) \in Stage
      <3>1. SUFFICES ASSUME NEW p \in Stage \X OMsg PROVE ConvertToAnthropic(p[1], p[2]) \in Stage
        OBVIOUS
      <3>2. p[1] \in Stage /\ p[2] \in OMsg
        OBVIOUS
      <3>3. QED
        BY <3>2, ConvertKeeps
    <2>2. QED
      BY <2>1
  <1>3. \A a \in Stage, m \in OMsg : step[<<a, m>>] = ConvertToAnthropic(a, m)
    OBVIOUS
  <1>4. n \in Nat /\ \A k \in 1 .. n : T[k] \in OMsg
    OBVIOUS
  <1>5. PICK c \in [0 .. n -> Stage] : Loops(c, base, step, T)
    <2> HIDE DEF base, step
    <2>1. QED
      BY <1>1, <1>2, LoopRuns
  <1>6. c[0] = base /\ \A k \in 1 .. n : c[k] = ConvertToAnthropic(c[k - 1], T[k])
    <2>1. c[0] = base /\ \A k \in 1 .. n : c[k] = step[<<c[k - 1], T[k]>>]
      BY <1>5 DEF Loops
    <2>2. \A k \in 1 .. n : c[k - 1] \in Stage
      <3>1. \A k \in 1 .. n : k - 1 \in 0 .. n
        BY <1>4
      <3>2. QED
        BY <3>1
    <2> HIDE DEF step, base
    <2>3. QED
      BY <1>3, <1>4, <2>1, <2>2
  <1>7. Converted(T) = FlushResults(acc[n]).out
    BY DEF Converted
  <1>8. acc = F(acc)
    <2>1. c = F(c)
      <3> HIDE DEF base
      <3>1. \A k \in 0 .. n : c[k] = IF k = 0 THEN base ELSE ConvertToAnthropic(c[k - 1], T[k])
        <4>1. \A k \in 0 .. n : k = 0 \/ k \in 1 .. n
          BY <1>4
        <4>2. \A k \in 1 .. n : k # 0
          BY <1>4
        <4>3. QED
          BY <1>6, <4>1, <4>2
      <3>2. c = [k \in 0 .. n |-> c[k]]
        OBVIOUS
      <3>3. QED
        BY <3>1, <3>2
    <2> HIDE DEF F
    <2>2. QED
      BY <2>1
  <1>9. acc[0] = base /\ \A k \in 1 .. n : acc[k] = ConvertToAnthropic(acc[k - 1], T[k])
    <2>1. 0 \in 0 .. n /\ \A k \in 1 .. n : k \in 0 .. n /\ k # 0
      BY <1>4
    <2> HIDE DEF acc, base
    <2>2. QED
      BY <1>8, <2>1
  <1> HIDE DEF acc, base, step, n
  <1>10. acc[n] = c[n]
    <2> DEFINE P == {k \in 0 .. n : acc[k] = c[k]}
    <2>1. 0 \in P
      BY <1>4, <1>6, <1>9
    <2>2. ASSUME NEW k \in 0 .. n - 1, k \in P PROVE k + 1 \in P
      <3>1. k + 1 \in 1 .. n /\ k + 1 \in 0 .. n /\ (k + 1) - 1 = k
        BY <1>4
      <3>2. acc[k + 1] = ConvertToAnthropic(acc[k], T[k + 1]) /\ acc[k] = c[k]
        BY <1>9, <2>2, <3>1
      <3>3. c[k + 1] = ConvertToAnthropic(c[k], T[k + 1])
        BY <1>6, <3>1
      <3>4. QED
        BY <3>1, <3>2, <3>3
    <2> HIDE DEF P
    <2>3. n \in P
      <3>1. \A k \in 0 .. n : k \in P
        BY <1>4, <2>1, <2>2, UpTo
      <3>2. QED
        BY <1>4, <3>1
    <2>4. QED
      BY <2>3 DEF P
  <1>11. PICK d \in [0 .. n -> Seq(S)] : /\ d[0] = <<>> /\ d[n] = Gather(g, T)
                                         /\ \A k \in 1 .. n : d[k] = d[k - 1] \o g[T[k]]
    <2>1. Gives(g, OMsg, Seq(S))
      BY OMsgs, NarrowerGives
    <2>2. QED
      BY <2>1, GatherTable DEF n
  <1>12. HeldBack(g, c[n]) = d[n]
    <2> DEFINE P == {k \in 0 .. n : HeldBack(g, c[k]) = d[k]}
    <2>1. 0 \in P
      BY <1>1, <1>4, <1>6, <1>11
    <2>2. ASSUME NEW k \in 0 .. n - 1, k \in P PROVE k + 1 \in P
      <3>1. k + 1 \in 1 .. n /\ k + 1 \in 0 .. n /\ (k + 1) - 1 = k /\ k \in 0 .. n
        BY <1>4
      <3>2. c[k + 1] = ConvertToAnthropic(c[k], T[k + 1]) /\ c[k] \in Stage /\ T[k + 1] \in OMsg
        BY <1>4, <1>6, <3>1
      <3>3. HeldBack(g, c[k + 1]) = HeldBack(g, c[k]) \o g[T[k + 1]]
        BY <3>2, ConvertKeeps
      <3>4. d[k + 1] = d[k] \o g[T[k + 1]] /\ HeldBack(g, c[k]) = d[k]
        BY <1>11, <2>2, <3>1
      <3>5. QED
        BY <3>1, <3>3, <3>4
    <2> HIDE DEF P
    <2>3. n \in P
      <3>1. \A k \in 0 .. n : k \in P
        BY <1>4, <2>1, <2>2, UpTo
      <3>2. QED
        BY <1>4, <3>1
    <2>4. QED
      BY <2>3 DEF P
  <1>13. c[n] \in Stage
    BY <1>4
  <1>14. /\ FlushResults(c[n]) \in Stage
         /\ Gather(g, FlushResults(c[n]).out) = HeldBack(g, c[n])
    BY <1>13, FlushKeeps
  <1>15. FlushResults(c[n]).out \in Seq(OutMsg)
    BY <1>14 DEF Stage
  <1>16. QED
    BY <1>7, <1>10, <1>11, <1>12, <1>14, <1>15

\* One message more in the second loop.
LEMMA MergeKeeps ==
    ASSUME NEW S, NEW g, Measures(g, S), NEW merged \in Seq(OutMsg), NEW m \in OutMsg,
           NEW next, next = MergePlain(merged, m)
    PROVE  next \in Seq(OutMsg) /\ Gather(g, next) = Gather(g, merged) \o g[m]
  <1>1. Gives(g, OutMsg, Seq(S))
    BY OutGives
  <1> DEFINE joins == merged # <<>> /\ Last(merged).role = m.role /\ Last(merged).plain /\ m.plain
  <1>2. CASE ~ joins
    <2>1. next = Append(merged, m)
      BY <1>2 DEF MergePlain
    <2>2. QED
      BY <1>1, <2>1, GatherOneMore, AppendProperties
  <1>3. CASE joins
    <2>1. PICK s \in Seq(OutMsg), e \in OutMsg : merged = Append(s, e)
      BY <1>3, SequenceEmptyOrAppend
    <2> DEFINE n == Len(s)
    <2>2. /\ n \in Nat /\ Len(merged) = n + 1 /\ merged[n + 1] = e
          /\ \A i \in 1 .. n : merged[i] = s[i]
      BY <2>1, AppendProperties
    <2>3. Last(merged) = e
      BY <2>2 DEF Last
    <2>4. e.role = "user" /\ m.role = "user" /\ e.plain = TRUE /\ m.plain = TRUE
      BY <1>3, <2>3 DEF OutMsg, Msg
    <2>5. /\ e = Message("user", TRUE, e.items) /\ m = Message("user", TRUE, m.items)
          /\ e.items \in Seq(Item) /\ m.items \in Seq(Item)
      <3>1. e \in Msg /\ m \in Msg
        BY OutMsgs
      <3>2. QED
        BY <2>4, <3>1, MessageIs
    <2> DEFINE x == Message("user", TRUE, e.items \o m.items)
    <2>6. x \in OutMsg
      <3>1. e.items \o m.items \in Seq(Item)
        BY <2>5, CatTyped
      <3>2. TRUE \in BOOLEAN /\ "user" \in {"system", "user", "assistant", "tool"}
        OBVIOUS
      <3>3. x \in Msg /\ x.role = "user"
        BY <3>1, <3>2, MessageTyped, ZenonT(40)
      <3>4. QED
        BY <3>3 DEF OutMsg
    <2>7. next = [merged EXCEPT ![n + 1].items = @ \o m.items]
      BY <1>3, <2>2 DEF MergePlain
    <2>8. [e EXCEPT !.items = @ \o m.items] = x
      <3>1. e = [role |-> "user", plain |-> TRUE, items |-> e.items]
        BY <2>5 DEF Message
      <3>2. ASSUME NEW c
            PROVE  [e EXCEPT !.items = c] = [role |-> "user", plain |-> TRUE, items |-> c]
        <4>1. \A r, p, a : [[role |-> r, plain |-> p, items |-> a] EXCEPT !.items = c] =
                               [role |-> r, plain |-> p, items |-> c]
          OBVIOUS
        <4>2. QED
          BY <3>1, <4>1, Zenon
      <3>3. [e EXCEPT !.items = @ \o m.items] = [role |-> "user", plain |-> TRUE, items |-> e.items \o m.items]
        BY <3>2
      <3>4. QED
        BY <3>3 DEF Message
    <2> HIDE DEF x, n
    <2>9. next = [merged EXCEPT ![n + 1] = x]
      <3>1. [merged[n + 1] EXCEPT !.items = @ \o m.items] = x
        BY <2>2, <2>8
      <3>2. QED
        BY <2>7, <3>1
    <2>10. /\ next \in Seq(OutMsg) /\ Len(next) = n + 1
           /\ \A i \in 1 .. n + 1 : next[i] = IF i = n + 1 THEN x ELSE merged[i]
      <3>1. n + 1 \in 1 .. Len(merged)
        BY <2>2
      <3>2. QED
        BY <2>2, <2>6, <2>9, <3>1, ExceptSeq
    <2>11. next = Append(s, x)
      <3> DEFINE a == Append(s, x)
      <3>1. /\ a \in Seq(OutMsg) /\ Len(a) = n + 1 /\ a[n + 1] = x
            /\ \A i \in 1 .. n : a[i] = s[i]
        BY <2>6, AppendProperties DEF n
      <3> HIDE DEF a
      <3>2. \A i \in 1 .. n + 1 : i = n + 1 \/ (i \in 1 .. n /\ i # n + 1)
        BY <2>2
      <3>3. \A i \in 1 .. n + 1 : next[i] = a[i]
        BY <2>2, <2>10, <3>1, <3>2
      <3>4. next = a
        BY <2>10, <3>1, <3>3, SeqEqual
      <3>5. QED
        BY <3>4 DEF a
    <2>12. Gather(g, next) = Gather(g, s) \o g[x]
      BY <1>1, <2>6, <2>11, GatherOneMore
    <2>13. Gather(g, merged) = Gather(g, s) \o g[e]
      BY <1>1, <2>1, GatherOneMore
    <2>14. g[x] = g[e] \o g[m]
      <3>1. g[Message("user", TRUE, e.items \o m.items)] =
                g[Message("user", TRUE, e.items)] \o g[Message("user", TRUE, m.items)]
        BY <2>5 DEF Measures, PacksWords
      <3>2. QED
        BY <2>5, <3>1 DEF x
    <2>15. (Gather(g, s) \o g[e]) \o g[m] = Gather(g, s) \o (g[e] \o g[m])
      <3>1. Gather(g, s) \in Seq(S)
        BY <1>1, GatherTyped
      <3>2. g[e] \in Seq(S) /\ g[m] \in Seq(S)
        BY <1>1 DEF Gives
      <3>3. \A u, v, w \in Seq(S) : (u \o v) \o w = u \o (v \o w)
        BY ConcatAssociative
      <3>4. QED
        BY <3>1, <3>2, <3>3
    <2>16. QED
      BY <2>10, <2>12, <2>13, <2>14, <2>15
  <1>4. QED
    BY <1>2, <1>3

\* The second loop loses nothing either.
LEMMA MergedKeeps ==
    ASSUME NEW S, NEW g, Measures(g, S), NEW T \in Seq(OutMsg)
    PROVE  Merged(T) \in Seq(OutMsg) /\ Gather(g, Merged(T)) = Gather(g, T)
  <1> DEFINE n == Len(T)
             A == Seq(OutMsg)
             step == [p \in A \X OutMsg |-> MergePlain(p[1], p[2])]
             F(f) == [k \in 0 .. n |-> IF k = 0 THEN <<>> ELSE MergePlain(f[k - 1], T[k])]
             acc == CHOOSE f : f = F(f)
  <1>1. <<>> \in A
    BY NoneTyped
  <1>2. step \in [A \X OutMsg -> A]
    <2>1. \A p \in A \X OutMsg : MergePlain(p[1], p[2]) \in A
      <3>1. SUFFICES ASSUME NEW p \in A \X OutMsg PROVE MergePlain(p[1], p[2]) \in A
        OBVIOUS
      <3>2. p[1] \in Seq(OutMsg) /\ p[2] \in OutMsg
        OBVIOUS
      <3>3. QED
        BY <3>2, MergeKeeps
    <2> HIDE DEF A
    <2>2. QED
      BY <2>1
  <1>3. \A a \in A, m \in OutMsg : step[<<a, m>>] = MergePlain(a, m)
    <2> HIDE DEF A
    <2>1. QED
      OBVIOUS
  <1>4. n \in Nat /\ \A k \in 1 .. n : T[k] \in OutMsg
    OBVIOUS
  <1>5. PICK c \in [0 .. n -> A] : Loops(c, <<>>, step, T)
    <2> HIDE DEF A, step
    <2>1. QED
      BY <1>1, <1>2, LoopRuns
  <1> HIDE DEF A
  <1>6. c[0] = <<>> /\ \A k \in 1 .. n : c[k] = MergePlain(c[k - 1], T[k])
    <2>1. c[0] = <<>> /\ \A k \in 1 .. n : c[k] = step[<<c[k - 1], T[k]>>]
      BY <1>5 DEF Loops
    <2>2. \A k \in 1 .. n : c[k - 1] \in A
      <3>1. \A k \in 1 .. n : k - 1 \in 0 .. n
        BY <1>4
      <3>2. QED
        BY <3>1
    <2> HIDE DEF step
    <2>3. QED
      BY <1>3, <1>4, <2>1, <2>2
  <1>7. Merged(T) = acc[n]
    BY DEF Merged
  <1>8. acc = F(acc)
    <2>1. c = F(c)
      <3>1. \A k \in 0 .. n : c[k] = IF k = 0 THEN <<>> ELSE MergePlain(c[k - 1], T[k])
        <4>1. \A k \in 0 .. n : k = 0 \/ k \in 1 .. n
          BY <1>4
        <4>2. \A k \in 1 .. n : k # 0
          BY <1>4
        <4>3. QED
          BY <1>6, <4>1, <4>2
      <3>2. c = [k \in 0 .. n |-> c[k]]
        OBVIOUS
      <3>3. QED
        BY <3>1, <3>2
    <2> HIDE DEF F
    <2>2. QED
      BY <2>1
  <1>9. acc[0] = <<>> /\ \A k \in 1 .. n : acc[k] = MergePlain(acc[k - 1], T[k])
    <2>1. 0 \in 0 .. n /\ \A k \in 1 .. n : k \in 0 .. n /\ k # 0
      BY <1>4
    <2> HIDE DEF acc
    <2>2. QED
      BY <1>8, <2>1
  <1> HIDE DEF acc, step, n
  <1>10. acc[n] = c[n]
    <2> DEFINE P == {k \in 0 .. n : acc[k] = c[k]}
    <2>1. 0 \in P
      BY <1>4, <1>6, <1>9
    <2>2. ASSUME NEW k \in 0 .. n - 1, k \in P PROVE k + 1 \in P
      <3>1. k + 1 \in 1 .. n /\ k + 1 \in 0 .. n /\ (k + 1) - 1 = k
        BY <1>4
      <3>2. acc[k + 1] = MergePlain(acc[k], T[k + 1]) /\ acc[k] = c[k]
        BY <1>9, <2>2, <3>1
      <3>3. c[k + 1] = MergePlain(c[k], T[k + 1])
        BY <1>6, <3>1
      <3>4. QED
        BY <3>1, <3>2, <3>3
    <2> HIDE DEF P
    <2>3. n \in P
      <3>1. \A k \in 0 .. n : k \in P
        BY <1>4, <2>1, <2>2, UpTo
      <3>2. QED
        BY <1>4, <3>1
    <2>4. QED
      BY <2>3 DEF P
  <1>11. PICK d \in [0 .. n -> Seq(S)] : /\ d[0] = <<>> /\ d[n] = Gather(g, T)
                                         /\ \A k \in 1 .. n : d[k] = d[k - 1] \o g[T[k]]
    <2>1. Gives(g, OutMsg, Seq(S))
      BY OutGives
    <2>2. QED
      BY <2>1, GatherTable DEF n
  <1>12. Gather(g, c[n]) = d[n]
    <2> DEFINE P == {k \in 0 .. n : Gather(g, c[k]) = d[k]}
    <2>1. 0 \in P
      BY <1>4, <1>6, <1>11, GatherOfNone
    <2>2. ASSUME NEW k \in 0 .. n - 1, k \in P PROVE k + 1 \in P
      <3>1. k + 1 \in 1 .. n /\ k + 1 \in 0 .. n /\ (k + 1) - 1 = k /\ k \in 0 .. n
        BY <1>4
      <3>2. c[k + 1] = MergePlain(c[k], T[k + 1]) /\ T[k + 1] \in OutMsg
        BY <1>4, <1>6, <3>1
      <3>3. c[k] \in Seq(OutMsg)
        BY <3>1 DEF A
      <3>4. Gather(g, c[k + 1]) = Gather(g, c[k]) \o g[T[k + 1]]
        BY <3>2, <3>3, MergeKeeps
      <3>5. d[k + 1] = d[k] \o g[T[k + 1]] /\ Gather(g, c[k]) = d[k]
        BY <1>11, <2>2, <3>1
      <3>6. QED
        BY <3>1, <3>4, <3>5
    <2> HIDE DEF P
    <2>3. n \in P
      <3>1. \A k \in 0 .. n : k \in P
        BY <1>4, <2>1, <2>2, UpTo
      <3>2. QED
        BY <1>4, <3>1
    <2>4. QED
      BY <2>3 DEF P
  <1>13. c[n] \in Seq(OutMsg)
    BY <1>4 DEF A
  <1>14. QED
    BY <1>7, <1>10, <1>11, <1>12, <1>13

\* The placeholder is a message of the user without an item.
LEMMA PlaceholderTyped ==
    /\ Placeholder \in OutMsg /\ Placeholder = Message("user", TRUE, <<>>)
    /\ Placeholder.role = "user"
  <1>1. <<>> \in Seq(Item)
    BY NoneTyped
  <1>2. QED
    BY <1>1, MessageTyped, ZenonT(40) DEF Placeholder, OutMsg

\* What an Anthropic upstream gets: the same, beginning with the user.
LEMMA ToAnthropicKeeps ==
    ASSUME NEW S, NEW g, Measures(g, S), NEW T \in Seq(OMsg), NEW X, X = ToAnthropicMessages(T)
    PROVE  /\ X \in Seq(Msg) /\ Gather(g, X) = Gather(g, T)
           /\ X # <<>> /\ X[1].role = "user"
  <1> DEFINE Y == Merged(Converted(T))
  <1>1. Y \in Seq(OutMsg) /\ Gather(g, Y) = Gather(g, T)
    <2>1. Converted(T) \in Seq(OutMsg) /\ Gather(g, Converted(T)) = Gather(g, T)
      BY ConvertedKeeps
    <2>2. QED
      BY <2>1, MergedKeeps
  <1>2. X = IF Y = <<>> THEN <<Placeholder>>
            ELSE IF Y[1].role # "user" THEN <<Placeholder>> \o Y ELSE Y
    BY DEF ToAnthropicMessages
  <1> HIDE DEF Y
  <1> DEFINE p == Placeholder
  <1>3. p \in OutMsg /\ p.role = "user" /\ g[p] = <<>>
    BY PlaceholderTyped DEF Measures, SkipsEmpty
  <1>4. Gives(g, OutMsg, Seq(S))
    BY OutGives
  <1> HIDE DEF p
  <1>5. Gather(g, <<p>>) = <<>> /\ <<p>> \in Seq(OutMsg)
    <2>1. Gather(g, <<p>>) = g[p]
      BY <1>3, <1>4, GatherOfOne
    <2>2. QED
      BY <1>3, <2>1
  <1>6. /\ X \in Seq(OutMsg) /\ Gather(g, X) = Gather(g, T) /\ X # <<>> /\ X[1].role = "user"
    <2>1. CASE Y = <<>>
      <3>1. X = <<p>> /\ Gather(g, T) = <<>>
        BY <1>1, <1>2, <2>1, GatherOfNone DEF p
      <3>2. QED
        BY <1>3, <1>5, <3>1
    <2>2. CASE Y # <<>> /\ Y[1].role # "user"
      <3> DEFINE o == <<p>>
      <3>1. X = o \o Y
        BY <1>2, <2>2 DEF p
      <3>2. Len(o) = 1 /\ o[1] = p
        OBVIOUS
      <3> HIDE DEF o
      <3>3. o \in Seq(OutMsg) /\ Gather(g, o) = <<>>
        BY <1>5 DEF o
      <3>4. /\ X \in Seq(OutMsg) /\ Len(X) = 1 + Len(Y)
            /\ \A i \in 1 .. 1 + Len(Y) : X[i] = IF i <= 1 THEN o[i] ELSE Y[i - 1]
        BY <1>1, <3>1, <3>2, <3>3, ConcatProperties, SMTT(20)
      <3>5. Gather(g, X) = <<>> \o Gather(g, Y)
        <4>1. \A u, v \in Seq(OutMsg) : Gather(g, u \o v) = Gather(g, u) \o Gather(g, v)
          BY <1>4, GatherCat
        <4>2. QED
          BY <1>1, <3>1, <3>3, <4>1
      <3>6. Gather(g, X) = Gather(g, Y)
        BY <1>1, <1>4, <3>5, GatherTyped, ConcatEmptySeq
      <3>7. X # <<>> /\ X[1] = p
        <4>1. Len(Y) \in Nat
          BY <1>1, LenProperties
        <4>2. 1 \in 1 .. 1 + Len(Y) /\ 1 <= 1 /\ 1 + Len(Y) # 0
          BY <4>1
        <4>3. X[1] = p
          BY <3>2, <3>4, <4>2
        <4>4. Len(X) # 0
          BY <3>4, <4>2
        <4>5. X # <<>>
          BY <4>4
        <4>6. QED
          BY <4>3, <4>5
      <3>8. QED
        BY <1>1, <1>3, <3>4, <3>6, <3>7
    <2>3. CASE Y # <<>> /\ Y[1].role = "user"
      BY <1>1, <1>2, <2>3
    <2>4. QED
      BY <2>1, <2>2, <2>3
  <1>7. X \in Seq(Msg)
    BY <1>6, OutMsgs, Wider
  <1>8. QED
    BY <1>6, <1>7

----------------------------------------------------------------------------
(* From Anthropic to OpenAI *)

\* The messages in the transcript of an Anthropic client.
AMsg == {m \in Msg :
           /\ m.role # "tool"
           /\ m.role = "system" => m.items = <<>>
           /\ m.role = "user" => m.items \in Seq(Kind("text") \cup Kind("result"))
           /\ m.role = "user" /\ m.plain => m.items \in Seq(Kind("text"))
           /\ m.role = "assistant" => TextsThenCalls(m.items)}

\* A user message is sent as its results and then its texts.
Sorted(g) == [m \in Msg |->
    IF m.role = "user"
      THEN g[Message("user", FALSE, Only("result", m.items))] \o
               g[Message("user", TRUE, Only("text", m.items))]
      ELSE g[m]]

\* The messages of an Anthropic client are messages.
LEMMA AMsgs == AMsg \subseteq Msg
  BY DEF AMsg

\* A measure of what a user message is sent as.
LEMMA SortedGives ==
    ASSUME NEW S, NEW g, Measures(g, S)
    PROVE  Gives(Sorted(g), Msg, Seq(S))
  <1>1. ASSUME NEW m \in Msg PROVE Sorted(g)[m] \in Seq(S)
    <2> DEFINE a == Message("user", FALSE, Only("result", m.items))
               b == Message("user", TRUE, Only("text", m.items))
    <2>1. a \in Msg /\ b \in Msg
      <3>1. m.items \in Seq(Item)
        BY MessageIs
      <3>2. Only("result", m.items) \in Seq(Item) /\ Only("text", m.items) \in Seq(Item)
        BY <3>1, OnlyTyped
      <3>3. QED
        BY <3>2, MessageTyped
    <2>2. Sorted(g)[m] = IF m.role = "user" THEN g[a] \o g[b] ELSE g[m]
      BY DEF Sorted
    <2> HIDE DEF a, b
    <2>3. g[a] \in Seq(S) /\ g[b] \in Seq(S) /\ g[m] \in Seq(S)
      BY <2>1 DEF Measures, Gives
    <2>4. g[a] \o g[b] \in Seq(S)
      BY <2>3, CatTyped
    <2>5. QED
      BY <2>2, <2>3, <2>4
  <1>2. QED
    BY <1>1 DEF Gives

\* Each result in a message of its own, or all of them in one.
Alone == [x \in Kind("result") |-> <<Message("tool", TRUE, <<x>>)>>]

\* A result in a message of its own.
LEMMA OneResult ==
    ASSUME NEW x \in Kind("result")
    PROVE  <<x>> \in Seq(Kind("result")) /\ <<x>> \in Seq(Item) /\ Message("tool", TRUE, <<x>>) \in Msg
  <1>1. <<x>> \in Seq(Kind("result"))
    OBVIOUS
  <1>2. <<x>> \in Seq(Item)
    BY <1>1, KindsAreItems
  <1>3. QED
    BY <1>1, <1>2, MessageTyped

\* What a result contributes to the messages.
LEMMA AloneGives == Gives(Alone, Kind("result"), Seq(Msg))
  <1>1. ASSUME NEW x \in Kind("result") PROVE Alone[x] \in Seq(Msg)
    <2> DEFINE m == Message("tool", TRUE, <<x>>)
    <2>1. m \in Msg /\ Alone[x] = <<m>>
      BY OneResult DEF Alone
    <2> HIDE DEF m
    <2>2. QED
      BY <2>1
  <1>2. QED
    BY <1>1 DEF Gives

\* ToolMessages is a gathering,
LEMMA AloneAre ==
    ASSUME NEW r \in Seq(Kind("result"))
    PROVE  /\ [k \in DOMAIN r |-> Message("tool", TRUE, <<r[k]>>)] = Gather(Alone, r)
           /\ Gather(Alone, r) \in Seq(Msg)
  <1> DEFINE Tool(s) == [k \in DOMAIN s |-> Message("tool", TRUE, <<s[k]>>)]
             P == {s \in Seq(Kind("result")) : Tool(s) = Gather(Alone, s)}
  <1>1. <<>> \in P
    <2>1. Tool(<<>>) = <<>>
      OBVIOUS
    <2>2. <<>> \in Seq(Kind("result"))
      BY NoneTyped
    <2>3. QED
      BY <2>1, <2>2, GatherOfNone
  <1>2. ASSUME NEW s \in Seq(Kind("result")), NEW x \in Kind("result"), s \in P
        PROVE  Append(s, x) \in P
    <2> DEFINE t == Append(s, x)
               m == Message("tool", TRUE, <<x>>)
    <2>1. /\ t \in Seq(Kind("result")) /\ Len(t) = Len(s) + 1 /\ t[Len(s) + 1] = x
          /\ \A i \in 1 .. Len(s) : t[i] = s[i]
      BY AppendProperties
    <2>2. /\ Len(s) \in Nat /\ DOMAIN s = 1 .. Len(s) /\ DOMAIN t = 1 .. Len(s) + 1
          /\ \A i \in 1 .. Len(s) + 1 : i \in 1 .. Len(s) \/ i = Len(s) + 1
      BY <2>1
    <2> HIDE DEF t
    <2>3. Tool(s) = Gather(Alone, s) /\ Gather(Alone, s) \in Seq(Msg)
      BY <1>2, AloneGives, GatherTyped
    <2>4. Gather(Alone, t) = Gather(Alone, s) \o Alone[x]
      BY AloneGives, GatherOneMore DEF t
    <2>5. Alone[x] = <<m>> /\ m \in Msg
      BY OneResult DEF Alone
    <2> DEFINE a == Tool(s)
               b == Tool(t)
    <2>6. /\ DOMAIN a = 1 .. Len(s) /\ \A i \in 1 .. Len(s) : a[i] = Message("tool", TRUE, <<s[i]>>)
          /\ b = [i \in 1 .. Len(s) + 1 |-> b[i]]
          /\ \A i \in 1 .. Len(s) + 1 : b[i] = Message("tool", TRUE, <<t[i]>>)
      BY <2>2
    <2>7. a \in Seq(Msg) /\ Gather(Alone, t) = Append(a, m)
      <3> HIDE DEF m
      <3>1. Gather(Alone, t) = a \o <<m>> /\ a \in Seq(Msg)
        BY <2>3, <2>4, <2>5
      <3> HIDE DEF a
      <3>2. QED
        BY <2>5, <3>1
    <2> HIDE DEF a, b, m
    <2>8. Len(a) = Len(s)
      BY <2>2, <2>6, <2>7, LenProperties
    <2>9. /\ Append(a, m) \in Seq(Msg) /\ Len(Append(a, m)) = Len(s) + 1
          /\ Append(a, m)[Len(s) + 1] = m /\ \A i \in 1 .. Len(s) : Append(a, m)[i] = a[i]
      BY <2>5, <2>7, <2>8, AppendProperties
    <2>10. \A i \in 1 .. Len(s) + 1 : b[i] = Append(a, m)[i]
      <3>1. ASSUME NEW i \in 1 .. Len(s) PROVE b[i] = Append(a, m)[i]
        <4>1. i \in 1 .. Len(s) + 1
          BY <2>2
        <4>2. QED
          BY <2>1, <2>6, <2>9, <3>1, <4>1
      <3>2. b[Len(s) + 1] = Append(a, m)[Len(s) + 1]
        <4>1. Len(s) + 1 \in 1 .. Len(s) + 1
          BY <2>2
        <4>2. QED
          BY <2>1, <2>6, <2>9, <4>1 DEF m
      <3>3. QED
        BY <2>2, <3>1, <3>2
    <2>11. b = Append(a, m)
      <3> DEFINE c == Append(a, m)
      <3>1. DOMAIN c = 1 .. Len(s) + 1
        BY <2>9, LenProperties
      <3>2. c = [i \in 1 .. Len(s) + 1 |-> c[i]]
        <4>1. c \in Seq(Msg)
          BY <2>9
        <4> HIDE DEF c
        <4>2. c = [i \in DOMAIN c |-> c[i]]
          BY <4>1
        <4>3. QED
          BY <3>1, <4>2
      <3>3. \A i \in 1 .. Len(s) + 1 : b[i] = c[i]
        BY <2>10
      <3> HIDE DEF c
      <3>4. QED
        BY <2>6, <3>2, <3>3 DEF c
    <2>12. Tool(t) = Gather(Alone, t)
      BY <2>7, <2>11 DEF b
    <2>13. QED
      BY <2>1, <2>12 DEF t
  <1> HIDE DEF P
  <1>3. r \in P
    BY <1>1, <1>2, Grows
  <1>4. QED
    BY <1>3, AloneGives, GatherTyped DEF P

\* and measures as one message with all the results.
LEMMA AloneMeasured ==
    ASSUME NEW S, NEW g, Measures(g, S), NEW r \in Seq(Kind("result"))
    PROVE  Gather(g, Gather(Alone, r)) = g[Message("user", FALSE, r)]
  <1> DEFINE P == {s \in Seq(Kind("result")) : Gather(g, Gather(Alone, s)) = g[Message("user", FALSE, s)]}
  <1>1. <<>> \in P
    <2>1. Gather(g, Gather(Alone, <<>>)) = <<>>
      BY GatherOfNone
    <2>2. g[Message("user", FALSE, <<>>)] = <<>>
      BY DEF Measures, SkipsEmpty
    <2>3. <<>> \in Seq(Kind("result"))
      BY NoneTyped
    <2>4. QED
      BY <2>1, <2>2, <2>3
  <1>2. ASSUME NEW s \in Seq(Kind("result")), NEW x \in Kind("result"), s \in P
        PROVE  Append(s, x) \in P
    <2> DEFINE m == Message("tool", TRUE, <<x>>)
               G == Gather(Alone, s)
               o == <<x>>
    <2>1. Gives(g, Msg, Seq(S))
      BY DEF Measures
    <2>2. G \in Seq(Msg)
      BY AloneGives, GatherTyped
    <2>3. Alone[x] = <<m>> /\ m \in Msg /\ o \in Seq(Kind("result"))
      BY OneResult DEF Alone
    <2>4. Gather(Alone, Append(s, x)) = G \o Alone[x]
      BY AloneGives, GatherOneMore
    <2>5. Append(s, x) = s \o o /\ Append(s, x) \in Seq(Kind("result"))
      OBVIOUS
    <2>6. g[Message("user", FALSE, s \o o)] = g[Message("user", FALSE, s)] \o g[Message("tool", TRUE, o)]
      <3> HIDE DEF o
      <3>1. QED
        BY <2>3 DEF Measures, PacksResults
    <2>7. Gather(g, G) = g[Message("user", FALSE, s)]
      BY <1>2
    <2>8. g[Message("user", FALSE, Append(s, x))] = Gather(g, G) \o g[m]
      BY <2>5, <2>6, <2>7
    <2> HIDE DEF G, m, o
    <2>9. Gather(g, Append(G, m)) = Gather(g, G) \o g[m]
      BY <2>1, <2>2, <2>3, GatherOneMore
    <2>10. Gather(Alone, Append(s, x)) = Append(G, m)
      BY <2>2, <2>3, <2>4
    <2>11. QED
      BY <2>5, <2>8, <2>9, <2>10
  <1> HIDE DEF P
  <1>3. r \in P
    BY <1>1, <1>2, Grows
  <1>4. QED
    BY <1>3 DEF P

\* What becomes of one message.
LEMMA ConvertedOne ==
    ASSUME NEW S, NEW g, Measures(g, S), NEW m \in AMsg, NEW ms, ms = ConvertToOpenAI(m)
    PROVE  ms \in Seq(Msg) /\ Gather(g, ms) = Sorted(g)[m]
  <1> DEFINE texts == Only("text", m.items)
             res == Only("result", m.items)
             uses == Only("call", m.items)
             toolMessages == ToolMessages(m.items)
  <1>1. /\ m \in Msg /\ m = Message(m.role, m.plain, m.items) /\ m.items \in Seq(Item)
        /\ m.plain \in BOOLEAN /\ m.role \in {"system", "user", "assistant", "tool"}
        /\ m.role # "tool"
    <2>1. m \in Msg /\ m.role # "tool"
      BY DEF AMsg
    <2>2. QED
      BY <2>1, MessageIs
  <1>2. Gives(g, Msg, Seq(S))
    BY DEF Measures
  <1>3. /\ texts \in Seq(Kind("text")) /\ texts \in Seq(Item)
        /\ res \in Seq(Kind("result")) /\ res \in Seq(Item)
    BY <1>1, OnlyTyped
  <1>4. ms = CASE m.role = "assistant" -> <<Message("assistant", TRUE, texts \o uses)>>
               [] m.role # "assistant" /\ (m.role = "system" \/ m.plain) -> <<m>>
               [] OTHER -> IF texts = <<>> /\ toolMessages # <<>> THEN toolMessages
                           ELSE Append(toolMessages, Message("user", TRUE, texts))
    BY DEF ConvertToOpenAI
  <1>5. Sorted(g)[m] = IF m.role = "user"
                         THEN g[Message("user", FALSE, res)] \o g[Message("user", TRUE, texts)]
                         ELSE g[m]
    BY <1>1 DEF Sorted
  <1>6. ASSUME NEW x \in Msg, ms = <<x>> PROVE ms \in Seq(Msg) /\ Gather(g, ms) = g[x]
    <2>1. ms \in Seq(Msg)
      BY <1>6
    <2>2. Gather(g, <<x>>) = g[x]
      BY <1>2, GatherOfOne
    <2>3. QED
      BY <1>6, <2>1, <2>2
  <1>7. CASE m.role = "assistant"
    <2>1. PICK t \in Seq(Kind("text")), c \in Seq(Kind("call")) : m.items = t \o c
      BY <1>7 DEF AMsg, TextsThenCalls
    <2>2. texts \o uses = m.items
      <3>1. Only("text", t \o c) = t /\ Only("call", t \o c) = c
        BY SplitsBack
      <3>2. QED
        BY <2>1, <3>1
    <2> DEFINE x == Message("assistant", TRUE, m.items)
    <2>3. ms = <<x>>
      BY <1>4, <1>7, <2>2
    <2>4. x \in Msg
      BY <1>1, MessageTyped
    <2>5. g[x] = g[m]
      <3>1. g[Message("assistant", FALSE, m.items)] = g[Message("assistant", TRUE, m.items)]
        BY <1>1 DEF Measures, PacksReplies
      <3>2. g[Message("assistant", FALSE, m.items)] = g[Message("assistant", m.plain, m.items)]
        BY <1>1 DEF Measures, PacksReplies
      <3>3. QED
        BY <1>1, <1>7, <3>1, <3>2
    <2> HIDE DEF x
    <2>6. ms \in Seq(Msg) /\ Gather(g, ms) = g[x]
      BY <1>6, <2>3, <2>4
    <2>7. QED
      BY <1>5, <1>7, <2>5, <2>6
  <1>8. CASE m.role = "system"
    <2>1. ms = <<m>>
      BY <1>4, <1>8
    <2>2. QED
      BY <1>1, <1>5, <1>6, <1>8, <2>1
  <1>9. CASE m.role = "user" /\ m.plain
    <2>1. ms = <<m>>
      BY <1>4, <1>9
    <2>2. res = <<>> /\ texts = m.items
      <3>1. m.items \in Seq(Kind("text"))
        BY <1>9 DEF AMsg
      <3>2. QED
        BY <3>1, OnlyAll, OnlyOther
    <2>3. m = Message("user", TRUE, texts) /\ g[Message("user", FALSE, res)] = <<>>
      BY <1>1, <1>9, <2>2 DEF Measures, SkipsEmpty
    <2>4. Sorted(g)[m] = <<>> \o g[m]
      BY <1>5, <1>9, <2>3
    <2>5. g[m] \in Seq(S)
      BY <1>1, <1>2 DEF Gives
    <2>6. Sorted(g)[m] = g[m]
      BY <2>4, <2>5, ConcatEmptySeq
    <2>7. QED
      BY <1>1, <1>6, <2>1, <2>6
  <1>10. CASE m.role = "user" /\ ~ m.plain
    <2>1. toolMessages = Gather(Alone, res) /\ toolMessages \in Seq(Msg)
      <3>1. toolMessages = [k \in DOMAIN res |-> Message("tool", TRUE, <<res[k]>>)]
        BY DEF ToolMessages
      <3>2. QED
        BY <1>3, <3>1, AloneAre
    <2>2. Gather(g, toolMessages) = g[Message("user", FALSE, res)]
      BY <1>3, <2>1, AloneMeasured
    <2> DEFINE x == Message("user", TRUE, texts)
    <2>3. x \in Msg
      BY <1>3, MessageTyped
    <2>4. ms = IF texts = <<>> /\ toolMessages # <<>> THEN toolMessages ELSE Append(toolMessages, x)
      BY <1>4, <1>10
    <2>5. texts = <<>> => g[x] = <<>>
      BY DEF Measures, SkipsEmpty
    <2>6. Sorted(g)[m] = Gather(g, toolMessages) \o g[x]
      BY <1>5, <1>10, <2>2
    <2> HIDE DEF x, toolMessages, texts
    <2>7. CASE texts = <<>> /\ toolMessages # <<>>
      <3>1. ms = toolMessages /\ Sorted(g)[m] = Gather(g, toolMessages) \o <<>>
        BY <2>4, <2>5, <2>6, <2>7
      <3>2. Gather(g, toolMessages) \in Seq(S)
        BY <1>2, <2>1, GatherTyped
      <3>3. QED
        BY <2>1, <3>1, <3>2, ConcatEmptySeq
    <2>8. CASE ~ (texts = <<>> /\ toolMessages # <<>>)
      <3>1. ms = Append(toolMessages, x)
        BY <2>4, <2>8
      <3>2. Gather(g, Append(toolMessages, x)) = Gather(g, toolMessages) \o g[x]
        <4>1. \A s \in Seq(Msg), y \in Msg : Gather(g, Append(s, y)) = Gather(g, s) \o g[y]
          BY <1>2, GatherOneMore
        <4>2. QED
          BY <2>1, <2>3, <4>1
      <3>3. Append(toolMessages, x) \in Seq(Msg)
        BY <2>1, <2>3, AppendProperties
      <3>4. QED
        BY <2>6, <3>1, <3>2, <3>3
    <2>9. QED
      BY <2>7, <2>8
  <1>11. QED
    BY <1>1, <1>7, <1>8, <1>9, <1>10

\* What an OpenAI upstream gets.
LEMMA ToOpenAIKeeps ==
    ASSUME NEW S, NEW g, Measures(g, S), NEW T \in Seq(AMsg), NEW X, X = ToOpenAIMessages(T)
    PROVE  X \in Seq(Msg) /\ Gather(g, X) = Gather(Sorted(g), T)
  <1> DEFINE conv == [m \in AMsg |-> ConvertToOpenAI(m)]
  <1>1. \A m \in AMsg : conv[m] \in Seq(Msg) /\ Gather(g, conv[m]) = Sorted(g)[m]
    BY ConvertedOne
  <1>2. X = Gather(conv, T)
    <2>1. \A k \in DOMAIN T : conv[T[k]] = ConvertToOpenAI(T[k])
      <3>1. \A k \in DOMAIN T : T[k] \in AMsg
        OBVIOUS
      <3>2. QED
        BY <3>1
    <2>2. Each(conv, T) = [k \in DOMAIN T |-> ConvertToOpenAI(T[k])]
      BY <2>1 DEF Each
    <2>3. QED
      BY <2>2 DEF ToOpenAIMessages, Gather
  <1> HIDE DEF conv
  <1>3. Gives(conv, AMsg, Seq(Msg))
    BY <1>1 DEF Gives
  <1>4. Gives(g, Msg, Seq(S))
    BY DEF Measures
  <1>5. Gather(g, Gather(conv, T)) = Gather(Sorted(g), T)
    BY <1>1, <1>3, <1>4, GatherTwice
  <1>6. X \in Seq(Msg)
    BY <1>2, <1>3, GatherTyped
  <1>7. QED
    BY <1>2, <1>5, <1>6

----------------------------------------------------------------------------
(* What an upstream reads: the items in the order they are sent *)

Flow == Sorted(Body)

\* Measures that agree on the messages agree on the transcript.
LEMMA SameMeasure ==
    ASSUME NEW M, NEW f, NEW g, \A m \in M : f[m] = g[m], NEW T \in Seq(M)
    PROVE  Gather(f, T) = Gather(g, T)
  <1>1. \A k \in DOMAIN T : T[k] \in M
    OBVIOUS
  <1>2. Each(f, T) = Each(g, T)
    BY <1>1 DEF Each
  <1>3. QED
    BY <1>2 DEF Gather

\* What a message contributes to what is sent,
LEMMA FlowGives == Gives(Flow, Msg, Seq(Item))
  BY SortedGives, BodyMeasures DEF Flow

\* spelt out.
LEMMA FlowIs ==
    ASSUME NEW m \in Msg
    PROVE  /\ Flow[m] \in Seq(Item)
           /\ Flow[m] = IF m.role = "user" THEN Only("result", m.items) \o Only("text", m.items)
                        ELSE m.items
  <1>1. m.items \in Seq(Item)
    BY MessageIs
  <1>2. Only("result", m.items) \in Seq(Item) /\ Only("text", m.items) \in Seq(Item)
    BY <1>1, OnlyTyped
  <1>3. /\ Body[Message("user", FALSE, Only("result", m.items))] = Only("result", m.items)
        /\ Body[Message("user", TRUE, Only("text", m.items))] = Only("text", m.items)
    BY <1>2, MessageTyped DEF Body
  <1>4. Body[m] = m.items
    BY DEF Body
  <1>5. Flow[m] = IF m.role = "user" THEN Only("result", m.items) \o Only("text", m.items)
                  ELSE m.items
    BY <1>3, <1>4 DEF Flow, Sorted
  <1>6. QED
    BY <1>5, FlowGives DEF Gives

\* The transcript of an OpenAI client is in that order already.
LEMMA FlowOfOpenAI ==
    ASSUME NEW T \in Seq(OMsg)
    PROVE  T \in Seq(Msg) /\ Gather(Flow, T) = Gather(Body, T)
  <1>1. ASSUME NEW m \in OMsg PROVE Flow[m] = Body[m]
    <2>1. m \in Msg
      BY OMsgs
    <2>2. CASE m.role = "user"
      <3>1. m.items \in Seq(Kind("text"))
        BY <2>2 DEF OMsg
      <3>2. Only("result", m.items) = <<>> /\ Only("text", m.items) = m.items
        BY <3>1, OnlyAll, OnlyOther
      <3>3. Flow[m] = <<>> \o m.items
        BY <2>1, <2>2, <3>2, FlowIs
      <3>4. Flow[m] = m.items
        BY <3>1, <3>3, ConcatEmptySeq
      <3>5. QED
        BY <2>1, <3>4 DEF Body
    <2>3. CASE m.role # "user"
      BY <2>1, <2>3, FlowIs DEF Body
    <2>4. QED
      BY <2>2, <2>3
  <1>2. Gather(Flow, T) = Gather(Body, T)
    BY <1>1, SameMeasure, ZenonT(40)
  <1>3. QED
    BY <1>2, OMsgs, Wider

\* Sorting the items of user messages moves no turn,
LEMMA SortedTurns ==
    ASSUME NEW T \in Seq(Msg)
    PROVE  Gather(Sorted(Turn), T) = Gather(Turn, T)
  <1>1. ASSUME NEW m \in Msg PROVE Sorted(Turn)[m] = Turn[m]
    <2>1. m.items \in Seq(Item)
      BY MessageIs
    <2>2. Only("result", m.items) \in Seq(Item) /\ Only("text", m.items) \in Seq(Item)
      BY <2>1, OnlyTyped
    <2>3. /\ Turn[Message("user", FALSE, Only("result", m.items))] = <<>>
          /\ Turn[Message("user", TRUE, Only("text", m.items))] = <<>>
      BY <2>2, MessageTyped DEF Turn
    <2>4. m.role = "user" => Turn[m] = <<>>
      BY DEF Turn
    <2>5. <<>> \o <<>> = <<>>
      OBVIOUS
    <2>6. QED
      BY <2>3, <2>4, <2>5 DEF Sorted
  <1>2. QED
    BY <1>1, SameMeasure, ZenonT(40)

\* and no text past another one.
LEMMA SortedWords ==
    ASSUME NEW T \in Seq(Msg)
    PROVE  Gather(Sorted(Words), T) = Gather(Words, T)
  <1>1. ASSUME NEW m \in Msg PROVE Sorted(Words)[m] = Words[m]
    <2>1. m.items \in Seq(Item)
      BY MessageIs
    <2> DEFINE r == Only("result", m.items)
               t == Only("text", m.items)
    <2>2. r \in Seq(Kind("result")) /\ r \in Seq(Item) /\ t \in Seq(Kind("text")) /\ t \in Seq(Item)
      BY <2>1, OnlyTyped
    <2>3. Sorted(Words)[m] = IF m.role = "user"
                               THEN Words[Message("user", FALSE, r)] \o Words[Message("user", TRUE, t)]
                               ELSE Words[m]
      BY DEF Sorted
    <2>4. m.role = "user" => Words[m] = t
      BY DEF Words
    <2> HIDE DEF r, t
    <2>5. Only("text", r) = <<>> /\ Only("text", t) = t
      BY <2>2, OnlyAll, OnlyOther
    <2>6. Words[Message("user", FALSE, r)] = <<>> /\ Words[Message("user", TRUE, t)] = t
      <3>1. \A b \in BOOLEAN, s \in Seq(Item) : Words[Message("user", b, s)] = Only("text", s)
        BY MessageTyped DEF Words
      <3>2. QED
        BY <2>2, <2>5, <3>1
    <2>7. <<>> \o t = t
      BY <2>2, ConcatEmptySeq
    <2>8. QED
      BY <2>3, <2>4, <2>6, <2>7
  <1>2. QED
    BY <1>1, SameMeasure, ZenonT(40)

\* Sorting changes the order of the items, not which there are.
LEMMA FlowHas ==
    ASSUME NEW T \in Seq(AMsg), NEW y
    PROVE  T \in Seq(Msg) /\ (Has(Gather(Flow, T), y) <=> Has(Gather(Body, T), y))
  <1>1. T \in Seq(Msg) /\ \A k \in DOMAIN T : T[k] \in AMsg
    <2>1. \A k \in DOMAIN T : T[k] \in AMsg
      OBVIOUS
    <2>2. QED
      BY <2>1, AMsgs, Wider
  <1>2. ASSUME NEW m \in AMsg PROVE Has(Flow[m], y) <=> Has(Body[m], y)
    <2>1. m \in Msg /\ m.items \in Seq(Item) /\ Body[m] = m.items
      BY AMsgs, MessageIs DEF Body
    <2>2. CASE m.role = "user"
      <3> DEFINE s == m.items
                 r == Only("result", s)
                 t == Only("text", s)
      <3>1. s \in Seq(Kind("text") \cup Kind("result"))
        BY <2>2 DEF AMsg
      <3>2. \A i \in DOMAIN s : s[i] \in Kind("text") \cup Kind("result")
        BY <3>1
      <3>3. Has(s, y) => y.is \in {"text", "result"}
        <4> HIDE DEF s
        <4>1. QED
          BY <3>2 DEF Has, Kind
      <3>4. Flow[m] = r \o t
        BY <2>1, <2>2, FlowIs
      <3>5. r \in Seq(Item) /\ t \in Seq(Item)
        BY <2>1, OnlyTyped
      <3>6. /\ Has(r, y) <=> Has(s, y) /\ y.is = "result"
            /\ Has(t, y) <=> Has(s, y) /\ y.is = "text"
        BY <2>1, OnlyHas
      <3> HIDE DEF r, t
      <3>7. Has(r \o t, y) <=> Has(r, y) \/ Has(t, y)
        BY <3>5, CatHas
      <3>8. QED
        BY <2>1, <3>3, <3>4, <3>6, <3>7
    <2>3. CASE m.role # "user"
      BY <2>1, <2>3, FlowIs
    <2>4. QED
      BY <2>2, <2>3
  <1>3. Has(Gather(Flow, T), y) <=> \E k \in DOMAIN T : Has(Flow[T[k]], y)
    BY <1>1, FlowGives, GatherHas
  <1>4. Has(Gather(Body, T), y) <=> \E k \in DOMAIN T : Has(Body[T[k]], y)
    BY <1>1, BodyGives, GatherHas
  <1>5. QED
    BY <1>1, <1>2, <1>3, <1>4

----------------------------------------------------------------------------
(* Calls and their results *)

Answered(s, n) == \E i \in DOMAIN s : s[i].is = "result" /\ s[i].id = n

AllAnswered(s) == \A j \in DOMAIN s : s[j].is = "call" => Answered(s, s[j].id)

\* No text between a call and its result.
NearCall(s, k) ==
    \E j \in 1 .. k - 1 :
        /\ s[j].is = "call" /\ s[j].id = s[k].id
        /\ \A i \in j .. k : s[i].is # "text"

Quiet(s) == \A k \in DOMAIN s : s[k].is = "result" => NearCall(s, k)

\* No text after a call that waits for its result.
NoTextFrom(s, j) == \A i \in j .. Len(s) : s[i].is # "text"

Fresh(s) == \A j \in DOMAIN s : s[j].is = "call" /\ ~ Answered(s, s[j].id) => NoTextFrom(s, j)

\* OpenCalls has the calls without a result.
LEMMA OpenCallsAre ==
    ASSUME NEW s \in Seq(Item)
    PROVE  /\ OpenCalls(s) \in Seq(Item)
           /\ \A y : Has(OpenCalls(s), y) <=> Has(s, y) /\ y.is = "call" /\ ~ Answered(s, y.id)
  <1> DEFINE answered == {s[k].id : k \in {j \in DOMAIN s : s[j].is = "result"}}
             open == [x \in Item |-> IF x.is = "call" /\ x.id \notin answered THEN <<x>> ELSE <<>>]
  <1>1. \A i \in DOMAIN s : s[i] \in Item
    OBVIOUS
  <1>2. \A n : n \in answered <=> Answered(s, n)
    BY DEF Answered
  <1>3. OpenCalls(s) = Gather(open, s)
    <2>1. \A i \in DOMAIN s : open[s[i]] = IF s[i].is = "call" /\ s[i].id \notin answered
                                             THEN <<s[i]>> ELSE <<>>
      BY <1>1
    <2>2. Each(open, s) = [i \in DOMAIN s |-> IF s[i].is = "call" /\ s[i].id \notin answered
                                                THEN <<s[i]>> ELSE <<>>]
      <3> HIDE DEF open, answered
      <3>1. QED
        BY <2>1 DEF Each
    <2>3. QED
      BY <2>2 DEF OpenCalls, Gather
  <1>4. \A x \in Item : open[x] = IF x.is = "call" /\ ~ Answered(s, x.id) THEN <<x>> ELSE <<>>
    BY <1>2
  <1> HIDE DEF open, answered
  <1>5. Gives(open, Item, Seq(Item))
    <2>1. ASSUME NEW x \in Item PROVE open[x] \in Seq(Item)
      <3>1. <<x>> \in Seq(Item) /\ <<>> \in Seq(Item)
        OBVIOUS
      <3>2. QED
        BY <1>4, <3>1
    <2>2. QED
      BY <2>1 DEF Gives
  <1>6. OpenCalls(s) \in Seq(Item)
    BY <1>3, <1>5, GatherTyped
  <1>7. ASSUME NEW y
        PROVE  Has(OpenCalls(s), y) <=> Has(s, y) /\ y.is = "call" /\ ~ Answered(s, y.id)
    <2>1. Has(Gather(open, s), y) <=> \E i \in DOMAIN s : Has(open[s[i]], y)
      BY <1>5, GatherHas
    <2>2. ASSUME NEW i \in DOMAIN s
          PROVE  Has(open[s[i]], y) <=> s[i] = y /\ y.is = "call" /\ ~ Answered(s, y.id)
      <3>1. s[i] \in Item
        BY <1>1
      <3>2. CASE s[i].is = "call" /\ ~ Answered(s, s[i].id)
        <4>1. open[s[i]] = <<s[i]>>
          BY <1>4, <3>1, <3>2
        <4>2. \A x : Has(<<x>>, y) <=> x = y
          BY DEF Has
        <4>3. QED
          BY <3>2, <4>1, <4>2
      <3>3. CASE ~ (s[i].is = "call" /\ ~ Answered(s, s[i].id))
        <4>1. open[s[i]] = <<>>
          BY <1>4, <3>1, <3>3
        <4>2. ~ Has(<<>>, y)
          BY DEF Has
        <4>3. QED
          BY <3>3, <4>1, <4>2
      <3>4. QED
        BY <3>2, <3>3
    <2>3. QED
      BY <1>3, <2>1, <2>2 DEF Has
  <1>8. QED
    BY <1>6, <1>7

\* It is empty when all are answered.
LEMMA NoneOpen ==
    ASSUME NEW s \in Seq(Item)
    PROVE  OpenCalls(s) = <<>> <=> AllAnswered(s)
  <1> DEFINE o == OpenCalls(s)
  <1>1. o \in Seq(Item) /\ \A y : Has(o, y) <=> Has(s, y) /\ y.is = "call" /\ ~ Answered(s, y.id)
    BY OpenCallsAre
  <1> HIDE DEF o
  <1>2. o = <<>> <=> \A y : ~ Has(o, y)
    <2>1. o = <<>> => \A y : ~ Has(o, y)
      BY DEF Has
    <2>2. o # <<>> => Has(o, o[1])
      BY <1>1 DEF Has
    <2>3. QED
      BY <2>1, <2>2
  <1>3. (\A y : ~ (Has(s, y) /\ y.is = "call" /\ ~ Answered(s, y.id))) <=> AllAnswered(s)
    BY DEF AllAnswered, Has
  <1>4. QED
    BY <1>1, <1>2, <1>3 DEF o

\* Both depend on which items there are only.
LEMMA SameAnswers ==
    ASSUME NEW s, NEW t, \A y : Has(s, y) <=> Has(t, y)
    PROVE  /\ \A n : Answered(s, n) <=> Answered(t, n)
           /\ AllAnswered(s) <=> AllAnswered(t)
  <1>1. \A n : Answered(s, n) <=> Answered(t, n)
    BY DEF Answered, Has
  <1>2. \A u, v : (\A y : Has(u, y) <=> Has(v, y)) /\ (\A n : Answered(u, n) <=> Answered(v, n))
                      /\ AllAnswered(u) => AllAnswered(v)
    <2>1. SUFFICES ASSUME NEW u, NEW v, \A y : Has(u, y) <=> Has(v, y),
                          \A n : Answered(u, n) <=> Answered(v, n), AllAnswered(u),
                          NEW j \in DOMAIN v, v[j].is = "call"
                   PROVE  Answered(v, v[j].id)
      BY DEF AllAnswered
    <2>2. PICK i \in DOMAIN u : u[i] = v[j]
      BY <2>1 DEF Has
    <2>3. QED
      BY <2>1, <2>2 DEF AllAnswered
  <1>3. QED
    BY <1>1, <1>2

\* Where the items of two sequences are in the sequence of both.
LEMMA CatAt ==
    ASSUME NEW F \in Seq(Item), NEW G \in Seq(Item), NEW H, H = F \o G
    PROVE  /\ H \in Seq(Item) /\ Len(F) \in Nat /\ Len(G) \in Nat /\ Len(H) = Len(F) + Len(G)
           /\ DOMAIN F = 1 .. Len(F) /\ DOMAIN G = 1 .. Len(G) /\ DOMAIN H = 1 .. Len(F) + Len(G)
           /\ \A k \in 1 .. Len(F) : H[k] = F[k] /\ k \in DOMAIN H
           /\ \A k \in 1 .. Len(G) : H[Len(F) + k] = G[k] /\ Len(F) + k \in DOMAIN H
           /\ \A k \in DOMAIN H : k \in 1 .. Len(F) \/ (k - Len(F) \in 1 .. Len(G) /\ H[k] = G[k - Len(F)])
  <1>1. /\ H \in Seq(Item) /\ Len(H) = Len(F) + Len(G)
        /\ \A i \in 1 .. Len(F) + Len(G) : H[i] = IF i <= Len(F) THEN F[i] ELSE G[i - Len(F)]
    BY ConcatProperties
  <1>2. /\ Len(F) \in Nat /\ Len(G) \in Nat
        /\ DOMAIN F = 1 .. Len(F) /\ DOMAIN G = 1 .. Len(G) /\ DOMAIN H = 1 .. Len(F) + Len(G)
    BY <1>1, LenProperties
  <1> DEFINE m == Len(F)
             n == Len(G)
  <1>3. \A k \in 1 .. m : k \in 1 .. m + n /\ k <= m
    BY <1>2
  <1>4. \A k \in 1 .. n : m + k \in 1 .. m + n /\ ~ (m + k <= m) /\ (m + k) - m = k
    BY <1>2
  <1>5. \A k \in 1 .. m + n : k \in 1 .. m \/ (k - m \in 1 .. n /\ ~ (k <= m))
    BY <1>2
  <1> HIDE DEF m, n
  <1>6. QED
    BY <1>1, <1>2, <1>3, <1>4, <1>5 DEF m, n

\* What was answered stays answered.
LEMMA CatAnswered ==
    ASSUME NEW F \in Seq(Item), NEW G \in Seq(Item), NEW H, H = F \o G, NEW n
    PROVE  Answered(H, n) <=> Answered(F, n) \/ Answered(G, n)
  <1>1. \A y : Has(H, y) <=> Has(F, y) \/ Has(G, y)
    BY CatHas
  <1>2. \A s : Answered(s, n) <=> \E y : Has(s, y) /\ y.is = "result" /\ y.id = n
    BY DEF Answered, Has
  <1>3. QED
    BY <1>1, <1>2

\* What is appended keeps earlier results next to their calls.
LEMMA QuietPrefix ==
    ASSUME NEW F \in Seq(Item), NEW G \in Seq(Item), NEW H, H = F \o G, Quiet(F),
           NEW k \in 1 .. Len(F), H[k].is = "result"
    PROVE  NearCall(H, k)
  <1>1. /\ Len(F) \in Nat /\ DOMAIN F = 1 .. Len(F)
        /\ \A i \in 1 .. Len(F) : H[i] = F[i]
    BY CatAt
  <1>2. PICK j \in 1 .. k - 1 : /\ F[j].is = "call" /\ F[j].id = F[k].id
                                /\ \A i \in j .. k : F[i].is # "text"
    BY <1>1 DEF Quiet, NearCall
  <1>3. j \in 1 .. Len(F) /\ \A i \in j .. k : i \in 1 .. Len(F)
    BY <1>1
  <1>4. H[j].is = "call" /\ H[j].id = H[k].id
    BY <1>1, <1>2, <1>3
  <1>5. \A i \in j .. k : H[i].is # "text"
    BY <1>1, <1>2, <1>3
  <1>6. QED
    BY <1>4, <1>5 DEF NearCall

\* Results of open calls may be appended,
LEMMA ResultsFit ==
    ASSUME NEW F \in Seq(Item), NEW G \in Seq(Kind("result")), NEW H, H = F \o G,
           Quiet(F), Fresh(F),
           \A k \in DOMAIN G : \E j \in DOMAIN F :
               F[j].is = "call" /\ F[j].id = G[k].id /\ ~ Answered(F, F[j].id)
    PROVE  Quiet(H) /\ Fresh(H)
  <1>1. G \in Seq(Item) /\ \A k \in DOMAIN G : G[k].is = "result"
    <2>1. \A k \in DOMAIN G : G[k] \in Kind("result")
      OBVIOUS
    <2>2. QED
      BY <2>1, KindsAreItems DEF Kind
  <1> DEFINE m == Len(F)
             n == Len(G)
  <1>2. /\ m \in Nat /\ n \in Nat /\ Len(H) = m + n
        /\ DOMAIN F = 1 .. m /\ DOMAIN G = 1 .. n /\ DOMAIN H = 1 .. m + n
        /\ \A k \in 1 .. m : H[k] = F[k]
        /\ \A k \in 1 .. m + n : k \in 1 .. m \/ (k - m \in 1 .. n /\ H[k] = G[k - m])
    BY <1>1, CatAt
  <1>3. \A k \in 1 .. m : H[k].is = "result" => NearCall(H, k)
    BY <1>1, QuietPrefix
  <1> HIDE DEF m, n
  <1>4. \A k \in 1 .. m + n : k \notin 1 .. m => H[k].is = "result"
    BY <1>1, <1>2, ZenonT(40)
  <1>5. ASSUME NEW j \in 1 .. m, F[j].is = "call", ~ Answered(F, F[j].id)
        PROVE  \A i \in j .. m + n : H[i].is # "text"
    <2>1. \A i \in j .. m : F[i].is # "text"
      BY <1>2, <1>5 DEF Fresh, NoTextFrom, m
    <2>2. \A i \in j .. m + n : i \in 1 .. m + n /\ (i \in 1 .. m => i \in j .. m)
      BY <1>2
    <2>3. \A i \in j .. m + n : i \in 1 .. m => H[i].is # "text"
      BY <1>2, <2>1, <2>2
    <2>4. \A i \in j .. m + n : i \notin 1 .. m => H[i].is # "text"
      BY <1>4, <2>2
    <2>5. QED
      BY <2>3, <2>4
  <1>6. ASSUME NEW k \in 1 .. m + n, H[k].is = "result"
        PROVE  NearCall(H, k)
    <2>1. CASE k \in 1 .. m
      BY <1>3, <1>6, <2>1
    <2>2. CASE k \notin 1 .. m
      <3>1. k - m \in 1 .. n /\ H[k] = G[k - m]
        BY <1>2, <2>2
      <3>2. PICK j \in 1 .. m : F[j].is = "call" /\ F[j].id = G[k - m].id /\ ~ Answered(F, F[j].id)
        BY <1>2, <3>1, ZenonT(40)
      <3>3. \A i \in j .. m + n : H[i].is # "text"
        BY <1>5, <3>2
      <3>4. j \in 1 .. k - 1 /\ \A i \in j .. k : i \in j .. m + n
        BY <1>2, <2>2
      <3>5. H[j].is = "call" /\ H[j].id = H[k].id
        BY <1>2, <3>1, <3>2
      <3>6. QED
        BY <3>3, <3>4, <3>5 DEF NearCall
    <2>3. QED
      BY <2>1, <2>2
  <1>7. Quiet(H)
    BY <1>2, <1>6 DEF Quiet
  <1>8. ASSUME NEW j \in 1 .. m + n, H[j].is = "call", ~ Answered(H, H[j].id)
        PROVE  NoTextFrom(H, j)
    <2>1. j \in 1 .. m /\ H[j] = F[j]
      BY <1>2, <1>4, <1>8
    <2>2. ~ Answered(F, F[j].id)
      <3>1. \A x : Answered(H, x) <=> Answered(F, x) \/ Answered(G, x)
        BY <1>1, CatAnswered
      <3>2. QED
        BY <1>8, <2>1, <3>1
    <2>3. \A i \in j .. m + n : H[i].is # "text"
      BY <1>5, <1>8, <2>1, <2>2
    <2>4. QED
      BY <1>2, <2>3 DEF NoTextFrom
  <1>9. Fresh(H)
    BY <1>2, <1>8 DEF Fresh
  <1>10. QED
    BY <1>7, <1>9

\* No text after a call.
TextsFirst(s) == \A j \in DOMAIN s : s[j].is = "call" => NoTextFrom(s, j)

\* and, once every call is answered, texts and then calls.
LEMMA TurnFits ==
    ASSUME NEW F \in Seq(Item), NEW G \in Seq(Item), NEW H, H = F \o G,
           Quiet(F), AllAnswered(F),
           \A k \in DOMAIN G : G[k].is # "result", TextsFirst(G)
    PROVE  Quiet(H) /\ Fresh(H)
  <1> DEFINE m == Len(F)
             n == Len(G)
  <1>2. /\ m \in Nat /\ n \in Nat /\ Len(H) = m + n
        /\ DOMAIN F = 1 .. m /\ DOMAIN G = 1 .. n /\ DOMAIN H = 1 .. m + n
        /\ \A k \in 1 .. m : H[k] = F[k]
        /\ \A k \in 1 .. m + n : k \in 1 .. m \/ (k - m \in 1 .. n /\ H[k] = G[k - m])
    BY CatAt
  <1>3. \A k \in 1 .. m : H[k].is = "result" => NearCall(H, k)
    BY QuietPrefix
  <1>4. \A k \in 1 .. m : F[k].is = "call" => Answered(H, F[k].id)
    <2>1. \A k \in 1 .. m : F[k].is = "call" => Answered(F, F[k].id)
      BY <1>2 DEF AllAnswered
    <2>2. QED
      BY <2>1, CatAnswered
  <1>5. \A j \in 1 .. n : G[j].is = "call" => \A i \in j .. n : G[i].is # "text"
    BY <1>2 DEF TextsFirst, NoTextFrom
  <1> HIDE DEF m, n
  <1>6. Quiet(H)
    BY <1>2, <1>3 DEF Quiet
  <1>7. ASSUME NEW j \in 1 .. m + n, H[j].is = "call", ~ Answered(H, H[j].id)
        PROVE  NoTextFrom(H, j)
    <2>1. j \notin 1 .. m
      BY <1>2, <1>4, <1>7
    <2>2. j - m \in 1 .. n /\ H[j] = G[j - m]
      BY <1>2, <2>1
    <2>3. SUFFICES ASSUME NEW i \in j .. m + n PROVE H[i].is # "text"
      BY <1>2 DEF NoTextFrom
    <2>4. i \in 1 .. m + n /\ i \notin 1 .. m /\ i - m \in j - m .. n
      BY <1>2, <2>1
    <2>5. H[i] = G[i - m]
      BY <1>2, <2>4
    <2>6. QED
      BY <1>5, <1>7, <2>2, <2>4, <2>5
  <1>8. Fresh(H)
    BY <1>2, <1>7 DEF Fresh
  <1>9. QED
    BY <1>6, <1>8

\* Texts and then calls have no text after a call and no result.
LEMMA SplitIsOrdered ==
    ASSUME NEW s \in Seq(Item), TextsThenCalls(s)
    PROVE  TextsFirst(s) /\ \A k \in DOMAIN s : s[k].is # "result"
  <1>1. PICK t \in Seq(Kind("text")), c \in Seq(Kind("call")) : s = t \o c
    BY DEF TextsThenCalls
  <1>2. t \in Seq(Item) /\ c \in Seq(Item)
    BY KindsAreItems
  <1>3. /\ \A k \in 1 .. Len(t) : t[k].is = "text"
        /\ \A k \in 1 .. Len(c) : c[k].is = "call"
    <2>1. \A k \in 1 .. Len(t) : t[k] \in Kind("text")
      OBVIOUS
    <2>2. \A k \in 1 .. Len(c) : c[k] \in Kind("call")
      OBVIOUS
    <2>3. QED
      BY <2>1, <2>2 DEF Kind
  <1> DEFINE m == Len(t)
             n == Len(c)
  <1>4. /\ m \in Nat /\ n \in Nat /\ Len(s) = m + n /\ DOMAIN s = 1 .. m + n
        /\ \A k \in 1 .. m : s[k] = t[k]
        /\ \A k \in 1 .. m + n : k \in 1 .. m \/ (k - m \in 1 .. n /\ s[k] = c[k - m])
    BY <1>1, <1>2, CatAt
  <1> HIDE DEF m, n
  <1>5. \A k \in 1 .. m : s[k].is = "text"
    BY <1>3, <1>4 DEF m
  <1>6. \A k \in 1 .. m + n : k \notin 1 .. m => s[k].is = "call"
    BY <1>3, <1>4 DEF n
  <1>7. ASSUME NEW j \in 1 .. m + n, s[j].is = "call", NEW i \in j .. m + n PROVE s[i].is # "text"
    <2>1. j \notin 1 .. m
      BY <1>5, <1>7
    <2>2. i \in 1 .. m + n /\ i \notin 1 .. m
      BY <1>4, <2>1
    <2>3. QED
      BY <1>6, <2>2
  <1>8. TextsFirst(s)
    BY <1>4, <1>7 DEF TextsFirst, NoTextFrom
  <1>9. \A k \in DOMAIN s : s[k].is # "result"
    BY <1>4, <1>5, <1>6
  <1>10. QED
    BY <1>8, <1>9

----------------------------------------------------------------------------
(* The invariant of a conversation *)

ClientMsg == IF client = "openai" THEN OMsg ELSE AMsg

TalkTyped ==
    /\ client \in {"openai", "anthropic"}
    /\ nextItem \in Nat
    /\ transcript \in Seq(ClientMsg)
    /\ uttered \in Seq(Seq(Item))

\* What would be sent now.
Flowing == Gather(Flow, transcript)

Sendable == Quiet(Flowing) /\ Fresh(Flowing)

\* These turns are the first n that were uttered, with one quoted before them
\* or none.
AsUttered(turns, n, spoken) ==
    \E q \in {0, 1} : Len(turns) = n + q /\ \A k \in 1 .. n : turns[k + q] = Parsed(spoken[k])

TurnsKept ==
    /\ AsUttered(TurnsIn(transcript), Len(uttered), uttered)
    /\ request # <<>> => uttered # <<>> /\ AsUttered(TurnsIn(request), Len(uttered) - 1, uttered)

\* The request has the texts of what came before the last turn.
LastTurn(n, messages) ==
    /\ n \in DOMAIN messages
    /\ messages[n].role = "assistant"
    /\ \A i \in DOMAIN messages : messages[i].role = "assistant" => i <= n

TextsKept ==
    request # <<>> => \E n \in Nat : /\ LastTurn(n, transcript)
                                     /\ UserTexts(request) = UserTexts(SubSeq(transcript, 1, n - 1))

TalkInv == TalkTyped /\ Sendable /\ TurnsKept /\ TextsKept /\ AnswersFollowCalls

\* The transcript is made of messages.
LEMMA ClientMsgs ==
    ASSUME TalkTyped
    PROVE  ClientMsg \subseteq Msg /\ transcript \in Seq(Msg)
  <1>1. ClientMsg \subseteq Msg
    BY OMsgs, AMsgs DEF ClientMsg
  <1>2. QED
    BY <1>1, Wider DEF TalkTyped

\* The invariant holds of the empty conversation.
LEMMA TalkStarts == ConversationInit => TalkInv
  <1> SUFFICES ASSUME ConversationInit PROVE TalkInv
    OBVIOUS
  <1> USE DEF ConversationInit
  <1>1. TalkTyped
    BY NoneTyped DEF TalkTyped
  <1>2. Flowing = <<>> /\ TurnsIn(transcript) = <<>> /\ ItemsOf(request) = <<>>
    <2>1. <<>> \in Seq(Msg)
      BY NoneTyped
    <2>2. ItemsOf(<<>>) = Gather(Body, <<>>) /\ TurnsIn(<<>>) = Gather(Turn, <<>>)
      BY <2>1, MeasuresAre
    <2>3. QED
      BY <2>2, GatherOfNone DEF Flowing
  <1>3. Sendable
    BY <1>2 DEF Sendable, Quiet, Fresh
  <1>4. TurnsKept
    <2>1. AsUttered(<<>>, 0, <<>>)
      BY DEF AsUttered
    <2>2. QED
      BY <1>2, <2>1 DEF TurnsKept
  <1>5. TextsKept
    BY DEF TextsKept
  <1>6. AnswersFollowCalls
    <2>1. AllAnswered(<<>>) /\ <<>> \in Seq(Item)
      BY DEF AllAnswered
    <2>2. OpenCalls(<<>>) = <<>>
      BY <2>1, NoneOpen
    <2>3. QED
      BY <1>2, <2>2 DEF AnswersFollowCalls
  <1>7. QED
    BY <1>1, <1>3, <1>4, <1>5, <1>6 DEF TalkInv

\* What is open in the transcript is open in what would be sent.
LEMMA FlowOpen ==
    ASSUME TalkTyped
    PROVE  /\ Flowing \in Seq(Item) /\ ItemsOf(transcript) \in Seq(Item)
           /\ \A y : Has(Flowing, y) <=> Has(ItemsOf(transcript), y)
           /\ Unanswered \in Seq(Item)
           /\ \A y : Has(Unanswered, y) <=> Has(Flowing, y) /\ y.is = "call" /\ ~ Answered(Flowing, y.id)
           /\ Unanswered = <<>> <=> AllAnswered(Flowing)
  <1> DEFINE I == ItemsOf(transcript)
  <1>1. transcript \in Seq(Msg) /\ I = Gather(Body, transcript)
    BY ClientMsgs, MeasuresAre
  <1>2. Flowing \in Seq(Item)
    BY <1>1, FlowGives, GatherTyped DEF Flowing
  <1>3. I \in Seq(Item)
    BY <1>1, BodyGives, GatherTyped
  <1>4. \A y : Has(Flowing, y) <=> Has(I, y)
    <2>1. CASE client = "openai"
      <3>1. transcript \in Seq(OMsg)
        BY <2>1 DEF TalkTyped, ClientMsg
      <3>2. Gather(Flow, transcript) = Gather(Body, transcript)
        BY <3>1, FlowOfOpenAI
      <3>3. Flowing = I
        BY <1>1, <3>2 DEF Flowing
      <3>4. QED
        BY <3>3
    <2>2. CASE client # "openai"
      <3>1. transcript \in Seq(AMsg)
        BY <2>2 DEF TalkTyped, ClientMsg
      <3>2. \A y : Has(Gather(Flow, transcript), y) <=> Has(Gather(Body, transcript), y)
        BY <3>1, FlowHas
      <3>3. QED
        BY <1>1, <3>2 DEF Flowing
    <2>3. QED
      BY <2>1, <2>2
  <1>5. Unanswered = OpenCalls(I)
    BY DEF Unanswered
  <1> HIDE DEF I
  <1>6. /\ \A n : Answered(Flowing, n) <=> Answered(I, n)
        /\ AllAnswered(Flowing) <=> AllAnswered(I)
    BY <1>4, SameAnswers
  <1>7. /\ OpenCalls(I) \in Seq(Item)
        /\ \A y : Has(OpenCalls(I), y) <=> Has(I, y) /\ y.is = "call" /\ ~ Answered(I, y.id)
    BY <1>3, OpenCallsAre
  <1>8. OpenCalls(I) = <<>> <=> AllAnswered(I)
    BY <1>3, NoneOpen
  <1>9. QED
    BY <1>2, <1>3, <1>4, <1>5, <1>6, <1>7, <1>8 DEF I

\* Sequences that agree up to k have the same prefix of length k.
LEMMA SamePrefix ==
    ASSUME NEW S, NEW s \in Seq(S), NEW t \in Seq(S), NEW k \in 0 .. Len(s), k \in 0 .. Len(t),
           \A i \in 1 .. k : s[i] = t[i]
    PROVE  SubSeq(s, 1, k) = SubSeq(t, 1, k)
  <1>1. k \in Int /\ (IF 1 <= k THEN k - 1 + 1 ELSE 0) = k /\ k - 1 + 1 = k
        /\ \A i \in 1 .. k : 1 + i - 1 = i
    BY LenProperties
  <1>2. (\A i \in 1 .. k : s[i] \in S) /\ (\A i \in 1 .. k : t[i] \in S)
    <2>1. \A i \in 1 .. k : i \in 1 .. Len(s) /\ i \in 1 .. Len(t)
      BY LenProperties
    <2>2. QED
      BY <2>1, ElementOfSeq
  <1>3. /\ SubSeq(s, 1, k) \in Seq(S) /\ Len(SubSeq(s, 1, k)) = k
        /\ \A i \in 1 .. k : SubSeq(s, 1, k)[i] = s[i]
    BY <1>1, <1>2, SubSeqProperties
  <1>4. /\ SubSeq(t, 1, k) \in Seq(S) /\ Len(SubSeq(t, 1, k)) = k
        /\ \A i \in 1 .. k : SubSeq(t, 1, k)[i] = t[i]
    BY <1>1, <1>2, SubSeqProperties
  <1> DEFINE a == SubSeq(s, 1, k)
             b == SubSeq(t, 1, k)
  <1>5. /\ a \in Seq(S) /\ b \in Seq(S) /\ Len(a) = Len(b)
        /\ \A i \in 1 .. Len(a) : a[i] = b[i]
    BY <1>3, <1>4
  <1> HIDE DEF a, b
  <1>6. a = b
    BY <1>5, SeqEqual
  <1>7. QED
    BY <1>6 DEF a, b

\* A measure of the transcript with one message more.
LEMMA OneMessageMore ==
    ASSUME TalkTyped, NEW m \in ClientMsg, NEW T, T = Append(transcript, m)
    PROVE  /\ T \in Seq(ClientMsg) /\ T \in Seq(Msg) /\ m \in Msg
           /\ Gather(Flow, T) = Flowing \o Flow[m]
           /\ TurnsIn(T) = TurnsIn(transcript) \o Turn[m]
           /\ TurnsIn(transcript) \in Seq(Seq(Item))
           /\ Len(transcript) \in Nat /\ Len(T) = Len(transcript) + 1
           /\ DOMAIN transcript = 1 .. Len(transcript) /\ DOMAIN T = 1 .. Len(transcript) + 1
           /\ T[Len(transcript) + 1] = m
           /\ \A i \in 1 .. Len(transcript) : T[i] = transcript[i]
  <1>1. transcript \in Seq(Msg) /\ m \in Msg /\ transcript \in Seq(ClientMsg)
    BY ClientMsgs DEF TalkTyped
  <1>2. T \in Seq(ClientMsg) /\ T \in Seq(Msg)
    BY <1>1, AppendProperties
  <1>3. Gather(Flow, T) = Flowing \o Flow[m]
    BY <1>1, FlowGives, GatherOneMore DEF Flowing
  <1>4. Gather(Turn, T) = Gather(Turn, transcript) \o Turn[m]
    BY <1>1, TurnGives, GatherOneMore
  <1>5. Gather(Turn, transcript) \in Seq(Seq(Item))
    BY <1>1, TurnGives, GatherTyped
  <1>6. TurnsIn(T) = Gather(Turn, T) /\ TurnsIn(transcript) = Gather(Turn, transcript)
    BY <1>1, <1>2, MeasuresAre
  <1>7. /\ Len(transcript) \in Nat /\ Len(T) = Len(transcript) + 1
        /\ T[Len(transcript) + 1] = m
        /\ \A i \in 1 .. Len(transcript) : T[i] = transcript[i]
    BY <1>1, AppendProperties, LenProperties
  <1>8. DOMAIN transcript = 1 .. Len(transcript) /\ DOMAIN T = 1 .. Len(transcript) + 1
    BY <1>1, <1>2, <1>7, LenProperties
  <1>9. QED
    BY <1>1, <1>2, <1>3, <1>4, <1>5, <1>6, <1>7, <1>8

\* The client adds a message that is no reply: it keeps the invariant if the
\* items fit.
LEMMA AddKeeps ==
    ASSUME TalkInv, NEW m \in ClientMsg, AddToTranscript(m), nextItem' \in Nat,
           \/ m.role # "assistant"
           \/ uttered = <<>> /\ TurnsIn(transcript) = <<>>,
           Quiet(Flowing \o Flow[m]), Fresh(Flowing \o Flow[m])
    PROVE  TalkInv'
  <1> DEFINE T == Append(transcript, m)
             n == Len(transcript)
  <1>1. transcript' = T /\ client' = client /\ request' = request /\ uttered' = uttered
    BY DEF AddToTranscript
  <1>2. TalkTyped
    BY DEF TalkInv
  <1>3. /\ T \in Seq(ClientMsg) /\ T \in Seq(Msg) /\ m \in Msg
        /\ Gather(Flow, T) = Flowing \o Flow[m]
        /\ TurnsIn(T) = TurnsIn(transcript) \o Turn[m]
        /\ TurnsIn(transcript) \in Seq(Seq(Item))
        /\ n \in Nat /\ Len(T) = n + 1
        /\ DOMAIN transcript = 1 .. n /\ DOMAIN T = 1 .. n + 1
        /\ T[n + 1] = m
        /\ \A i \in 1 .. n : T[i] = transcript[i]
    BY <1>2, OneMessageMore
  <1> HIDE DEF T, n
  <1>4. TalkTyped'
    BY <1>1, <1>2, <1>3 DEF TalkTyped, ClientMsg
  <1>5. Sendable'
    BY <1>1, <1>3 DEF Sendable, Flowing
  <1>6. TurnsKept'
    <2>1. AsUttered(TurnsIn(T), Len(uttered), uttered)
      <3>1. CASE m.role # "assistant"
        <4>1. Turn[m] = <<>>
          BY <1>3, <3>1 DEF Turn
        <4>2. TurnsIn(T) = TurnsIn(transcript)
          BY <1>3, <4>1, ConcatEmptySeq
        <4>3. QED
          BY <4>2 DEF TalkInv, TurnsKept
      <3>2. CASE m.role = "assistant"
        <4>1. Turn[m] = <<m.items>>
          BY <1>3, <3>2 DEF Turn
        <4>2. TurnsIn(T) = <<m.items>> /\ uttered = <<>>
          BY <1>3, <3>2, <4>1
        <4>3. Len(<<m.items>>) = 0 + 1
          OBVIOUS
        <4>4. AsUttered(<<m.items>>, 0, uttered)
          BY <4>3 DEF AsUttered
        <4>5. Len(uttered) = 0
          BY <4>2
        <4>6. QED
          BY <4>2, <4>4, <4>5
      <3>3. QED
        BY <3>1, <3>2
    <2>2. request # <<>> => uttered # <<>> /\ AsUttered(TurnsIn(request), Len(uttered) - 1, uttered)
      BY DEF TalkInv, TurnsKept
    <2>3. QED
      BY <1>1, <2>1, <2>2 DEF TurnsKept
  <1>7. TextsKept'
    <2>1. SUFFICES ASSUME request # <<>>
                   PROVE  \E k \in Nat : /\ LastTurn(k, T)
                                         /\ UserTexts(request) = UserTexts(SubSeq(T, 1, k - 1))
      BY <1>1 DEF TextsKept
    <2>2. PICK k \in Nat : /\ LastTurn(k, transcript)
                           /\ UserTexts(request) = UserTexts(SubSeq(transcript, 1, k - 1))
      BY <2>1 DEF TalkInv, TextsKept
    <2>3. m.role # "assistant"
      BY <2>1 DEF TalkInv, TurnsKept
    <2>4. k \in 1 .. n /\ \A i \in 1 .. n + 1 : i \in 1 .. n \/ i = n + 1
      BY <1>3, <2>2 DEF LastTurn
    <2>5. LastTurn(k, T)
      <3>1. k \in 1 .. n + 1 /\ T[k].role = "assistant"
        BY <1>3, <2>2, <2>4 DEF LastTurn
      <3>2. \A i \in 1 .. n + 1 : T[i].role = "assistant" => i <= k
        BY <1>3, <2>2, <2>3, <2>4 DEF LastTurn
      <3>3. QED
        BY <1>1, <1>3, <3>1, <3>2 DEF LastTurn
    <2>6. SubSeq(T, 1, k - 1) = SubSeq(transcript, 1, k - 1)
      <3>1. k - 1 \in 0 .. n /\ n \in Nat /\ transcript \in Seq(Msg) /\ n = Len(transcript)
        BY <1>2, <1>3, <2>4, ClientMsgs DEF n
      <3>2. k - 1 \in 0 .. Len(transcript) /\ k - 1 \in 0 .. Len(T)
        BY <1>3, <3>1
      <3>3. \A i \in 1 .. k - 1 : i \in 1 .. n
        BY <3>1
      <3>4. \A i \in 1 .. k - 1 : T[i] = transcript[i]
        BY <1>3, <3>3
      <3>5. QED
        BY <1>3, <3>1, <3>2, <3>4, SamePrefix
    <2>7. QED
      BY <2>2, <2>5, <2>6
  <1>8. AnswersFollowCalls'
    BY <1>1 DEF TalkInv, AnswersFollowCalls
  <1>9. QED
    BY <1>4, <1>5, <1>6, <1>7, <1>8 DEF TalkInv

\* A text of the client or the upstream.
LEMMA Texts ==
    ASSUME NEW n \in Nat
    PROVE  /\ <<Text(n)>> \in Seq(Item) /\ <<Text(n)>> \in Seq(Obj)
           /\ <<Text(n)>> \in Seq(Kind("text")) /\ TextsThenCalls(<<Text(n)>>)
  <1> DEFINE x == Text(n)
             o == <<x>>
  <1>1. x \in Item /\ x \in Obj /\ x \in Kind("text")
    BY DEF Text, Item, Obj, Kind
  <1> HIDE DEF x
  <1>2. o \in Seq(Item) /\ o \in Seq(Obj) /\ o \in Seq(Kind("text"))
    BY <1>1
  <1> HIDE DEF o
  <1>3. o = o \o <<>> /\ <<>> \in Seq(Kind("call"))
    BY <1>2, ConcatEmptySeq, NoneTyped
  <1>4. TextsThenCalls(o)
    BY <1>2, <1>3 DEF TextsThenCalls
  <1>5. QED
    BY <1>2, <1>4 DEF o, x

\* A result of the client.
LEMMA Results ==
    ASSUME NEW n \in Nat
    PROVE  /\ Result(n) \in Obj /\ Result(n) \in Kind("result")
           /\ Result(n).is = "result" /\ Result(n).id = n
  BY DEF Result, Item, Obj, Kind

\* A system text: it has no item.
LEMMA InstructsKeeps ==
    ASSUME TalkInv, ClientInstructs
    PROVE  TalkInv'
  <1> DEFINE m == Message("system", TRUE, <<>>)
  <1>1. m \in Msg /\ m.role = "system" /\ m.items = <<>>
    <2>1. <<>> \in Seq(Item)
      BY NoneTyped
    <2>2. \A b \in BOOLEAN, s \in Seq(Item) :
             /\ Message("system", b, s) \in Msg
             /\ Message("system", b, s).role = "system" /\ Message("system", b, s).items = s
      BY MessageTyped
    <2>3. QED
      BY <2>1, <2>2, Zenon
  <1>2. AddToTranscript(m) /\ nextItem' = nextItem /\ TalkTyped /\ Sendable
    BY DEF ClientInstructs, TalkInv
  <1> HIDE DEF m
  <1>3. m \in ClientMsg
    <2>1. <<>> \in Seq(Obj)
      BY NoneTyped
    <2>2. QED
      BY <1>1, <2>1 DEF ClientMsg, OMsg, AMsg
  <1>4. Flow[m] = <<>>
    BY <1>1, FlowIs
  <1>5. Flowing \o Flow[m] = Flowing
    BY <1>2, <1>4, FlowOpen, ConcatEmptySeq
  <1>6. nextItem' \in Nat
    BY <1>2 DEF TalkTyped
  <1>7. QED
    BY <1>1, <1>2, <1>3, <1>5, <1>6, AddKeeps DEF Sendable

\* A text fits when no call is open.
LEMMA TextFits ==
    ASSUME TalkTyped, Quiet(Flowing), AllAnswered(Flowing), NEW m \in Msg,
           NEW n \in Nat, m.items = <<Text(n)>>
    PROVE  Quiet(Flowing \o Flow[m]) /\ Fresh(Flowing \o Flow[m])
  <1> DEFINE o == <<Text(n)>>
  <1>1. o \in Seq(Item) /\ o \in Seq(Kind("text")) /\ TextsThenCalls(o)
    BY Texts
  <1> HIDE DEF o
  <1>2. Flow[m] = o
    <2>1. Only("result", o) = <<>> /\ Only("text", o) = o /\ <<>> \o o = o
      BY <1>1, OnlyAll, OnlyOther, ConcatEmptySeq
    <2>2. m.items = o
      BY DEF o
    <2>3. QED
      BY <2>1, <2>2, FlowIs
  <1>3. TextsFirst(o) /\ \A k \in DOMAIN o : o[k].is # "result"
    BY <1>1, SplitIsOrdered
  <1>4. Flowing \in Seq(Item)
    BY FlowOpen
  <1>5. QED
    BY <1>1, <1>2, <1>3, <1>4, TurnFits

\* A message of the user, once every call is answered.
LEMMA SaysKeeps ==
    ASSUME TalkInv, NEW plain \in BOOLEAN, ClientSays(plain)
    PROVE  TalkInv'
  <1> DEFINE o == <<Text(nextItem)>>
             m == Message("user", plain, o)
  <1>1. TalkTyped /\ Quiet(Flowing) /\ nextItem \in Nat
    BY DEF TalkInv, TalkTyped, Sendable
  <1>2. o \in Seq(Item) /\ o \in Seq(Obj) /\ o \in Seq(Kind("text"))
    BY <1>1, Texts
  <1>3. m \in Msg /\ m.role = "user" /\ m.items = o
    BY <1>2, MessageTyped
  <1>4. AddToTranscript(m) /\ nextItem' \in Nat /\ Unanswered = <<>>
    BY <1>1 DEF ClientSays
  <1>5. AllAnswered(Flowing)
    BY <1>1, <1>4, FlowOpen
  <1>6. m \in ClientMsg
    <2> HIDE DEF m, o
    <2>1. o \in Seq(Kind("text") \cup Kind("result"))
      BY <1>2, Wider
    <2>2. QED
      BY <1>2, <1>3, <2>1 DEF ClientMsg, OMsg, AMsg
  <1> HIDE DEF m
  <1>7. Quiet(Flowing \o Flow[m]) /\ Fresh(Flowing \o Flow[m])
    BY <1>1, <1>3, <1>5, TextFits
  <1>8. m.role # "assistant"
    BY <1>3
  <1> HIDE DEF o
  <1>9. QED
    BY <1>4, <1>6, <1>7, <1>8, AddKeeps

\* A quoted reply, before anything was said.
LEMMA QuotesKeeps ==
    ASSUME TalkInv, ClientQuotes
    PROVE  TalkInv'
  <1> DEFINE o == <<Text(nextItem)>>
             m == Message("assistant", TRUE, o)
  <1>1. TalkTyped /\ Quiet(Flowing) /\ nextItem \in Nat /\ transcript \in Seq(ClientMsg)
    BY DEF TalkInv, TalkTyped, Sendable
  <1>2. o \in Seq(Item) /\ o \in Seq(Obj) /\ TextsThenCalls(o)
    BY <1>1, Texts
  <1>3. m \in Msg /\ m.role = "assistant" /\ m.items = o
    BY <1>2, MessageTyped
  <1>4. AddToTranscript(m) /\ nextItem' \in Nat /\ uttered = <<>>
        /\ \A x \in Range(transcript) : x.role = "system"
    <2>1. nextItem' = nextItem + 1 /\ uttered = <<>>
      BY DEF ClientQuotes
    <2>2. AddToTranscript(m)
      BY DEF ClientQuotes
    <2>3. \A x \in Range(transcript) : x.role = "system"
      BY DEF ClientQuotes
    <2>4. nextItem' \in Nat
      BY <1>1, <2>1
    <2> HIDE DEF m
    <2>5. QED
      BY <2>1, <2>2, <2>3, <2>4
  <1> DEFINE Sys == {x \in ClientMsg : x.role = "system"}
  <1>5. transcript \in Seq(Sys)
    <2>1. \A i \in 1 .. Len(transcript) : transcript[i] \in Sys
      BY <1>1, <1>4 DEF Range
    <2>2. Len(transcript) \in Nat /\ transcript = [i \in 1 .. Len(transcript) |-> transcript[i]]
      BY <1>1, LenProperties
    <2> HIDE DEF Sys
    <2>3. QED
      BY <2>1, <2>2, SeqDef
  <1>6. ASSUME NEW x \in Sys PROVE Flow[x] = <<>> /\ Turn[x] = <<>>
    <2>1. x \in Msg /\ x.role = "system" /\ x.items = <<>>
      BY ClientMsgs, <1>1 DEF ClientMsg, OMsg, AMsg
    <2>2. QED
      BY <2>1, FlowIs DEF Turn
  <1> HIDE DEF Sys
  <1>7. Gather(Flow, transcript) = <<>> /\ Gather(Turn, transcript) = <<>>
    BY <1>5, <1>6, GatherNothing
  <1>8. AllAnswered(Flowing)
    BY <1>7 DEF Flowing, AllAnswered
  <1>9. TurnsIn(transcript) = <<>>
    BY <1>1, <1>7, ClientMsgs, MeasuresAre
  <1>10. m \in ClientMsg
    <2> HIDE DEF m, o
    <2>1. QED
      BY <1>2, <1>3 DEF ClientMsg, OMsg, AMsg
  <1> HIDE DEF m
  <1>11. Quiet(Flowing \o Flow[m]) /\ Fresh(Flowing \o Flow[m])
    BY <1>1, <1>3, <1>8, TextFits
  <1> HIDE DEF o
  <1>12. QED
    BY <1>4, <1>9, <1>10, <1>11, AddKeeps

\* Each of these calls is open in what would be sent.
LEMMA OpenIsOpen ==
    ASSUME TalkTyped, NEW k \in DOMAIN Unanswered
    PROVE  /\ Unanswered[k].id \in Nat
           /\ \E j \in DOMAIN Flowing : /\ Flowing[j].is = "call" /\ Flowing[j].id = Unanswered[k].id
                                        /\ ~ Answered(Flowing, Flowing[j].id)
  <1> DEFINE u == Unanswered
  <1>1. u \in Seq(Item) /\ \A y : Has(u, y) <=> Has(Flowing, y) /\ y.is = "call" /\ ~ Answered(Flowing, y.id)
    BY FlowOpen
  <1>2. k \in DOMAIN u
    OBVIOUS
  <1> HIDE DEF u
  <1>3. u[k] \in Item /\ Has(u, u[k])
    BY <1>1, <1>2 DEF Has
  <1>4. PICK j \in DOMAIN Flowing : Flowing[j] = u[k]
    BY <1>1, <1>3 DEF Has
  <1>5. QED
    BY <1>1, <1>3, <1>4 DEF u, Item

\* An OpenAI client answers the first open call.
LEMMA AnswersOneKeeps ==
    ASSUME TalkInv, ClientAnswersOne
    PROVE  TalkInv'
  <1> DEFINE x == Result(Unanswered[1].id)
             o == <<x>>
             m == Message("tool", TRUE, o)
  <1>1. TalkTyped /\ Quiet(Flowing) /\ Fresh(Flowing) /\ nextItem \in Nat
    BY DEF TalkInv, TalkTyped, Sendable
  <1>2. Unanswered \in Seq(Item) /\ Flowing \in Seq(Item)
    BY <1>1, FlowOpen
  <1>3. /\ client = "openai" /\ Unanswered # <<>> /\ nextItem' = nextItem
        /\ AddToTranscript(Message("tool", TRUE, <<Result(Head(Unanswered).id)>>))
    BY DEF ClientAnswersOne
  <1>4. Head(Unanswered) = Unanswered[1] /\ 1 \in DOMAIN Unanswered
    BY <1>2, <1>3
  <1>5. AddToTranscript(m)
    BY <1>3, <1>4
  <1>6. /\ Unanswered[1].id \in Nat
        /\ \E j \in DOMAIN Flowing : /\ Flowing[j].is = "call" /\ Flowing[j].id = Unanswered[1].id
                                     /\ ~ Answered(Flowing, Flowing[j].id)
    BY <1>1, <1>4, OpenIsOpen
  <1>7. x \in Obj /\ x \in Kind("result") /\ x.id = Unanswered[1].id
    BY <1>6, Results
  <1> HIDE DEF x
  <1>8. o \in Seq(Obj) /\ o \in Seq(Kind("result")) /\ o \in Seq(Item)
    <2>1. o \in Seq(Obj) /\ o \in Seq(Kind("result"))
      BY <1>7
    <2>2. QED
      BY <2>1, KindsAreItems
  <1>9. m \in Msg /\ m.role = "tool" /\ m.items = o
    BY <1>8, MessageTyped
  <1>10. m \in ClientMsg
    <2> HIDE DEF m, o
    <2>1. QED
      BY <1>3, <1>8, <1>9 DEF ClientMsg, OMsg
  <1> HIDE DEF m
  <1>11. Flow[m] = o
    BY <1>9, FlowIs
  <1>12. \A k \in DOMAIN o : \E j \in DOMAIN Flowing :
             Flowing[j].is = "call" /\ Flowing[j].id = o[k].id /\ ~ Answered(Flowing, Flowing[j].id)
    BY <1>6, <1>7
  <1> HIDE DEF o
  <1>13. Quiet(Flowing \o Flow[m]) /\ Fresh(Flowing \o Flow[m])
    BY <1>1, <1>2, <1>8, <1>11, <1>12, ResultsFit
  <1>14. m.role # "assistant" /\ nextItem' \in Nat
    BY <1>1, <1>3, <1>9
  <1>15. QED
    BY <1>5, <1>10, <1>13, <1>14, AddKeeps

\* Concatenation of items associates.
LEMMA ItemsAssociate ==
    ASSUME NEW a \in Seq(Item), NEW b \in Seq(Item), NEW c \in Seq(Item)
    PROVE  (a \o b) \o c = a \o (b \o c)
  BY ConcatAssociative

\* Results of the first open calls, then the text of the message.
LEMMA SomeAnswersFit ==
    ASSUME TalkTyped, Sendable, NEW n \in 1 .. Len(Unanswered), NEW r \in Seq(Kind("result")),
           Len(r) = n, \A k \in 1 .. n : r[k].id = Unanswered[k].id,
           NEW w \in Seq(Kind("text")), w # <<>> => n = Len(Unanswered)
    PROVE  Quiet(Flowing \o (r \o w)) /\ Fresh(Flowing \o (r \o w))
  <1> DEFINE H == Flowing \o r
  <1>1. /\ Flowing \in Seq(Item) /\ Unanswered \in Seq(Item) /\ r \in Seq(Item) /\ w \in Seq(Item)
        /\ DOMAIN r = 1 .. n /\ DOMAIN Unanswered = 1 .. Len(Unanswered) /\ n \in 1 .. Len(Unanswered)
        /\ Len(Unanswered) \in Nat
    BY FlowOpen, KindsAreItems, LenProperties
  <1>2. \A k \in DOMAIN r : \E j \in DOMAIN Flowing :
            Flowing[j].is = "call" /\ Flowing[j].id = r[k].id /\ ~ Answered(Flowing, Flowing[j].id)
    <2>1. \A k \in DOMAIN r : k \in DOMAIN Unanswered /\ r[k].id = Unanswered[k].id
      BY <1>1
    <2>2. QED
      BY <2>1, OpenIsOpen
  <1>3. Quiet(H) /\ Fresh(H) /\ H \in Seq(Item)
    <2>1. Quiet(H) /\ Fresh(H)
      BY <1>1, <1>2, ResultsFit DEF Sendable
    <2>2. QED
      BY <1>1, <2>1, CatTyped
  <1>4. Flowing \o (r \o w) = H \o w
    <2> DEFINE f == Flowing
    <2>1. f \in Seq(Item)
      BY <1>1
    <2> HIDE DEF f
    <2>2. (f \o r) \o w = f \o (r \o w)
      BY <1>1, <2>1, ItemsAssociate
    <2>3. QED
      BY <2>2 DEF f
  <1>5. CASE w = <<>>
    <2>1. H \o w = H
      BY <1>3, <1>5, ConcatEmptySeq
    <2>2. QED
      BY <1>3, <1>4, <2>1
  <1>6. CASE w # <<>>
    <2>1. AllAnswered(H)
      <3>1. ASSUME NEW j \in DOMAIN H, H[j].is = "call" PROVE Answered(H, H[j].id)
        <4>1. \A x : Answered(H, x) <=> Answered(Flowing, x) \/ Answered(r, x)
          BY <1>1, CatAnswered
        <4>2. Has(H, H[j])
          BY DEF Has
        <4>3. Has(Flowing, H[j]) \/ Has(r, H[j])
          BY <1>1, <4>2, CatHas
        <4>4. ~ Has(r, H[j])
          <5>1. \A k \in DOMAIN r : r[k] \in Kind("result")
            OBVIOUS
          <5>2. \A k \in DOMAIN r : r[k].is = "result"
            BY <5>1 DEF Kind
          <5> HIDE DEF H
          <5>3. QED
            BY <3>1, <5>2 DEF Has
        <4>5. CASE Answered(Flowing, H[j].id)
          BY <4>1, <4>5
        <4>6. CASE ~ Answered(Flowing, H[j].id)
          <5>1. Has(Unanswered, H[j])
            BY <3>1, <4>3, <4>4, <4>6, FlowOpen
          <5> HIDE DEF H
          <5>2. PICK k \in DOMAIN Unanswered : Unanswered[k] = H[j]
            BY <5>1 DEF Has
          <5>3. k \in 1 .. n
            BY <1>1, <1>6
          <5>4. k \in DOMAIN r /\ r[k].id = H[j].id
            BY <1>1, <5>2, <5>3
          <5>5. \A i \in DOMAIN r : r[i].is = "result"
            <6>1. \A i \in DOMAIN r : r[i] \in Kind("result")
              OBVIOUS
            <6>2. QED
              BY <6>1 DEF Kind
          <5>6. Answered(r, H[j].id)
            BY <5>4, <5>5 DEF Answered
          <5>7. QED
            BY <4>1, <5>6
        <4>7. QED
          BY <4>5, <4>6
      <3> HIDE DEF H
      <3>2. QED
        BY <3>1 DEF AllAnswered
    <2>2. TextsThenCalls(w)
      <3>1. w = w \o <<>> /\ <<>> \in Seq(Kind("call"))
        BY ConcatEmptySeq, NoneTyped
      <3>2. QED
        BY <3>1 DEF TextsThenCalls
    <2>3. TextsFirst(w) /\ \A k \in DOMAIN w : w[k].is # "result"
      BY <1>1, <2>2, SplitIsOrdered
    <2> HIDE DEF H
    <2>4. Quiet(H \o w) /\ Fresh(H \o w)
      BY <1>1, <1>3, <2>1, <2>3, TurnFits
    <2>5. QED
      BY <1>4, <2>4
  <1>7. QED
    BY <1>5, <1>6

\* An Anthropic client answers one call or two, with a text or without.
LEMMA AnswersSomeKeeps ==
    ASSUME TalkInv, NEW n \in 1 .. 2, NEW texts \in {"before", "after", "none"},
           ClientAnswersSome(n, texts)
    PROVE  TalkInv'
  <1> DEFINE r == [k \in 1 .. n |-> Result(Unanswered[k].id)]
             x == Text(nextItem)
             t == <<x>>
             s == CASE texts = "before" -> <<x>> \o r
                    [] texts = "after" -> Append(r, x)
                    [] OTHER -> r
             w == IF texts = "none" THEN <<>> ELSE t
             m == Message("user", FALSE, s)
  <1>1. TalkTyped /\ Sendable /\ nextItem \in Nat
    BY DEF TalkInv, TalkTyped
  <1>2. /\ client = "anthropic" /\ n \in 1 .. Len(Unanswered)
        /\ texts # "none" => n = Len(Unanswered)
        /\ nextItem' = nextItem + 1
    BY DEF ClientAnswersSome
  <1>3. AddToTranscript(m)
    BY DEF ClientAnswersSome
  <1>4. /\ t \in Seq(Item) /\ t \in Seq(Kind("text")) /\ x \in Item /\ x \in Kind("text")
    <2>1. x \in Item /\ x \in Kind("text")
      BY <1>1 DEF Text, Item, Kind
    <2> HIDE DEF x
    <2>2. QED
      BY <2>1
  <1>5. \A k \in 1 .. n : /\ Result(Unanswered[k].id) \in Kind("result")
                          /\ Result(Unanswered[k].id).id = Unanswered[k].id
    <2>1. Unanswered \in Seq(Item)
      BY <1>1, FlowOpen
    <2>2. \A k \in 1 .. n : k \in DOMAIN Unanswered
      BY <1>2, <2>1, LenProperties
    <2>3. \A k \in 1 .. n : Unanswered[k].id \in Nat
      BY <1>1, <2>2, OpenIsOpen
    <2>4. QED
      BY <2>3, Results
  <1>6. /\ r \in Seq(Kind("result")) /\ r \in Seq(Item) /\ Len(r) = n
        /\ \A k \in 1 .. n : r[k].id = Unanswered[k].id
    <2>1. r \in [1 .. n -> Kind("result")] /\ n \in Nat
      BY <1>5
    <2>2. DOMAIN r = 1 .. n /\ \A k \in 1 .. n : r[k].id = Unanswered[k].id
      BY <1>5
    <2> HIDE DEF r
    <2>3. r \in Seq(Kind("result"))
      BY <2>1, SeqDef
    <2>4. Len(r) = n
      BY <2>1, <2>2, <2>3, LenProperties
    <2>5. QED
      BY <2>2, <2>3, <2>4, KindsAreItems
  <1>7. s = CASE texts = "before" -> t \o r [] texts = "after" -> r \o t [] OTHER -> r
    <2>1. Append(r, x) = r \o t
      <3> HIDE DEF r, x
      <3>1. QED
        BY <1>4, <1>6
    <2>2. QED
      BY <2>1
  <1> HIDE DEF r, t, s, x
  <1>8. /\ Only("result", r) = r /\ Only("text", r) = <<>>
        /\ Only("result", t) = <<>> /\ Only("text", t) = t
    BY <1>4, <1>6, OnlyAll, OnlyOther
  <1>9. r \o <<>> = r /\ <<>> \o r = r /\ t \o <<>> = t /\ <<>> \o t = t
    BY <1>4, <1>6, ConcatEmptySeq
  <1>10. s \in Seq(Item) /\ Only("result", s) = r /\ Only("text", s) = w
    <2>1. CASE texts = "before"
      <3>1. s = t \o r /\ w = t
        BY <1>7, <2>1
      <3>2. Only("result", t \o r) = <<>> \o r /\ Only("text", t \o r) = t \o <<>>
        <4>1. \A k : Only(k, t \o r) = Only(k, t) \o Only(k, r)
          BY <1>4, <1>6, OnlyCat
        <4>2. QED
          BY <1>8, <4>1
      <3>3. QED
        BY <1>4, <1>6, <1>9, <3>1, <3>2, CatTyped
    <2>2. CASE texts = "after"
      <3>1. s = r \o t /\ w = t
        BY <1>7, <2>2
      <3>2. Only("result", r \o t) = r \o <<>> /\ Only("text", r \o t) = <<>> \o t
        <4>1. \A k : Only(k, r \o t) = Only(k, r) \o Only(k, t)
          BY <1>4, <1>6, OnlyCat
        <4>2. QED
          BY <1>8, <4>1
      <3>3. QED
        BY <1>4, <1>6, <1>9, <3>1, <3>2, CatTyped
    <2>3. CASE texts = "none"
      BY <1>6, <1>7, <1>8, <2>3
    <2>4. QED
      BY <2>1, <2>2, <2>3
  <1>11. s \in Seq(Kind("text") \cup Kind("result"))
    <2> DEFINE B == Kind("text") \cup Kind("result")
    <2>1. t \in Seq(B) /\ r \in Seq(B)
      <3>1. Kind("text") \subseteq B /\ Kind("result") \subseteq B
        OBVIOUS
      <3> HIDE DEF B
      <3>2. QED
        BY <1>4, <1>6, <3>1, Wider
    <2> HIDE DEF B
    <2>2. t \o r \in Seq(B) /\ r \o t \in Seq(B)
      BY <2>1, CatTyped
    <2>3. s \in Seq(B)
      BY <1>7, <2>1, <2>2
    <2>4. QED
      BY <2>3 DEF B
  <1>12. m \in Msg /\ m.role = "user" /\ m.items = s /\ m.plain = FALSE
    BY <1>10, MessageTyped, ZenonT(40)
  <1> HIDE DEF m
  <1>13. m \in ClientMsg
    BY <1>2, <1>11, <1>12 DEF ClientMsg, AMsg
  <1>14. Flow[m] = r \o w
    BY <1>10, <1>12, FlowIs
  <1>15. w \in Seq(Kind("text")) /\ (w # <<>> => n = Len(Unanswered))
    <2>1. <<>> \in Seq(Kind("text"))
      BY NoneTyped
    <2>2. QED
      BY <1>2, <1>4, <2>1
  <1> HIDE DEF w
  <1>16. Quiet(Flowing \o (r \o w)) /\ Fresh(Flowing \o (r \o w))
    BY <1>1, <1>2, <1>6, <1>15, SomeAnswersFit
  <1>17. m.role # "assistant" /\ nextItem' \in Nat
    BY <1>1, <1>2, <1>12
  <1>18. QED
    BY <1>3, <1>13, <1>14, <1>16, <1>17, AddKeeps

----------------------------------------------------------------------------
(* A request and its reply *)

\* A turn of the upstream is texts and then calls; to an OpenAI client only
\* calls with objects are made.
LEMMA TurnsTyped ==
    ASSUME TalkTyped, NEW items \in Turns
    PROVE  /\ items \in Seq(Item)
           /\ client = "openai" => items \in Seq(Obj)
           /\ \E t \in Seq(Kind("text")), c \in Seq(Kind("call")) : t \in Seq(Obj) /\ items = t \o c
  <1> DEFINE Calls(n, a) == [k \in 1 .. n |-> Use(nextItem + k, a)]
             A == IF client = "openai" THEN {"object"} ELSE Arguments
  <1>1. PICK t \in {<<>>, <<Text(nextItem)>>}, n \in 0 .. 2, a \in A : items = t \o Calls(n, a)
    BY DEF Turns
  <1>2. nextItem \in Nat /\ n \in Nat
    BY DEF TalkTyped
  <1>3. t \in Seq(Kind("text")) /\ t \in Seq(Obj)
    <2>1. <<>> \in Seq(Kind("text")) /\ <<>> \in Seq(Obj)
      BY NoneTyped
    <2>2. <<Text(nextItem)>> \in Seq(Kind("text")) /\ <<Text(nextItem)>> \in Seq(Obj)
      BY <1>2, Texts
    <2>3. QED
      BY <2>1, <2>2
  <1>4. \A k \in 1 .. n : /\ Use(nextItem + k, a) \in Kind("call")
                          /\ client = "openai" => Use(nextItem + k, a) \in Obj
    <2>1. a \in {"object", "nothing", "no json"} /\ (client = "openai" => a = "object")
      BY ArgumentsAssumption
    <2>2. \A k \in 1 .. n : nextItem + k \in Nat
      BY <1>2
    <2>3. QED
      BY <2>1, <2>2 DEF Use, Item, Obj, Kind
  <1> DEFINE c == Calls(n, a)
  <1>5. c \in Seq(Kind("call")) /\ (client = "openai" => c \in Seq(Obj))
    <2>1. c \in [1 .. n -> Kind("call")] /\ (client = "openai" => c \in [1 .. n -> Obj])
      BY <1>4
    <2> HIDE DEF c
    <2>2. QED
      BY <1>2, <2>1, SeqDef
  <1>6. items = t \o c
    BY <1>1
  <1> HIDE DEF c
  <1>7. items \in Seq(Item)
    BY <1>3, <1>5, <1>6, KindsAreItems, CatTyped
  <1>8. client = "openai" => items \in Seq(Obj)
    BY <1>3, <1>5, <1>6, CatTyped
  <1>9. QED
    BY <1>3, <1>5, <1>6, <1>7, <1>8

\* Parsing keeps the kinds and the order, and leaves texts alone.
LEMMA ParsedCalls ==
    ASSUME NEW c \in Seq(Kind("call"))
    PROVE  Parsed(c) \in Seq(Kind("call")) /\ Len(Parsed(c)) = Len(c)
  <1> DEFINE n == Len(c)
             p == Parsed(c)
  <1>1. n \in Nat /\ DOMAIN c = 1 .. n /\ \A k \in 1 .. n : c[k] \in Kind("call")
    OBVIOUS
  <1>2. ASSUME NEW x \in Kind("call") PROVE ParseArguments(x) \in Kind("call")
    BY DEF ParseArguments, Kind, Item
  <1> HIDE DEF n
  <1>3. p = [k \in 1 .. n |-> ParseArguments(c[k])]
    BY <1>1 DEF Parsed
  <1>4. \A k \in 1 .. n : ParseArguments(c[k]) \in Kind("call")
    BY <1>1, <1>2
  <1>5. p \in [1 .. n -> Kind("call")]
    BY <1>3, <1>4
  <1> HIDE DEF p
  <1>6. p \in Seq(Kind("call"))
    BY <1>1, <1>5, SeqDef
  <1>7. Len(p) = n
    BY <1>1, <1>5, <1>6, LenProperties
  <1>8. QED
    BY <1>6, <1>7 DEF p, n

\* The same with the position told by a condition.
LEMMA ItemAt ==
    ASSUME NEW s \in Seq(Item), NEW t \in Seq(Item)
    PROVE  /\ s \o t \in Seq(Item) /\ Len(s) \in Nat /\ Len(t) \in Nat
           /\ DOMAIN (s \o t) = 1 .. Len(s) + Len(t)
           /\ \A i \in 1 .. Len(s) + Len(t) : (s \o t)[i] = IF i <= Len(s) THEN s[i] ELSE t[i - Len(s)]
  <1> DEFINE u == s \o t
  <1>1. /\ u \in Seq(Item) /\ Len(u) = Len(s) + Len(t)
        /\ \A i \in 1 .. Len(s) + Len(t) : u[i] = IF i <= Len(s) THEN s[i] ELSE t[i - Len(s)]
    BY ConcatProperties
  <1> HIDE DEF u
  <1>2. DOMAIN u = 1 .. Len(s) + Len(t) /\ Len(s) \in Nat /\ Len(t) \in Nat
    BY <1>1, LenProperties
  <1>3. QED
    BY <1>1, <1>2 DEF u

\* Texts are left alone when calls after them are parsed.
LEMMA ParsedSplits ==
    ASSUME NEW t \in Seq(Obj), NEW c \in Seq(Kind("call"))
    PROVE  Parsed(t \o c) = t \o Parsed(c)
  <1>1. t \in Seq(Item) /\ c \in Seq(Item)
    <2>1. Obj \subseteq Item
      BY DEF Obj
    <2>2. QED
      BY <2>1, Wider, KindsAreItems
  <1> DEFINE p == Parsed(c)
             s == t \o c
             u == t \o p
             m == Len(t)
             n == Len(c)
  <1>2. p \in Seq(Item) /\ Len(p) = n /\ Parsed(t) = t
    BY ParsedCalls, ParsedObjects, KindsAreItems
  <1>3. /\ m \in Nat /\ n \in Nat /\ DOMAIN s = 1 .. m + n
        /\ \A i \in 1 .. m + n : s[i] = IF i <= m THEN t[i] ELSE c[i - m]
    BY <1>1, ItemAt
  <1>4. /\ u \in Seq(Item) /\ DOMAIN u = 1 .. m + n
        /\ \A i \in 1 .. m + n : u[i] = IF i <= m THEN t[i] ELSE p[i - m]
    BY <1>1, <1>2, ItemAt
  <1>5. \A i \in 1 .. m : ParseArguments(t[i]) = t[i]
    <2>1. \A i \in 1 .. m : t[i] \in Obj
      OBVIOUS
    <2>2. ASSUME NEW x \in Obj PROVE ParseArguments(x) = x
      BY DEF ParseArguments, Obj, Item
    <2>3. QED
      BY <2>1, <2>2
  <1>6. \A i \in 1 .. n : ParseArguments(c[i]) = p[i]
    BY <1>1 DEF Parsed
  <1> HIDE DEF s, u, p, m, n
  <1>7. \A i \in 1 .. m + n : ParseArguments(s[i]) = u[i]
    <2>1. ASSUME NEW i \in 1 .. m + n, i <= m PROVE ParseArguments(s[i]) = u[i]
      <3>1. i \in 1 .. m
        BY <1>3, <2>1
      <3>2. s[i] = t[i] /\ u[i] = t[i]
        BY <1>3, <1>4, <2>1
      <3>3. QED
        BY <1>5, <3>1, <3>2
    <2>2. ASSUME NEW i \in 1 .. m + n, ~ (i <= m) PROVE ParseArguments(s[i]) = u[i]
      <3>1. i - m \in 1 .. n
        BY <1>3, <2>2
      <3>2. s[i] = c[i - m] /\ u[i] = p[i - m]
        BY <1>3, <1>4, <2>2
      <3>3. QED
        BY <1>6, <3>1, <3>2
    <2>3. QED
      BY <2>1, <2>2
  <1>8. Parsed(s) = [i \in 1 .. m + n |-> u[i]]
    BY <1>3, <1>7 DEF Parsed
  <1>9. u = [i \in 1 .. m + n |-> u[i]]
    BY <1>4
  <1>10. QED
    BY <1>8, <1>9 DEF s, u, p

\* The reply as the client keeps it.
LEMMA ReplyTyped ==
    ASSUME TalkTyped, NEW items \in Turns, NEW m,
           m = IF client = "openai" THEN ReplyToOpenAI(items) ELSE ReplyToAnthropic(items)
    PROVE  /\ m \in ClientMsg /\ m \in Msg /\ m.role = "assistant" /\ m.items = Parsed(items)
           /\ TextsThenCalls(m.items) /\ m.items \in Seq(Item)
  <1>1. PICK t \in Seq(Kind("text")), c \in Seq(Kind("call")) : t \in Seq(Obj) /\ items = t \o c
    BY TurnsTyped
  <1>2. items \in Seq(Item) /\ Only("text", items) = t /\ Only("call", items) = c
    <2>1. t \o c \in Seq(Item) /\ Only("text", t \o c) = t /\ Only("call", t \o c) = c
      BY SplitsBack
    <2>2. QED
      BY <1>1, <2>1
  <1> DEFINE p == Parsed(c)
             s == t \o p
  <1>3. p \in Seq(Kind("call")) /\ Parsed(items) = s
    <2>1. Parsed(t \o c) = t \o p
      BY <1>1, ParsedSplits
    <2>2. QED
      BY <1>1, <2>1, ParsedCalls
  <1> HIDE DEF p
  <1>4. s \in Seq(Item) /\ TextsThenCalls(s)
    <2>1. s \in Seq(Item)
      BY <1>3, SplitsBack
    <2>2. QED
      BY <1>3, <2>1 DEF TextsThenCalls
  <1> HIDE DEF s
  <1> DEFINE Assistant(b) == Message("assistant", b, s)
  <1>a. ASSUME NEW b \in BOOLEAN
        PROVE  Assistant(b) \in Msg /\ Assistant(b).role = "assistant" /\ Assistant(b).items = s
    BY <1>4, MessageTyped
  <1>5. CASE client = "openai"
    <2>1. items \in Seq(Obj)
      BY <1>5, TurnsTyped
    <2>2. s = items
      BY <1>3, <2>1, ParsedObjects
    <2>3. m = Message("assistant", TRUE, s)
      BY <1>1, <1>2, <1>5, <2>2 DEF ReplyToOpenAI
    <2>4. m \in Msg /\ m.role = "assistant" /\ m.items = s
      BY <1>a, <2>3
    <2>5. m \in ClientMsg
      BY <1>4, <1>5, <2>1, <2>2, <2>4 DEF ClientMsg, OMsg
    <2>6. QED
      BY <1>3, <1>4, <2>4, <2>5
  <1>6. CASE client # "openai"
    <2>1. m = Message("assistant", FALSE, s)
      BY <1>2, <1>6 DEF ReplyToAnthropic, s, p
    <2>2. m \in Msg /\ m.role = "assistant" /\ m.items = s
      BY <1>a, <2>1
    <2>3. m \in ClientMsg
      BY <1>4, <1>6, <2>2 DEF ClientMsg, AMsg
    <2>4. QED
      BY <1>3, <1>4, <2>2, <2>3
  <1>7. QED
    BY <1>5, <1>6

\* What the upstream gets.
LEMMA RequestKeeps ==
    ASSUME TalkTyped, NEW X,
           X = IF client = "openai" THEN ToAnthropicMessages(transcript)
                                    ELSE ToOpenAIMessages(transcript)
    PROVE  /\ ItemsOf(X) = Flowing
           /\ TurnsIn(X) = TurnsIn(transcript)
           /\ UserTexts(X) = UserTexts(transcript)
           /\ client = "openai" => X[1].role = "user"
  <1>1. transcript \in Seq(Msg)
    BY ClientMsgs
  <1>2. /\ TurnsIn(transcript) = Gather(Turn, transcript)
        /\ UserTexts(transcript) = Gather(Words, transcript)
    BY <1>1, MeasuresAre
  <1>3. CASE client = "openai"
    <2>1. X = ToAnthropicMessages(transcript) /\ transcript \in Seq(OMsg)
      BY <1>3 DEF TalkTyped, ClientMsg
    <2>2. X \in Seq(Msg) /\ Gather(Body, X) = Gather(Body, transcript) /\ X[1].role = "user"
      BY <2>1, BodyMeasures, ToAnthropicKeeps
    <2>3. Gather(Turn, X) = Gather(Turn, transcript)
      BY <2>1, TurnMeasures, ToAnthropicKeeps
    <2>4. Gather(Words, X) = Gather(Words, transcript)
      BY <2>1, WordsMeasures, ToAnthropicKeeps
    <2>5. Gather(Body, transcript) = Flowing
      BY <2>1, FlowOfOpenAI DEF Flowing
    <2>6. ItemsOf(X) = Gather(Body, X) /\ TurnsIn(X) = Gather(Turn, X) /\ UserTexts(X) = Gather(Words, X)
      BY <2>2, MeasuresAre
    <2>7. QED
      BY <1>2, <2>2, <2>3, <2>4, <2>5, <2>6
  <1>4. CASE client # "openai"
    <2>1. X = ToOpenAIMessages(transcript) /\ transcript \in Seq(AMsg)
      BY <1>4 DEF TalkTyped, ClientMsg
    <2>2. X \in Seq(Msg) /\ Gather(Body, X) = Flowing
      BY <2>1, BodyMeasures, ToOpenAIKeeps DEF Flowing, Flow
    <2>3. Gather(Turn, X) = Gather(Turn, transcript)
      <3>1. Gather(Turn, X) = Gather(Sorted(Turn), transcript)
        BY <2>1, TurnMeasures, ToOpenAIKeeps
      <3>2. QED
        BY <1>1, <3>1, SortedTurns
    <2>4. Gather(Words, X) = Gather(Words, transcript)
      <3>1. Gather(Words, X) = Gather(Sorted(Words), transcript)
        BY <2>1, WordsMeasures, ToOpenAIKeeps
      <3>2. QED
        BY <1>1, <3>1, SortedWords
    <2>5. ItemsOf(X) = Gather(Body, X) /\ TurnsIn(X) = Gather(Turn, X) /\ UserTexts(X) = Gather(Words, X)
      BY <2>2, MeasuresAre
    <2>6. QED
      BY <1>2, <1>4, <2>2, <2>3, <2>4, <2>5
  <1>5. QED
    BY <1>3, <1>4

\* A request and its reply: the reply becomes the last turn.
LEMMA AskKeeps ==
    ASSUME TalkInv, NEW items \in Turns, Ask(items)
    PROVE  TalkInv'
  <1> DEFINE m == IF client = "openai" THEN ReplyToOpenAI(items) ELSE ReplyToAnthropic(items)
             X == IF client = "openai" THEN ToAnthropicMessages(transcript)
                                       ELSE ToOpenAIMessages(transcript)
             T == Append(transcript, m)
             n == Len(transcript)
             U == Append(uttered, items)
             N == Len(uttered)
  <1>1. /\ transcript' = T /\ client' = client /\ request' = X /\ uttered' = U
        /\ nextItem' = nextItem + 3 /\ Unanswered = <<>>
    BY DEF Ask
  <1>2. TalkTyped /\ Quiet(Flowing) /\ nextItem \in Nat /\ uttered \in Seq(Seq(Item))
    BY DEF TalkInv, TalkTyped, Sendable
  <1>3. /\ m \in ClientMsg /\ m \in Msg /\ m.role = "assistant" /\ m.items = Parsed(items)
        /\ TextsThenCalls(m.items) /\ m.items \in Seq(Item)
    BY <1>2, ReplyTyped
  <1>4. /\ ItemsOf(X) = Flowing
        /\ TurnsIn(X) = TurnsIn(transcript)
        /\ UserTexts(X) = UserTexts(transcript)
        /\ client = "openai" => X[1].role = "user"
    BY <1>2, RequestKeeps
  <1>5. items \in Seq(Item)
    BY <1>2, TurnsTyped
  <1>b. T = Append(transcript, m) /\ n = Len(transcript)
    OBVIOUS
  <1> HIDE DEF m, X, T, n
  <1>6. /\ T \in Seq(ClientMsg) /\ T \in Seq(Msg)
        /\ Gather(Flow, T) = Flowing \o Flow[m]
        /\ TurnsIn(T) = TurnsIn(transcript) \o Turn[m]
        /\ TurnsIn(transcript) \in Seq(Seq(Item))
        /\ n \in Nat /\ Len(T) = n + 1
        /\ DOMAIN transcript = 1 .. n /\ DOMAIN T = 1 .. n + 1
        /\ T[n + 1] = m
        /\ \A i \in 1 .. n : T[i] = transcript[i]
    BY <1>2, <1>3, <1>b, OneMessageMore
  <1>7. /\ U \in Seq(Seq(Item)) /\ Len(U) = N + 1 /\ N \in Nat /\ U # <<>>
        /\ U[N + 1] = items /\ \A k \in 1 .. N : U[k] = uttered[k]
    BY <1>2, <1>5, AppendProperties, LenProperties
  <1>8. SubSeq(T, 1, n) = transcript
    <2>1. transcript \in Seq(Msg) /\ n = Len(transcript)
      BY <1>2, <1>b, ClientMsgs
    <2>2. n \in 0 .. Len(T) /\ n \in 0 .. Len(transcript)
      BY <1>6, <2>1
    <2>3. SubSeq(T, 1, n) = SubSeq(transcript, 1, n)
      BY <1>6, <2>1, <2>2, SamePrefix
    <2>4. QED
      BY <2>1, <2>3, SubSeqFull
  <1> HIDE DEF U, N
  <1>9. TalkTyped'
    BY <1>1, <1>2, <1>6, <1>7 DEF TalkTyped, ClientMsg
  <1>10. Flowing \in Seq(Item) /\ AllAnswered(Flowing)
    BY <1>1, <1>2, FlowOpen
  <1>11. Sendable'
    <2>1. Flow[m] = m.items
      BY <1>3, FlowIs
    <2>2. TextsFirst(m.items) /\ \A k \in DOMAIN m.items : m.items[k].is # "result"
      BY <1>3, SplitIsOrdered
    <2>3. Quiet(Flowing \o Flow[m]) /\ Fresh(Flowing \o Flow[m])
      BY <1>2, <1>3, <1>10, <2>1, <2>2, TurnFits
    <2>4. QED
      BY <1>1, <1>6, <2>3 DEF Sendable, Flowing
  <1>12. TurnsKept'
    <2> DEFINE P == TurnsIn(transcript)
               p == Parsed(items)
               R == Append(P, p)
    <2>1. PICK q \in {0, 1} : Len(P) = N + q /\ \A k \in 1 .. N : P[k + q] = Parsed(uttered[k])
      BY DEF TalkInv, TurnsKept, AsUttered, N
    <2>2. TurnsIn(T) = R /\ p \in Seq(Item) /\ P \in Seq(Seq(Item))
      <3>1. Turn[m] = <<p>> /\ p \in Seq(Item) /\ P \in Seq(Seq(Item))
        BY <1>3, <1>6 DEF Turn
      <3>2. TurnsIn(T) = P \o <<p>>
        BY <1>6, <3>1
      <3> HIDE DEF P, p
      <3>3. QED
        BY <3>1, <3>2
    <2> HIDE DEF P
    <2>3. /\ Len(R) = Len(P) + 1 /\ R[Len(P) + 1] = p
          /\ \A k \in 1 .. Len(P) : R[k] = P[k]
      <3> HIDE DEF p
      <3>1. QED
        BY <2>2, AppendProperties
    <2> HIDE DEF R
    <2>4. AsUttered(R, N + 1, U)
      <3>1. Len(R) = (N + 1) + q
        BY <1>7, <2>1, <2>3
      <3>2. ASSUME NEW k \in 1 .. N + 1 PROVE R[k + q] = Parsed(U[k])
        <4>1. CASE k \in 1 .. N
          <5>1. k + q \in 1 .. Len(P)
            BY <1>7, <2>1, <4>1
          <5>2. QED
            BY <1>7, <2>1, <2>3, <4>1, <5>1
        <4>2. CASE k = N + 1
          <5>1. k + q = Len(P) + 1
            BY <1>7, <2>1, <4>2
          <5>2. R[k + q] = p /\ U[k] = items
            BY <1>7, <2>3, <4>2, <5>1
          <5>3. QED
            BY <5>2
        <4>3. QED
          BY <1>7, <4>1, <4>2
      <3>3. QED
        BY <3>1, <3>2 DEF AsUttered
    <2>5. AsUttered(P, N, U)
      BY <1>7, <2>1 DEF AsUttered
    <2>6. N + 1 - 1 = N
      BY <1>7
    <2>7. QED
      BY <1>1, <1>4, <1>7, <2>2, <2>4, <2>5, <2>6 DEF TurnsKept, P
  <1>13. TextsKept'
    <2>1. LastTurn(n + 1, T)
      <3>1. n + 1 \in 1 .. n + 1 /\ \A i \in 1 .. n + 1 : i <= n + 1
        BY <1>6
      <3>2. QED
        BY <1>3, <1>6, <3>1 DEF LastTurn
    <2> DEFINE w == n + 1
    <2>2. w \in Nat /\ w - 1 = n
      BY <1>6
    <2>3. UserTexts(X) = UserTexts(SubSeq(T, 1, w - 1))
      BY <1>4, <1>8, <2>2
    <2>4. LastTurn(w, T)
      BY <2>1
    <2> HIDE DEF w
    <2>5. \E k \in Nat : LastTurn(k, T) /\ UserTexts(X) = UserTexts(SubSeq(T, 1, k - 1))
      BY <2>2, <2>3, <2>4
    <2>6. QED
      BY <1>1, <2>5 DEF TextsKept
  <1>14. AnswersFollowCalls'
    <2>1. OpenCalls(Flowing) = <<>>
      BY <1>10, NoneOpen
    <2>2. \A k \in DOMAIN Flowing : Flowing[k].is = "result" =>
            \E j \in 1 .. k - 1 :
                /\ Flowing[j].is = "call" /\ Flowing[j].id = Flowing[k].id
                /\ \A i \in j .. k : Flowing[i].is # "text"
      BY <1>2 DEF Quiet, NearCall
    <2> DEFINE I == Flowing
    <2>3. ItemsOf(request)' = I
      BY <1>1, <1>4
    <2>4. OpenCalls(I) = <<>> /\ \A k \in DOMAIN I : I[k].is = "result" =>
            \E j \in 1 .. k - 1 :
                /\ I[j].is = "call" /\ I[j].id = I[k].id
                /\ \A i \in j .. k : I[i].is # "text"
      BY <2>1, <2>2
    <2> HIDE DEF I
    <2>5. ItemsOf(request') = I
      BY <2>3
    <2>6. client' = "openai" /\ request' # <<>> => request'[1].role = "user"
      BY <1>1, <1>4
    <2>7. QED
      BY <2>4, <2>5, <2>6 DEF AnswersFollowCalls
  <1>15. QED
    BY <1>9, <1>11, <1>12, <1>13, <1>14 DEF TalkInv

----------------------------------------------------------------------------
(* The theorems *)

\* A step of another part leaves the conversation alone.
LEMMA TalkUntouched ==
    ASSUME TalkInv, UNCHANGED conversationVars
    PROVE  TalkInv'
  <1> USE DEF conversationVars
  <1>1. TalkTyped' /\ Sendable'
    BY DEF TalkInv, TalkTyped, ClientMsg, Sendable, Flowing
  <1>2. TurnsKept'
    BY DEF TalkInv, TurnsKept, AsUttered
  <1>3. TextsKept'
    BY DEF TalkInv, TextsKept, LastTurn
  <1>4. AnswersFollowCalls'
    BY DEF TalkInv, AnswersFollowCalls
  <1>5. QED
    BY <1>1, <1>2, <1>3, <1>4 DEF TalkInv

\* Every step keeps the invariant.
LEMMA TalkStep ==
    ASSUME TalkInv, [Next]_allVars
    PROVE  TalkInv'
  <1>1. CASE UNCHANGED conversationVars
    BY <1>1, TalkUntouched
  <1>2. CASE ConversationNext
    <2>1. CASE ClientInstructs
      BY <2>1, InstructsKeeps
    <2>2. CASE ClientQuotes
      BY <2>2, QuotesKeeps
    <2>3. CASE ClientAnswersOne
      BY <2>3, AnswersOneKeeps
    <2>4. CASE \E plain \in BOOLEAN : ClientSays(plain)
      BY <2>4, SaysKeeps
    <2>5. CASE \E n \in 1 .. 2, texts \in {"before", "after", "none"} : ClientAnswersSome(n, texts)
      BY <2>5, AnswersSomeKeeps
    <2>6. CASE \E items \in Turns : Ask(items)
      BY <2>6, AskKeeps
    <2>7. QED
      BY <1>2, <2>1, <2>2, <2>3, <2>4, <2>5, <2>6 DEF ConversationNext
  <1>3. UNCHANGED allVars => UNCHANGED conversationVars
    BY DEF allVars
  <1>4. QED
    BY <1>1, <1>2, <1>3 DEF Next

\* Neither conversion loses, doubles or reorders a turn or a text.
LEMMA HistoryFollows ==
    ASSUME TalkInv
    PROVE  HistoryKept
  <1> DEFINE turns == TurnsIn(request)
             N == Len(uttered)
  <1>1. SUFFICES ASSUME request # <<>>
                 PROVE  /\ Len(turns) - (N - 1) \in {0, 1}
                        /\ \A k \in 1 .. N - 1 : turns[k + (Len(turns) - (N - 1))] = Parsed(uttered[k])
                        /\ UserTexts(request) = UserTexts(Asked)
    BY DEF HistoryKept
  <1>2. PICK q \in {0, 1} : /\ Len(turns) = (N - 1) + q
                            /\ \A k \in 1 .. N - 1 : turns[k + q] = Parsed(uttered[k])
    BY <1>1 DEF TalkInv, TurnsKept, AsUttered
  <1>3. N \in Nat
    BY LenProperties DEF TalkInv, TalkTyped
  <1>4. Len(turns) - (N - 1) = q
    <2> DEFINE L == Len(turns)
    <2>1. L = (N - 1) + q
      BY <1>2
    <2> HIDE DEF L, N, turns
    <2>2. L - (N - 1) = q
      BY <1>3, <2>1
    <2>3. QED
      BY <2>2 DEF L
  <1>5. PICK n \in Nat : LastTurn(n, transcript) /\ UserTexts(request) = UserTexts(SubSeq(transcript, 1, n - 1))
    BY <1>1 DEF TalkInv, TextsKept
  <1>6. Max({k \in DOMAIN transcript : transcript[k].role = "assistant"}) = n
    <2> DEFINE A == {k \in DOMAIN transcript : transcript[k].role = "assistant"}
    <2>1. n \in A /\ (\A k \in A : n >= k) /\ A \subseteq Nat
      <3>1. transcript \in Seq(ClientMsg)
        BY DEF TalkInv, TalkTyped
      <3>2. DOMAIN transcript \subseteq Nat
        BY <3>1, LenProperties
      <3>3. \A k \in A : k \in Nat /\ k <= n
        BY <1>5, <3>2 DEF LastTurn
      <3>4. n \in A
        BY <1>5 DEF LastTurn
      <3> HIDE DEF A
      <3>5. QED
        BY <3>3, <3>4
    <2> HIDE DEF A
    <2>2. \A x \in A : (\A y \in A : x >= y) => x = n
      BY <2>1
    <2>3. Max(A) = n
      BY <2>1, <2>2 DEF Max
    <2>4. QED
      BY <2>3 DEF A
  <1>7. Asked = SubSeq(transcript, 1, n - 1)
    BY <1>6 DEF Asked
  <1>8. QED
    BY <1>2, <1>4, <1>5, <1>7

\* The invariant of the conversation, for any number of requests, messages of
\* any length, and any mixture of arguments that are objects or not.
THEOREM TalkKeeps == Spec => []TalkInv
  <1>1. Init => TalkInv
    BY TalkStarts DEF Init
  <1>2. TalkInv /\ [Next]_allVars => TalkInv'
    BY TalkStep
  <1>3. QED
    BY <1>1, <1>2, PTL DEF Spec

\* In what the upstream gets, every result comes after its call with no text
\* in between, no call is left without one, and an Anthropic upstream is first
\* told something by the user (openai_chat_to_anthropic_messages and
\* anthropic_to_openai_messages).
THEOREM AnswersFollow == Spec => []AnswersFollowCalls
  <1>1. TalkInv => AnswersFollowCalls
    BY DEF TalkInv
  <1>2. QED
    BY <1>1, TalkKeeps, PTL

\* Every request repeats all that the upstream said, turn by turn and with its
\* arguments parsed, and all that the user said: neither conversion of a
\* message, nor the way back of the reply, loses, doubles or reorders any.
THEOREM HistoryIsKept == Spec => []HistoryKept
  <1>1. TalkInv => HistoryKept
    BY HistoryFollows
  <1>2. QED
    BY <1>1, TalkKeeps, PTL
=============================================================================
