----------------------------- MODULE MCConvert -----------------------------
(***************************************************************************)
(* The three converters, one at a time: an adapter converts a request and  *)
(* its reply, or a stream in one of the two directions, and the three      *)
(* share nothing.  `job` is drawn at the start; the variables of the other *)
(* two stay as they are.                                                   *)
(***************************************************************************)
EXTENDS ToAnthropic, ToOpenAI, Conversation

VARIABLE job

allVars == <<job, toAnthropicVars, toOpenAIVars, conversationVars>>

Init ==
    /\ job \in {"to anthropic", "to openai", "conversation"}
    /\ ToAnthropicInit /\ ToOpenAIInit /\ ConversationInit
    /\ job # "to openai" => include_usage = FALSE
    /\ job # "conversation" => client = "openai"

Next ==
    /\ UNCHANGED job
    /\ \/ job = "to anthropic" /\ ToAnthropicNext
          /\ UNCHANGED <<toOpenAIVars, conversationVars>>
       \/ job = "to openai" /\ ToOpenAINext
          /\ UNCHANGED <<toAnthropicVars, conversationVars>>
       \/ job = "conversation" /\ ConversationNext
          /\ UNCHANGED <<toAnthropicVars, toOpenAIVars>>

Spec == Init /\ [][Next]_allVars

\* Both directions: no fragment of a tool call is lost, doubled or given to
\* another call (FragmentsReachTheirBlock, ToolCallsReachClient).
ToolArgumentsArrive == FragmentsReachTheirBlock /\ ToolCallsReachClient

\* Both directions: a count the upstream reported, not smaller than the text
\* deltas before it, is told unchanged, and once (FinalCountIsReported, UsageOnce).
UsageArrives == FinalCountIsReported /\ UsageOnce
=============================================================================
