---------------------------- MODULE OpenAIStream ----------------------------
(***************************************************************************)
(* The chunk stream of the OpenAI dialect as its reader understands it:    *)
(* the role first, then text and tool calls, whose slots are announced in  *)
(* order and take fragments afterwards, then one finish reason, at most    *)
(* one count of usage, and [DONE], after which only the report of a broken *)
(* connection can follow.                                                  *)
(***************************************************************************)
EXTENDS Naturals

CONSTANT MaxSlots  \* bound on the number of tool calls

VARIABLES
    phase,   \* "none", "open", "finished", "failed", "done" or "aborted"
    tools,   \* how many tool calls were announced; they are 0 .. tools - 1
    parts,   \* per slot: the number of fragments received
    counts   \* how many chunks carried usage

chunkVars == <<phase, tools, parts, counts>>

Init ==
    /\ phase = "none"
    /\ tools = 0
    /\ parts = [s \in 0 .. MaxSlots - 1 |-> 0]
    /\ counts = 0

Role ==
    /\ phase = "none"
    /\ phase' = "open"
    /\ UNCHANGED <<tools, parts, counts>>

Announce ==
    /\ phase = "open"
    /\ tools' = tools + 1
    /\ UNCHANGED <<phase, parts, counts>>

Part(s) ==
    /\ phase = "open"
    /\ s < tools
    /\ parts' = [parts EXCEPT ![s] = @ + 1]
    /\ UNCHANGED <<phase, tools, counts>>

\* The finish reason, with the usage on the same chunk or without.
Finish(withUsage) ==
    /\ phase = "open"
    /\ phase' = "finished"
    /\ withUsage => counts = 0
    /\ counts' = IF withUsage THEN counts + 1 ELSE counts
    /\ UNCHANGED <<tools, parts>>

Usage ==
    /\ phase \in {"open", "finished"}
    /\ counts = 0
    /\ counts' = 1
    /\ UNCHANGED <<phase, tools, parts>>

Error ==
    /\ phase \in {"open", "finished"}
    /\ phase' = "failed"
    /\ UNCHANGED <<tools, parts, counts>>

\* The connection to the upstream breaks: an error and [DONE] in one frame.
\* This may come after the stream's own [DONE].
Abort ==
    /\ phase \in {"open", "finished", "done"}
    /\ phase' = "aborted"
    /\ UNCHANGED <<tools, parts, counts>>

Done ==
    /\ phase \in {"open", "finished", "failed"}
    /\ phase' = "done"
    /\ UNCHANGED <<tools, parts, counts>>

Next ==
    \/ Role \/ Announce \/ Usage \/ Error \/ Abort \/ Done
    \/ \E withUsage \in BOOLEAN : Finish(withUsage)
    \/ \E s \in 0 .. MaxSlots - 1 : Part(s)

Spec == Init /\ [][Next]_chunkVars
=============================================================================
