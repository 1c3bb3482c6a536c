-------------------------- MODULE AnthropicStream --------------------------
(***************************************************************************)
(* The event stream of the Anthropic dialect as its reader understands it: *)
(* blocks are opened in the order of their indexes, take fragments while   *)
(* they are open, and are all closed before the closing events.  Only text *)
(* may still come for the text block after it was closed; readers that     *)
(* append by index take it, and the gateway's converter needs it.          *)
(***************************************************************************)
EXTENDS Naturals

CONSTANT MaxIndex  \* bound on the indexes of blocks

VARIABLES
    reply,  \* "none", "open", "ended" (message_delta), "stopped" or "broken"
    kind,   \* per index: "none", "text" or "tool"
    live,   \* the indexes of the open blocks
    got     \* per index: the number of fragments received

streamVars == <<reply, kind, live, got>>

Indexes == 0 .. MaxIndex

Init ==
    /\ reply = "none"
    /\ kind = [i \in Indexes |-> "none"]
    /\ live = {}
    /\ got = [i \in Indexes |-> 0]

StartMessage ==
    /\ reply = "none"
    /\ reply' = "open"
    /\ UNCHANGED <<kind, live, got>>

StartBlock(i, k) ==
    /\ reply = "open"
    /\ kind[i] = "none"
    /\ \A j \in Indexes : j < i => kind[j] # "none"
    /\ kind' = [kind EXCEPT ![i] = k]
    /\ live' = live \cup {i}
    /\ UNCHANGED <<reply, got>>

Fragment(i) ==
    /\ reply = "open"
    /\ i \in live \/ kind[i] = "text"
    /\ got' = [got EXCEPT ![i] = @ + 1]
    /\ UNCHANGED <<reply, kind, live>>

StopBlock(i) ==
    /\ reply = "open"
    /\ i \in live
    /\ live' = live \ {i}
    /\ UNCHANGED <<reply, kind, got>>

\* message_delta; it may come more than once, with the counts so far
EndMessage ==
    /\ reply \in {"open", "ended"}
    /\ live = {}
    /\ reply' = "ended"
    /\ UNCHANGED <<kind, live, got>>

StopMessage ==
    /\ reply = "ended"
    /\ reply' = "stopped"
    /\ UNCHANGED <<kind, live, got>>

\* An error event, or an end without the closing events.
Break ==
    /\ reply \in {"none", "open", "ended"}
    /\ reply' = "broken"
    /\ UNCHANGED <<kind, live, got>>

Next ==
    \/ StartMessage \/ EndMessage \/ StopMessage \/ Break
    \/ \E i \in Indexes :
        \/ \E k \in {"text", "tool"} : StartBlock(i, k)
        \/ Fragment(i)
        \/ StopBlock(i)

Spec == Init /\ [][Next]_streamVars
=============================================================================
