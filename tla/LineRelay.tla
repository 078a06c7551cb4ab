----------------------------- MODULE LineRelay -----------------------------
(***************************************************************************)
(* What a streaming request promises its client and its backend: a relay   *)
(* without memory.  Once a slot is held, what the client has been given is *)
(* always the beginning of what the backend has sent; a relay ends for one *)
(* reason and then gives nothing more; it ends silently only when the      *)
(* stream is whole or nobody listens; and the backend talks only to a      *)
(* relay that holds a slot.                                                *)
(*                                                                         *)
(* Module SSEStream implements this specification with two goroutines, a   *)
(* channel of one element, a timer and three deferred calls.               *)
(***************************************************************************)
EXTENDS Naturals, Sequences

VARIABLES
    held,        \* does the relay hold a stream slot?
    source,      \* the backend's stream: "open", "ended" or "broken"
    sent,        \* lines the backend has sent
    client,      \* "connected" or "gone"
    delivered,   \* lines given to the client
    notice,      \* the error event after them, if any
    outcome      \* why the relay ended, "none" until it does

relayVars == <<held, source, sent, client, delivered, notice, outcome>>

Init ==
    /\ held = FALSE
    /\ source = "open"
    /\ sent = 0
    /\ client = "connected"
    /\ delivered = <<>>
    /\ notice = "none"
    /\ outcome = "none"

Grant ==
    /\ outcome = "none" /\ ~held
    /\ held' = TRUE
    /\ UNCHANGED <<source, sent, client, delivered, notice, outcome>>

Send ==
    /\ held /\ source = "open"
    /\ sent' = sent + 1
    /\ UNCHANGED <<held, source, client, delivered, notice, outcome>>

Stop ==
    /\ held /\ source = "open"
    /\ source' \in {"ended", "broken"}
    /\ UNCHANGED <<held, sent, client, delivered, notice, outcome>>

Leave ==
    /\ client = "connected"
    /\ client' = "gone"
    /\ UNCHANGED <<held, source, sent, delivered, notice, outcome>>

\* The next line, which the backend has sent.
Deliver ==
    /\ outcome = "none" /\ held
    /\ Len(delivered) < sent
    /\ delivered' = Append(delivered, Len(delivered) + 1)
    /\ UNCHANGED <<held, source, sent, client, notice, outcome>>

End(why, event) ==
    /\ outcome = "none"
    /\ outcome' = why
    /\ notice' = event
    /\ UNCHANGED <<held, source, sent, client, delivered>>

Refuse == ~held /\ End("refused", "none")
Fail == held /\ sent = 0 /\ End("unavailable", "none")
Complete == held /\ source = "ended" /\ Len(delivered) = sent /\ End("ended", "none")
Abandon == held /\ client = "gone" /\ End("disconnected", "none")
TimeOut == held /\ End("idle", "timeout")
Interrupt == held /\ (source = "broken" \/ client = "gone") /\ End("backendError", "backend")

Return ==
    /\ outcome # "none" /\ held
    /\ held' = FALSE
    /\ UNCHANGED <<source, sent, client, delivered, notice, outcome>>

Next ==
    \/ Grant \/ Refuse \/ Fail \/ Send \/ Stop \/ Leave
    \/ Deliver \/ Complete \/ Abandon \/ TimeOut \/ Interrupt \/ Return

Spec == Init /\ [][Next]_relayVars
=============================================================================
