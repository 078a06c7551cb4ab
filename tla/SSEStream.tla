----------------------------- MODULE SSEStream -----------------------------
(***************************************************************************)
(* internal/proxy/sse.go, ProxyStream: one streaming request, from the     *)
(* slot it asks for to the slot it gives back.                             *)
(*                                                                         *)
(* Two goroutines of the gateway take part.  The main goroutine calls the  *)
(* backend and then selects among the client's departure, the idle timer   *)
(* and the channel lineCh; the reader goroutine scans the backend's body   *)
(* and sends each line over lineCh, which holds one element.  The client   *)
(* and the backend do what they like; a client that stops reading stalls   *)
(* the writes of the main goroutine, which have no deadline                *)
(* (server.go:244-247 sets no WriteTimeout).                               *)
(*                                                                         *)
(* A line is its position in what the backend sent, so a lost, repeated or *)
(* overtaken line shows.  StreamManager says when a slot is granted; here  *)
(* AcquireStream answers either way.                                       *)
(***************************************************************************)
EXTENDS Integers, Sequences

CONSTANT MaxLines    \* bound: lines the backend sends in one stream

ASSUME MaxLinesNat == MaxLines \in Nat

VARIABLES
    main,       \* where the main goroutine stands
    result,     \* why ProxyStream returned
    slot,       \* does the handler hold its stream slot?
    bodyOpen,   \* is the backend's response body open?
    current,    \* line the main goroutine is writing, 0 if none
    written,    \* lines written to the client
    errorSent,  \* the SSE error event written after them, if any
    timer,      \* idleTimer: "off", "armed" or "fired"
    reader,     \* where the reader goroutine stands
    hand,       \* what the reader is about to send
    nread,      \* lines the reader has scanned
    lineCh,     \* contents of the channel
    chClosed,   \* has the reader closed it?
    client,     \* "connected", "stalled" (it does not read) or "gone"
    backend,    \* "open", "ended" or "broken"
    sent        \* lines the backend has sent

mainVars == <<main, result, slot, bodyOpen, current, written, errorSent>>
readerVars == <<reader, hand, nread>>
chanVars == <<lineCh, chClosed>>
worldVars == <<client, backend, sent>>
vars == <<mainVars, timer, readerVars, chanVars, worldVars>>

ReadError == 0                    \* lineResult{err: err}
Lines == 1..MaxLines

MutChanCap == MaxLines            \* Mutant: a channel with room for the whole stream
ChanCap == 1                      \* make(chan lineResult, 1)

Init ==
    /\ main = "start"
    /\ result = "none"
    /\ slot = FALSE
    /\ bodyOpen = FALSE
    /\ current = 0
    /\ written = <<>>
    /\ errorSent = "none"
    /\ timer = "off"
    /\ reader = "off"
    /\ hand = 0
    /\ nread = 0
    /\ lineCh = <<>>
    /\ chClosed = FALSE
    /\ client = "connected"
    /\ backend = "open"
    /\ sent = 0

----------------------------------------------------------------------------
(* The client and the backend *)

ClientLeaves ==
    /\ client # "gone"
    /\ client' = "gone"
    /\ UNCHANGED <<mainVars, timer, readerVars, chanVars, backend, sent>>

\* The client stops reading, and may go on later.
ClientStalls ==
    /\ client = "connected"
    /\ client' = "stalled"
    /\ UNCHANGED <<mainVars, timer, readerVars, chanVars, backend, sent>>

ClientResumes ==
    /\ client = "stalled"
    /\ client' = "connected"
    /\ UNCHANGED <<mainVars, timer, readerVars, chanVars, backend, sent>>

BackendSends ==
    /\ bodyOpen
    /\ backend = "open"
    /\ sent < MaxLines
    /\ sent' = sent + 1
    /\ UNCHANGED <<mainVars, timer, readerVars, chanVars, client, backend>>

\* The backend closes its response, or breaks off: a reset connection, or a
\* line longer than maxEventSize, which the scanner refuses.
BackendStops ==
    /\ bodyOpen
    /\ backend = "open"
    /\ backend' \in {"ended", "broken"}
    /\ UNCHANGED <<mainVars, timer, readerVars, chanVars, client, sent>>

TimerFires ==
    /\ timer = "armed"
    /\ timer' = "fired"
    /\ UNCHANGED <<mainVars, readerVars, chanVars, worldVars>>

----------------------------------------------------------------------------
(* The main goroutine up to the select loop *)

Acquire ==
    /\ main = "start"
    /\ \/ /\ slot' = TRUE
          /\ main' = "request"
          /\ UNCHANGED result
       \/ /\ main' = "returned"
          /\ result' = "refused"
          /\ UNCHANGED slot
    /\ UNCHANGED <<bodyOpen, current, written, errorSent, timer, readerVars,
                   chanVars, worldVars>>

\* The request cannot be built or client.Do fails (the client may have left:
\* the request carries its context).
RequestFails ==
    /\ main = "request"
    /\ main' = "closing"
    /\ result' = "unavailable"
    /\ UNCHANGED <<slot, bodyOpen, current, written, errorSent, timer, readerVars,
                   chanVars, worldVars>>

\* The backend answered, but the client's writer cannot flush: the body is open
\* and no reader starts.
NoFlusher ==
    /\ main = "request"
    /\ main' = "closing"
    /\ result' = "unavailable"
    /\ bodyOpen' = TRUE
    /\ UNCHANGED <<slot, current, written, errorSent, timer, readerVars, chanVars,
                   worldVars>>

\* The backend answered: headers go out, the reader and the timer start.
RequestSucceeds ==
    /\ main = "request"
    /\ main' = "select"
    /\ bodyOpen' = TRUE
    /\ reader' = "scan"
    /\ timer' = "armed"
    /\ UNCHANGED <<result, slot, current, written, errorSent, hand, nread, chanVars,
                   worldVars>>

----------------------------------------------------------------------------
(* The select loop: any ready case may be taken *)

Leave(why, next) ==
    /\ main' = next
    /\ result' = why
    /\ UNCHANGED <<slot, bodyOpen, current, written, errorSent, readerVars, worldVars>>

SelectDone ==
    /\ main = "select"
    /\ client = "gone"
    /\ Leave("disconnected", "closing")
    /\ UNCHANGED <<timer, chanVars>>

SelectIdle ==
    /\ main = "select"
    /\ timer = "fired"
    /\ timer' = "off"
    /\ Leave("idle", "notifying")
    /\ UNCHANGED chanVars

SelectError ==
    /\ main = "select"
    /\ lineCh # <<>>
    /\ Head(lineCh) = ReadError
    /\ lineCh' = Tail(lineCh)
    /\ Leave("backendError", "notifying")
    /\ UNCHANGED <<timer, chClosed>>

SelectEnd ==
    /\ main = "select"
    /\ lineCh = <<>>
    /\ chClosed
    /\ Leave("ended", "closing")
    /\ UNCHANGED <<timer, chanVars>>

\* Mutant: a read error is taken for a line.
MutSelectLine ==
    /\ main = "select"
    /\ lineCh # <<>>
    /\ current' = Head(lineCh)
    /\ lineCh' = Tail(lineCh)
    /\ main' = "writing"
    /\ UNCHANGED <<result, slot, bodyOpen, written, errorSent, timer, readerVars,
                   chClosed, worldVars>>

SelectLine ==
    /\ main = "select"
    /\ lineCh # <<>>
    /\ Head(lineCh) # ReadError
    /\ current' = Head(lineCh)
    /\ lineCh' = Tail(lineCh)
    /\ main' = "writing"
    /\ UNCHANGED <<result, slot, bodyOpen, written, errorSent, timer, readerVars,
                   chClosed, worldVars>>

\* Mutant: the idle timer is not rearmed after a line.
MutWriteLine ==
    /\ main = "writing"
    /\ written' = Append(written, current)
    /\ current' = 0
    /\ timer' = "off"
    /\ main' = "select"
    /\ UNCHANGED <<result, slot, bodyOpen, errorSent, readerVars, chanVars, worldVars>>

\* Write the line (with a flush at the end of an event) and rearm the timer:
\* Stop and Reset discard a firing that happened during the write.  While the
\* client is stalled the write may finish, into buffers, or not (Fairness).
WriteLine ==
    /\ main = "writing"
    /\ written' = Append(written, current)
    /\ current' = 0
    /\ timer' = "armed"
    /\ main' = "select"
    /\ UNCHANGED <<result, slot, bodyOpen, errorSent, readerVars, chanVars, worldVars>>

\* The error event after the lines written so far; it too is written and
\* flushed to a client that may have stalled.
SendEvent ==
    /\ main = "notifying"
    /\ errorSent' = IF result = "idle" THEN "timeout" ELSE "backend"
    /\ main' = "closing"
    /\ UNCHANGED <<result, slot, bodyOpen, current, written, timer, readerVars, chanVars,
                   worldVars>>

\* Mutant: the slot is given back before the backend's body is closed.
MutCloseBody ==
    /\ main = "closing"
    /\ slot' = FALSE
    /\ timer' = "off"
    /\ main' = "releasing"
    /\ UNCHANGED <<result, bodyOpen, current, written, errorSent, readerVars, chanVars,
                   worldVars>>

\* The deferred calls, last first: idleTimer.Stop, Body.Close, ReleaseStream.
CloseBody ==
    /\ main = "closing"
    /\ bodyOpen' = FALSE
    /\ timer' = "off"
    /\ main' = "releasing"
    /\ UNCHANGED <<result, slot, current, written, errorSent, readerVars, chanVars,
                   worldVars>>

ReleaseSlot ==
    /\ main = "releasing"
    /\ slot' = FALSE
    /\ main' = "returned"
    /\ UNCHANGED <<result, bodyOpen, current, written, errorSent, timer, readerVars, chanVars,
                   worldVars>>

----------------------------------------------------------------------------
(* The reader goroutine *)

Scan ==
    /\ reader = "scan"
    /\ nread < sent
    /\ nread' = nread + 1
    /\ hand' = nread + 1
    /\ reader' = "send"
    /\ UNCHANGED <<mainVars, timer, chanVars, worldVars>>

\* Mutant: scanner.Err() is not looked at when the loop ends.
MutScanFails ==
    /\ reader = "scan"
    /\ backend = "broken" \/ ~bodyOpen \/ client = "gone"
    /\ reader' = "exiting"
    /\ UNCHANGED <<mainVars, timer, hand, nread, chanVars, worldVars>>

\* The read fails: the connection broke, the body was closed, or the request's
\* context ended with the client.  Lines not yet scanned are lost.
ScanFails ==
    /\ reader = "scan"
    /\ backend = "broken" \/ ~bodyOpen \/ client = "gone"
    /\ hand' = ReadError
    /\ reader' = "send"
    /\ UNCHANGED <<mainVars, timer, nread, chanVars, worldVars>>

ScanEnds ==
    /\ reader = "scan"
    /\ backend = "ended"
    /\ nread = sent
    /\ reader' = "exiting"
    /\ UNCHANGED <<mainVars, timer, hand, nread, chanVars, worldVars>>

\* Mutant: the send does not wait for room, and drops what does not fit.
MutSend ==
    /\ reader = "send"
    /\ lineCh' = IF Len(lineCh) < ChanCap THEN Append(lineCh, hand) ELSE lineCh
    /\ hand' = 0
    /\ reader' = IF hand = ReadError THEN "exiting" ELSE "scan"
    /\ UNCHANGED <<mainVars, timer, nread, chClosed, worldVars>>

\* Mutant: the reader goes on scanning after it has reported an error.
MutSendOn ==
    /\ reader = "send"
    /\ Len(lineCh) < ChanCap
    /\ lineCh' = Append(lineCh, hand)
    /\ hand' = 0
    /\ reader' = "scan"
    /\ UNCHANGED <<mainVars, timer, nread, chClosed, worldVars>>

\* lineCh <- lineResult{...}: blocks while the channel is full.
Send ==
    /\ reader = "send"
    /\ Len(lineCh) < ChanCap
    /\ lineCh' = Append(lineCh, hand)
    /\ hand' = 0
    /\ reader' = IF hand = ReadError THEN "exiting" ELSE "scan"
    /\ UNCHANGED <<mainVars, timer, nread, chClosed, worldVars>>

CloseChannel ==
    /\ reader = "exiting"
    /\ chClosed' = TRUE
    /\ reader' = "exited"
    /\ UNCHANGED <<mainVars, timer, hand, nread, lineCh, worldVars>>

----------------------------------------------------------------------------
Select == SelectDone \/ SelectIdle \/ SelectError \/ SelectEnd \/ SelectLine
Deferred == CloseBody \/ ReleaseSlot
Write == WriteLine \/ SendEvent
Main ==
    \/ Acquire \/ RequestFails \/ NoFlusher \/ RequestSucceeds
    \/ Select \/ Write \/ Deferred
Reader == Scan \/ ScanFails \/ ScanEnds \/ Send \/ CloseChannel
World ==
    \/ ClientLeaves \/ ClientStalls \/ ClientResumes
    \/ BackendSends \/ BackendStops \/ TimerFires

Next == Main \/ Reader \/ World

Spec == Init /\ [][Next]_vars

\* Runnable goroutines are scheduled and an armed timer fires.  A write ends
\* while the client reads or is gone, but need not while it is stalled.  The
\* client need not leave or resume and the backend need not answer, send or
\* stop: client.Do waits without a deadline (transport.go:35), so
\* RequestSucceeds, RequestFails and NoFlusher get no fairness.
Fairness ==
    /\ WF_vars(Select)
    /\ WF_vars(client # "stalled" /\ Write)
    /\ WF_vars(Deferred)
    /\ WF_vars(Reader)
    /\ WF_vars(TimerFires)

FairSpec == Spec /\ Fairness

----------------------------------------------------------------------------
(* Properties *)

TypeOK ==
    /\ main \in {"start", "request", "select", "writing", "notifying", "closing", "releasing",
                 "returned"}
    /\ result \in {"none", "refused", "unavailable", "disconnected", "idle", "backendError",
                   "ended"}
    /\ slot \in BOOLEAN /\ bodyOpen \in BOOLEAN /\ chClosed \in BOOLEAN
    /\ current \in 0..MaxLines /\ hand \in 0..MaxLines
    /\ nread \in 0..MaxLines /\ sent \in 0..MaxLines
    /\ written \in Seq(Lines)
    /\ errorSent \in {"none", "timeout", "backend"}
    /\ timer \in {"off", "armed", "fired"}
    /\ reader \in {"off", "scan", "send", "exiting", "exited"}
    /\ lineCh \in Seq(0..MaxLines) /\ Len(lineCh) <= ChanCap
    /\ client \in {"connected", "stalled", "gone"}
    /\ backend \in {"open", "ended", "broken"}

\* What the reader has scanned is, in this order and with nothing missing or
\* repeated: the lines written, the one being written, the one in the channel
\* and the one in the reader's hand (sse.go:150-160, 188-209).  A read error
\* is 0, no line.
LineIn(i) == IF i = 0 THEN <<>> ELSE <<i>>
InChannel == IF lineCh = <<>> THEN 0 ELSE Head(lineCh)

LinesInOrder ==
    written \o LineIn(current) \o LineIn(InChannel) \o LineIn(hand) = [i \in 1..nread |-> i]

\* A stream that ends without an error event is whole: the backend closed it
\* and the client got every line, although the reader, the channel and the
\* main loop learn of the end one after the other (sse.go:157-159, 188-195).
SilentEndIsWhole ==
    result = "ended" => /\ errorSent = "none"
                        /\ backend = "ended"
                        /\ Len(written) = sent

\* A slot given back is worth a backend connection: max_streams bounds the
\* open response bodies too, on every way out (sse.go:63, 108).
SlotCoversBackend == bodyOpen => slot

\* A slow client holds the backend back: at most one line in the channel, one
\* in each goroutine's hands, however long the stream (sse.go:148).
BoundedReadAhead == nread - Len(written) <= 3

\* After an end or an error that came through the channel the reader is on its
\* way out: it does not read on behind its own last word (sse.go:154-159).  A
\* reader that the handler gave up first may stay (README, section 5).
ReaderGoneAfterEnd ==
    result \in {"ended", "backendError"} => reader \in {"exiting", "exited"}

\* What the client and the backend see of all this is a relay of lines: the
\* goroutines, the channel, the timer and the deferred calls behind it add no
\* behaviour of their own (sse.go:57-227).
Relay == INSTANCE LineRelay WITH
            held <- slot, source <- backend, delivered <- written,
            client <- IF client = "gone" THEN "gone" ELSE "connected",
            notice <- errorSent,
            outcome <- IF main = "notifying" THEN "none" ELSE result

RelaySpec == Relay!Spec

\* A started stream ends and gives its slot back once the backend falls
\* silent, with no help from the backend: the idle timer is armed whenever the
\* loop waits (sse.go:163, 177-186, 217-224).  The one thing it needs of the
\* client is that it does not stop reading for good without leaving: the loop
\* that looks at the timer also does the writing (sse.go:209).
HandlerReturns ==
    <>[](client # "stalled") => (main = "select" ~> main = "returned" /\ ~slot)
=============================================================================
