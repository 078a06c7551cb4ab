----------------------------- MODULE SSEProofs -----------------------------
(***************************************************************************)
(* Proofs about SSEStream, for streams of any length.                      *)
(*                                                                         *)
(* None of the runs' invariants is inductive.  BoundedReadAhead follows    *)
(* from an account of where every scanned line is (Account), which also    *)
(* makes a silent end whole once it is known why the reader stopped        *)
(* (WhyStopped).  SlotCoversBackend needs the order of the deferred calls  *)
(* (Handler).                                                              *)
(***************************************************************************)
EXTENDS SSEStream, SequenceTheorems, TLAPS

Line == 0..MaxLines

\* A line in a hand, or in the channel, counts one.
One(i) == IF i = 0 THEN 0 ELSE 1
Queued == IF lineCh = <<>> THEN 0 ELSE One(Head(lineCh))

\* Every line the reader has scanned is written or still on its way.
Account == nread = Len(written) + One(current) + Queued + One(hand)

Handler ==
    /\ main = "writing" <=> current # 0
    /\ bodyOpen => main \in {"select", "writing", "notifying", "closing"}
    /\ main \notin {"start", "returned"} => slot
    /\ main \in {"start", "request", "select", "writing"} => result = "none"
    /\ main \in {"start", "request", "select", "writing", "notifying"} => errorSent = "none"
    /\ main = "notifying" => result \in {"idle", "backendError"}

Reading ==
    /\ main \in {"start", "request"} => reader = "off"
    /\ reader = "off" => nread = 0 /\ lineCh = <<>> /\ result \notin {"ended", "backendError"}
    /\ hand # 0 => reader = "send"
    /\ chClosed <=> reader = "exited"
    /\ lineCh # <<>> => (Head(lineCh) = ReadError => reader \in {"exiting", "exited"})

\* The reader stops at the end of the backend's body, or leaves an error
\* in the channel until the handler has its result.
WhyStopped ==
    reader \in {"exiting", "exited"} =>
        \/ backend = "ended" /\ nread = sent
        \/ lineCh # <<>> /\ Head(lineCh) = ReadError
        \/ main \notin {"select", "writing"} /\ result # "ended"

Rest == Handler /\ Reading /\ WhyStopped /\ SilentEndIsWhole /\ ReaderGoneAfterEnd

IInv == TypeOK /\ Account /\ Rest

----------------------------------------------------------------------------
\* What a channel of one element can hold.
LEMMA ChannelCases ==
    ASSUME TypeOK
    PROVE  lineCh = <<>> \/ \E x \in Line : lineCh = <<x>>
  <1>1. lineCh \in Seq(Line) /\ Len(lineCh) <= 1
    BY DEF TypeOK, ChanCap, Line
  <1>2. CASE lineCh # <<>>
    <2>1. Len(lineCh) = 1
      <3>1. Len(lineCh) \in Nat \ {0}
        BY <1>1, <1>2, EmptySeq, Zenon
      <3>2. \A n \in Nat \ {0} : n <= 1 => n = 1
        OBVIOUS
      <3> QED BY <1>1, <3>1, <3>2, Zenon
    <2>2. lineCh[1] \in Line
      BY <1>1, <2>1, ElementOfSeq
    <2>3. lineCh = <<lineCh[1]>>
      BY <1>1, <2>1
    <2> QED BY <2>2, <2>3
  <1> QED BY <1>2

LEMMA InitIInv == Init => IInv
  <1> SUFFICES ASSUME Init PROVE IInv OBVIOUS
  <1>1. /\ lineCh \in Seq(0..MaxLines) /\ Len(lineCh) = 0
        /\ written \in Seq(Lines) /\ Len(written) = 0
    BY EmptySeq DEF Init
  <1>2. 0 \in 0..MaxLines /\ 0 <= ChanCap
    BY MaxLinesNat DEF ChanCap
  <1>3. TypeOK
    BY <1>1, <1>2 DEF Init, TypeOK
  <1>4. Account
    BY <1>1 DEF Init, Account, One, Queued
  <1>5. Rest
    BY DEF Init, Rest, Handler, Reading, WhyStopped, SilentEndIsWhole, ReaderGoneAfterEnd
  <1> QED BY <1>3, <1>4, <1>5 DEF IInv

LEMMA WorldKeepsIInv == ASSUME IInv, World PROVE IInv'
  <1> USE DEF IInv, Leave, mainVars, readerVars, chanVars, worldVars
  <1>1. CASE ClientLeaves
    <2>1. TypeOK'
      BY <1>1, MaxLinesNat DEF ClientLeaves, TypeOK
    <2>2. Account'
      BY <1>1 DEF ClientLeaves, Account, One, Queued
    <2>3. Rest'
      BY <1>1 DEF ClientLeaves, TypeOK, Rest, Handler, Reading,
                  WhyStopped, SilentEndIsWhole, ReaderGoneAfterEnd, ReadError
    <2> QED BY <2>1, <2>2, <2>3
  <1>2. CASE BackendSends
    <2>1. TypeOK'
      BY <1>2, MaxLinesNat DEF BackendSends, TypeOK
    <2>2. Account'
      BY <1>2 DEF BackendSends, Account, One, Queued
    <2>3. Rest'
      BY <1>2 DEF BackendSends, TypeOK, Rest, Handler, Reading,
                  WhyStopped, SilentEndIsWhole, ReaderGoneAfterEnd, ReadError
    <2> QED BY <2>1, <2>2, <2>3
  <1>3. CASE BackendStops
    <2>1. TypeOK'
      BY <1>3, MaxLinesNat DEF BackendStops, TypeOK
    <2>2. Account'
      BY <1>3 DEF BackendStops, Account, One, Queued
    <2>3. Rest'
      BY <1>3 DEF BackendStops, TypeOK, Rest, Handler, Reading,
                  WhyStopped, SilentEndIsWhole, ReaderGoneAfterEnd, ReadError
    <2> QED BY <2>1, <2>2, <2>3
  <1>4. CASE TimerFires
    <2>1. TypeOK'
      BY <1>4, MaxLinesNat DEF TimerFires, TypeOK
    <2>2. Account'
      BY <1>4 DEF TimerFires, Account, One, Queued
    <2>3. Rest'
      BY <1>4 DEF TimerFires, TypeOK, Rest, Handler, Reading,
                  WhyStopped, SilentEndIsWhole, ReaderGoneAfterEnd, ReadError
    <2> QED BY <2>1, <2>2, <2>3
  <1>5. CASE ClientStalls
    <2>1. TypeOK'
      BY <1>5, MaxLinesNat DEF ClientStalls, TypeOK
    <2>2. Account'
      BY <1>5 DEF ClientStalls, Account, One, Queued
    <2>3. Rest'
      BY <1>5 DEF ClientStalls, TypeOK, Rest, Handler, Reading,
                  WhyStopped, SilentEndIsWhole, ReaderGoneAfterEnd, ReadError
    <2> QED BY <2>1, <2>2, <2>3
  <1>6. CASE ClientResumes
    <2>1. TypeOK'
      BY <1>6, MaxLinesNat DEF ClientResumes, TypeOK
    <2>2. Account'
      BY <1>6 DEF ClientResumes, Account, One, Queued
    <2>3. Rest'
      BY <1>6 DEF ClientResumes, TypeOK, Rest, Handler, Reading,
                  WhyStopped, SilentEndIsWhole, ReaderGoneAfterEnd, ReadError
    <2> QED BY <2>1, <2>2, <2>3
  <1> QED BY <1>1, <1>2, <1>3, <1>4, <1>5, <1>6 DEF World

\* Up to the select loop, and the deferred calls after it.
LEMMA OutsideKeepsIInv ==
    ASSUME IInv, Acquire \/ RequestFails \/ NoFlusher \/ RequestSucceeds \/ Deferred
    PROVE  IInv'
  <1> USE DEF IInv, Leave, mainVars, readerVars, chanVars, worldVars
  <1>1. CASE Acquire
    <2>1. TypeOK'
      BY <1>1, MaxLinesNat DEF Acquire, TypeOK
    <2>2. Account'
      BY <1>1 DEF Acquire, Account, One, Queued
    <2>3. Rest'
      BY <1>1 DEF Acquire, TypeOK, Rest, Handler, Reading,
                  WhyStopped, SilentEndIsWhole, ReaderGoneAfterEnd, ReadError
    <2> QED BY <2>1, <2>2, <2>3
  <1>2. CASE RequestFails
    <2>1. TypeOK'
      BY <1>2, MaxLinesNat DEF RequestFails, TypeOK
    <2>2. Account'
      BY <1>2 DEF RequestFails, Account, One, Queued
    <2>3. Rest'
      BY <1>2 DEF RequestFails, TypeOK, Rest, Handler, Reading,
                  WhyStopped, SilentEndIsWhole, ReaderGoneAfterEnd, ReadError
    <2> QED BY <2>1, <2>2, <2>3
  <1>3. CASE RequestSucceeds
    <2>1. TypeOK'
      BY <1>3, MaxLinesNat DEF RequestSucceeds, TypeOK
    <2>2. Account'
      BY <1>3 DEF RequestSucceeds, Account, One, Queued
    <2>3. Rest'
      BY <1>3 DEF RequestSucceeds, TypeOK, Rest, Handler, Reading,
                  WhyStopped, SilentEndIsWhole, ReaderGoneAfterEnd, ReadError
    <2> QED BY <2>1, <2>2, <2>3
  <1>4. CASE CloseBody
    <2>1. TypeOK'
      BY <1>4, MaxLinesNat DEF CloseBody, TypeOK
    <2>2. Account'
      BY <1>4 DEF CloseBody, Account, One, Queued
    <2>3. Rest'
      BY <1>4 DEF CloseBody, TypeOK, Rest, Handler, Reading,
                  WhyStopped, SilentEndIsWhole, ReaderGoneAfterEnd, ReadError
    <2> QED BY <2>1, <2>2, <2>3
  <1>5. CASE ReleaseSlot
    <2>1. TypeOK'
      <3>1. written' \in Seq(Lines) /\ lineCh' \in Seq(0..MaxLines) /\ Len(lineCh') <= ChanCap
        BY <1>5 DEF ReleaseSlot, TypeOK
      <3>2. slot' \in BOOLEAN /\ bodyOpen' \in BOOLEAN /\ chClosed' \in BOOLEAN
        BY <1>5 DEF ReleaseSlot, TypeOK
      <3>3. /\ current' \in 0..MaxLines /\ hand' \in 0..MaxLines
            /\ nread' \in 0..MaxLines /\ sent' \in 0..MaxLines
        BY <1>5 DEF ReleaseSlot, TypeOK
      <3>4. main' = "returned" /\ UNCHANGED <<result, errorSent, timer, reader, client, backend>>
        BY <1>5 DEF ReleaseSlot
      <3> QED BY <3>1, <3>2, <3>3, <3>4 DEF TypeOK
    <2>2. Account'
      BY <1>5 DEF ReleaseSlot, Account, One, Queued
    <2>3. Rest'
      BY <1>5 DEF ReleaseSlot, TypeOK, Rest, Handler, Reading,
                  WhyStopped, SilentEndIsWhole, ReaderGoneAfterEnd, ReadError
    <2> QED BY <2>1, <2>2, <2>3
  <1>6. CASE NoFlusher
    <2>1. TypeOK'
      BY <1>6, MaxLinesNat DEF NoFlusher, TypeOK
    <2>2. Account'
      BY <1>6 DEF NoFlusher, Account, One, Queued
    <2>3. Rest'
      BY <1>6 DEF NoFlusher, TypeOK, Rest, Handler, Reading,
                  WhyStopped, SilentEndIsWhole, ReaderGoneAfterEnd, ReadError
    <2> QED BY <2>1, <2>2, <2>3
  <1> QED BY <1>1, <1>2, <1>3, <1>4, <1>5, <1>6 DEF Deferred

LEMMA LoopKeepsIInv == ASSUME IInv, Select \/ Write PROVE IInv'
  <1> USE DEF IInv, Leave, mainVars, readerVars, chanVars, worldVars
  <1>1. CASE SelectDone \/ SelectIdle
    <2>1. TypeOK'
      BY <1>1, MaxLinesNat DEF SelectDone, SelectIdle, TypeOK
    <2>2. Account'
      BY <1>1 DEF SelectDone, SelectIdle, Account, One, Queued
    <2>3. Rest'
      BY <1>1 DEF SelectDone, SelectIdle, TypeOK, Rest, Handler, Reading,
                  WhyStopped, SilentEndIsWhole, ReaderGoneAfterEnd, ReadError
    <2> QED BY <2>1, <2>2, <2>3
  <1>2. CASE SelectEnd
    <2>1. TypeOK' /\ Account'
      BY <1>2 DEF SelectEnd, TypeOK, Account, One, Queued
    <2>2. result' = "ended" => Len(written) = sent
      <3>1. current = 0 /\ Queued = 0 /\ hand = 0
        BY <1>2 DEF SelectEnd, Rest, Handler, Reading, Queued
      <3>2. nread = sent
        BY <1>2 DEF SelectEnd, Rest, Reading, WhyStopped
      <3> QED BY <3>1, <3>2 DEF Account, One, TypeOK
    <2>3. Rest'
      BY <1>2, <2>2 DEF SelectEnd, TypeOK, Rest, Handler, Reading,
                  WhyStopped, SilentEndIsWhole, ReaderGoneAfterEnd, ReadError
    <2> QED BY <2>1, <2>3
  <1>3. CASE SelectError \/ SelectLine
    <2>1. PICK x \in Line : lineCh = <<x>>
      BY <1>3, ChannelCases DEF SelectError, SelectLine
    <2>2. lineCh' = <<>> /\ Head(lineCh) = x /\ lineCh # <<>>
      BY <1>3, <2>1 DEF SelectError, SelectLine
    <2>3. lineCh' \in Seq(0..MaxLines) /\ Len(lineCh') <= 1
      BY <2>2
    <2>4. TypeOK'
      BY <1>3, <2>2, <2>3 DEF SelectError, SelectLine, TypeOK, Line, ChanCap
    <2>5. Queued = One(x) /\ Queued' = 0
      BY <2>2 DEF Queued
    <2>6. current = 0 /\ (SelectError => x = 0)
      BY <1>3, <2>2 DEF SelectError, SelectLine, Rest, Handler, ReadError
    <2>7. One(current) = 0 /\ One(current') = One(x) /\ One(hand') = One(hand)
      BY <1>3, <2>2, <2>6 DEF SelectError, SelectLine, One
    <2>8. One(x) \in 0..1 /\ One(hand) \in 0..1 /\ Len(written) \in Nat
      BY DEF One, TypeOK
    <2>9. Account'
      BY <1>3, <2>5, <2>7, <2>8 DEF SelectError, SelectLine, Account
    <2>10. Rest'
      BY <1>3, <2>2 DEF SelectError, SelectLine, TypeOK, Rest, Handler, Reading,
                  WhyStopped, SilentEndIsWhole, ReaderGoneAfterEnd, ReadError
    <2> QED BY <2>4, <2>9, <2>10
  <1>4. CASE WriteLine
    <2>1. current \in Lines
      BY <1>4 DEF WriteLine, TypeOK, Rest, Handler, Lines
    <2>2. /\ written' \in Seq(Lines) /\ Len(written') = Len(written) + 1
          /\ Len(written) \in Nat /\ current' = 0
      BY <1>4, <2>1 DEF WriteLine, TypeOK
    <2>3. TypeOK'
      BY <1>4, <2>2, MaxLinesNat DEF WriteLine, TypeOK
    <2>4. One(current) = 1 /\ One(current') = 0 /\ One(hand') = One(hand) /\ Queued' = Queued
      BY <1>4, <2>1, <2>2, MaxLinesNat DEF WriteLine, One, Queued, Lines
    <2>5. Queued \in 0..1 /\ One(hand) \in 0..1
      BY DEF Queued, One
    <2>6. Account'
      BY <1>4, <2>2, <2>4, <2>5 DEF WriteLine, Account
    <2>7. Rest'
      BY <1>4 DEF WriteLine, TypeOK, Rest, Handler, Reading,
                  WhyStopped, SilentEndIsWhole, ReaderGoneAfterEnd, ReadError
    <2> QED BY <2>3, <2>6, <2>7
  <1>5. CASE SendEvent
    <2>1. TypeOK'
      BY <1>5, MaxLinesNat DEF SendEvent, TypeOK
    <2>2. Account'
      BY <1>5 DEF SendEvent, Account, One, Queued
    <2>3. Rest'
      BY <1>5 DEF SendEvent, TypeOK, Rest, Handler, Reading,
                  WhyStopped, SilentEndIsWhole, ReaderGoneAfterEnd, ReadError
    <2> QED BY <2>1, <2>2, <2>3
  <1> QED BY <1>1, <1>2, <1>3, <1>4, <1>5 DEF Select, Write

LEMMA ReaderKeepsIInv == ASSUME IInv, Reader PROVE IInv'
  <1> USE DEF IInv, Leave, mainVars, readerVars, chanVars, worldVars
  <1>1. CASE Scan
    <2>1. hand = 0 /\ nread \in Nat /\ hand' = nread + 1 /\ nread' = nread + 1
      BY <1>1, MaxLinesNat DEF Scan, TypeOK, Rest, Reading
    <2>2. TypeOK'
      BY <1>1, <2>1, MaxLinesNat DEF Scan, TypeOK
    <2>3. /\ One(hand) = 0 /\ One(hand') = 1 /\ Queued' = Queued
          /\ One(current') = One(current) /\ Len(written') = Len(written)
      BY <1>1, <2>1 DEF Scan, One, Queued
    <2>4. Queued \in 0..1 /\ One(current) \in 0..1 /\ Len(written) \in Nat
      BY DEF Queued, One, TypeOK
    <2>5. Account'
      BY <2>1, <2>3, <2>4 DEF Account
    <2>6. Rest'
      BY <1>1 DEF Scan, TypeOK, Rest, Handler, Reading,
                  WhyStopped, SilentEndIsWhole, ReaderGoneAfterEnd, ReadError
    <2> QED BY <2>2, <2>5, <2>6
  <1>2. CASE ScanFails
    <2>1. TypeOK'
      BY <1>2, MaxLinesNat DEF ScanFails, TypeOK, ReadError
    <2>2. Account'
      BY <1>2 DEF ScanFails, Rest, Reading, Account, One, Queued, ReadError
    <2>3. Rest'
      BY <1>2 DEF ScanFails, TypeOK, Rest, Handler, Reading,
                  WhyStopped, SilentEndIsWhole, ReaderGoneAfterEnd, ReadError
    <2> QED BY <2>1, <2>2, <2>3
  <1>3. CASE ScanEnds
    <2>1. TypeOK'
      BY <1>3, MaxLinesNat DEF ScanEnds, TypeOK
    <2>2. Account'
      BY <1>3 DEF ScanEnds, Account, One, Queued
    <2>3. Rest'
      BY <1>3 DEF ScanEnds, TypeOK, Rest, Handler, Reading,
                  WhyStopped, SilentEndIsWhole, ReaderGoneAfterEnd, ReadError
    <2> QED BY <2>1, <2>2, <2>3
  <1>4. CASE Send
    <2>1. Len(lineCh) = 0 /\ hand \in Line
      BY <1>4 DEF Send, TypeOK, ChanCap, Line
    <2>2. lineCh = <<>>
      BY <2>1, ChannelCases
    <2>3. lineCh' = <<hand>> /\ hand' = 0
      BY <1>4, <2>2 DEF Send
    <2>4. lineCh' # <<>> /\ Head(lineCh') = hand /\ Len(lineCh') = 1 /\ lineCh' \in Seq(Line)
      BY <2>1, <2>3
    <2>5. TypeOK'
      BY <1>4, <2>3, <2>4, MaxLinesNat DEF Send, TypeOK, ChanCap, Line
    <2>6. Queued = 0 /\ Queued' = One(hand) /\ One(hand') = 0
      BY <2>2, <2>3, <2>4 DEF Queued, One
    <2>7. Account'
      BY <1>4, <2>6 DEF Send, TypeOK, Account, One
    <2>8. Rest'
      BY <1>4, <2>2, <2>3, <2>4 DEF Send, TypeOK, Rest, Handler, Reading,
                  WhyStopped, SilentEndIsWhole, ReaderGoneAfterEnd, ReadError
    <2> QED BY <2>5, <2>7, <2>8
  <1>5. CASE CloseChannel
    <2>1. TypeOK'
      BY <1>5, MaxLinesNat DEF CloseChannel, TypeOK
    <2>2. Account'
      BY <1>5 DEF CloseChannel, Account, One, Queued
    <2>3. Rest'
      BY <1>5 DEF CloseChannel, TypeOK, Rest, Handler, Reading,
                  WhyStopped, SilentEndIsWhole, ReaderGoneAfterEnd, ReadError
    <2> QED BY <2>1, <2>2, <2>3
  <1> QED BY <1>1, <1>2, <1>3, <1>4, <1>5 DEF Reader

LEMMA StutterKeepsIInv == ASSUME IInv, UNCHANGED vars PROVE IInv'
  <1> USE DEF IInv, vars, mainVars, readerVars, chanVars, worldVars
  <1>1. TypeOK'
    BY DEF TypeOK
  <1>2. Account'
    BY DEF Account, One, Queued
  <1>3. Rest'
    BY DEF Rest, Handler, Reading,
                  WhyStopped, SilentEndIsWhole, ReaderGoneAfterEnd, ReadError
  <1> QED BY <1>1, <1>2, <1>3

LEMMA Inductive == Spec => []IInv
  <1>1. IInv /\ [Next]_vars => IInv'
    BY WorldKeepsIInv, OutsideKeepsIInv, LoopKeepsIInv, ReaderKeepsIInv, StutterKeepsIInv
       DEF Next, Main
  <1> QED BY InitIInv, <1>1, PTL DEF Spec

----------------------------------------------------------------------------
\* Every variable keeps its type: the reader never counts past what was sent,
\* and the channel never holds more than one element (sse.go:148-160).
THEOREM TypeCorrect == Spec => []TypeOK
  <1>1. IInv => TypeOK BY DEF IInv
  <1> QED BY Inductive, <1>1, PTL

\* The backend's body is open only while the handler holds its slot
\* (sse.go:63, 108).
THEOREM SlotCorrect == Spec => []SlotCoversBackend
  <1>1. IInv => SlotCoversBackend BY DEF IInv, Rest, Handler, SlotCoversBackend
  <1> QED BY Inductive, <1>1, PTL

\* At most three lines are between the backend and the client, however long
\* the stream (sse.go:148).
THEOREM ReadAheadCorrect == Spec => []BoundedReadAhead
  <1>1. IInv => BoundedReadAhead
    <2> SUFFICES ASSUME IInv PROVE nread - Len(written) <= 3 BY DEF BoundedReadAhead
    <2>1. One(current) \in 0..1 /\ Queued \in 0..1 /\ One(hand) \in 0..1
      BY DEF One, Queued
    <2>2. Len(written) \in Nat /\ nread \in Int
      BY DEF IInv, TypeOK
    <2> QED BY <2>1, <2>2 DEF IInv, Account
  <1> QED BY Inductive, <1>1, PTL

\* A stream that ends without an error event is the backend's whole stream
\* (sse.go:157-159, 188-195).
THEOREM SilentEndCorrect == Spec => []SilentEndIsWhole
  <1>1. IInv => SilentEndIsWhole BY DEF IInv, Rest
  <1> QED BY Inductive, <1>1, PTL

\* No reader is left behind by a stream that ended through the channel
\* (sse.go:149-160, 188-200).
THEOREM ReaderCorrect == Spec => []ReaderGoneAfterEnd
  <1>1. IInv => ReaderGoneAfterEnd BY DEF IInv, Rest
  <1> QED BY Inductive, <1>1, PTL

----------------------------------------------------------------------------
(* The order of the lines *)

\* Which line is where.
Order ==
    /\ \A i \in 1..Len(written) : written[i] = i
    /\ current # 0 => current = Len(written) + 1
    /\ lineCh # <<>> /\ Head(lineCh) # 0 => Head(lineCh) = Len(written) + One(current) + 1
    /\ hand # 0 => hand = nread

LEMMA SendKeepsOrder == ASSUME IInv, Order, Send PROVE Order'
  <1>1. /\ UNCHANGED <<written, current, nread>> /\ hand' = 0
        /\ lineCh' = Append(lineCh, hand) /\ Len(lineCh) < 1
    BY DEF Send, mainVars, ChanCap
  <1>2. lineCh = <<>>
    BY <1>1, ChannelCases DEF IInv
  <1>3. lineCh' = <<hand>> /\ Head(lineCh') = hand /\ Queued = 0
    BY <1>1, <1>2 DEF Queued
  <1>4. hand # 0 => hand = Len(written) + One(current) + 1
    <2> SUFFICES ASSUME hand # 0 PROVE hand = Len(written) + One(current) + 1 OBVIOUS
    <2>1. hand = nread /\ One(hand) = 1 /\ One(current) \in 0..1 /\ Len(written) \in Nat
      BY DEF Order, One, IInv, TypeOK
    <2> QED BY <2>1, <1>3 DEF IInv, Account
  <1>5. \A i \in 1..Len(written') : written'[i] = i
    BY <1>1 DEF Order
  <1> QED BY <1>1, <1>3, <1>4, <1>5 DEF Order, One

LEMMA WriteKeepsOrder == ASSUME IInv, Order, WriteLine PROVE Order'
  <1>1. /\ UNCHANGED <<lineCh, nread, hand>> /\ current' = 0 /\ written' = Append(written, current)
        /\ current \in Lines /\ current # 0
    BY DEF WriteLine, IInv, TypeOK, Rest, Handler, Lines, readerVars, chanVars
  <1>2. /\ written \in Seq(Lines) /\ Len(written) \in Nat /\ Len(written') = Len(written) + 1
        /\ \A i \in 1..Len(written) : written'[i] = written[i]
        /\ written'[Len(written) + 1] = current
    BY <1>1, AppendProperties DEF IInv, TypeOK
  <1>3. \A i \in 1..Len(written') : written'[i] = i
    <2> SUFFICES ASSUME NEW i \in 1..Len(written') PROVE written'[i] = i OBVIOUS
    <2>1. CASE i \in 1..Len(written)
      BY <1>2, <2>1 DEF Order
    <2>2. CASE i = Len(written) + 1
      BY <1>1, <1>2, <2>2 DEF Order
    <2> QED BY <1>2, <2>1, <2>2
  <1>4. One(current) = 1 /\ One(current') = 0
    BY <1>1 DEF One
  <1> QED BY <1>1, <1>2, <1>3, <1>4 DEF Order

LEMMA SelectKeepsOrder == ASSUME IInv, Order, SelectError \/ SelectLine PROVE Order'
  <1>1. PICK x \in Line : lineCh = <<x>>
    BY ChannelCases DEF SelectError, SelectLine, IInv
  <1>2. lineCh' = <<>> /\ Head(lineCh) = x /\ lineCh # <<>>
    BY <1>1 DEF SelectError, SelectLine
  <1>3. UNCHANGED <<written, nread, hand>> /\ current = 0 /\ One(current) = 0
    BY DEF SelectError, SelectLine, Leave, readerVars, IInv, Rest, Handler, One
  <1>4. current' # 0 => current' = Len(written) + 1
    BY <1>2, <1>3 DEF SelectError, SelectLine, Leave, Order, IInv, TypeOK
  <1>5. \A i \in 1..Len(written') : written'[i] = i
    BY <1>3 DEF Order
  <1> QED BY <1>2, <1>3, <1>4, <1>5 DEF Order

LEMMA ScanKeepsOrder == ASSUME IInv, Order, Scan \/ ScanFails PROVE Order'
  <1>1. UNCHANGED <<written, current, lineCh>> /\ (hand' = 0 \/ hand' = nread')
    BY DEF Scan, ScanFails, mainVars, chanVars, ReadError
  <1>2. \A i \in 1..Len(written') : written'[i] = i
    BY <1>1 DEF Order
  <1> QED BY <1>1, <1>2 DEF Order, One

LEMMA OrderKept == ASSUME IInv, Order, [Next]_vars PROVE Order'
  <1>1. CASE Send BY <1>1, SendKeepsOrder
  <1>2. CASE WriteLine BY <1>2, WriteKeepsOrder
  <1>3. CASE SelectError \/ SelectLine BY <1>3, SelectKeepsOrder
  <1>4. CASE Scan \/ ScanFails BY <1>4, ScanKeepsOrder
  <1>5. CASE UNCHANGED <<written, current, lineCh, hand, nread>>
    <2>1. \A i \in 1..Len(written') : written'[i] = i
      BY <1>5 DEF Order
    <2> QED BY <1>5, <2>1 DEF Order, One
  <1>6. \/ Send \/ WriteLine \/ SelectError \/ SelectLine \/ Scan \/ ScanFails
        \/ UNCHANGED <<written, current, lineCh, hand, nread>>
    BY DEF Next, Main, Select, Deferred, Reader, World, vars, mainVars, readerVars, chanVars,
           worldVars, ClientLeaves, ClientStalls, ClientResumes, BackendSends, BackendStops,
           TimerFires, Acquire, RequestFails, NoFlusher, RequestSucceeds, Write, SendEvent, CloseBody, ReleaseSlot, SelectDone, SelectIdle, SelectEnd, Leave,
           ScanEnds, CloseChannel
  <1> QED BY <1>1, <1>2, <1>3, <1>4, <1>5, <1>6

\* The first n lines, and the next one appended to them.
UpTo(n) == [i \in 1..n |-> i]

LEMMA NextLine ==
    ASSUME NEW n \in Nat, NEW i \in Nat, i = 0 \/ i = n + 1
    PROVE  UpTo(n) \o LineIn(i) = UpTo(n + One(i)) /\ UpTo(n) \in Seq(Nat)
  <1>1. UpTo(n) \in Seq(Nat) /\ Len(UpTo(n)) = n
    BY DEF UpTo
  <1>2. CASE i = 0
    BY <1>1, <1>2, ConcatEmptySeq DEF LineIn, One
  <1>3. CASE i = n + 1 /\ i # 0
    <2>1. LineIn(i) = <<n + 1>> /\ One(i) = 1
      BY <1>3 DEF LineIn, One
    <2>2. UpTo(n + 1) \in Seq(Nat) /\ Len(UpTo(n + 1)) = n + 1
      BY DEF UpTo
    <2>3. <<n + 1>> \in Seq(Nat) /\ Len(<<n + 1>>) = 1
      OBVIOUS
    <2>4. /\ UpTo(n) \o <<n + 1>> \in Seq(Nat) /\ Len(UpTo(n) \o <<n + 1>>) = n + 1
          /\ \A j \in 1..(n + 1) : (UpTo(n) \o <<n + 1>>)[j] =
                IF j <= n THEN UpTo(n)[j] ELSE <<n + 1>>[j - n]
      BY <1>1, <2>3, ConcatProperties
    <2>5. \A j \in 1..(n + 1) : (UpTo(n) \o <<n + 1>>)[j] = UpTo(n + 1)[j]
      BY <2>4 DEF UpTo
    <2>6. UpTo(n) \o <<n + 1>> = UpTo(n + 1)
      BY <2>2, <2>4, <2>5, SeqEqual
    <2> QED BY <1>1, <2>1, <2>6
  <1> QED BY <1>2, <1>3

LEMMA OrderMeansInOrder == ASSUME IInv, Order PROVE LinesInOrder
  <1>1. /\ written \in Seq(Nat) /\ Len(written) \in Nat /\ current \in Nat /\ hand \in Nat
        /\ nread \in Nat /\ InChannel \in Nat
    <2>1. written \in Seq(Nat)
      <3>1. written \in Seq(Lines)
        BY DEF IInv, TypeOK
      <3>2. Lines \subseteq Nat
        BY MaxLinesNat DEF Lines
      <3> QED BY <3>1, <3>2, SeqMonotonic, Zenon
    <2>2. InChannel \in Nat
      <3>1. lineCh # <<>> => \E x \in Line : lineCh = <<x>> /\ Head(lineCh) = x
        BY ChannelCases DEF IInv
      <3> QED BY <3>1, MaxLinesNat DEF InChannel, Line
    <2> QED BY <2>1, <2>2, MaxLinesNat DEF IInv, TypeOK
  <1> DEFINE n == Len(written)
             a == LineIn(current)
             b == LineIn(InChannel)
             c == LineIn(hand)
             m == n + One(current)
             k == m + One(InChannel)
  <1>2. Queued = One(InChannel)
    BY DEF Queued, InChannel, One
  <1>3. m \in Nat /\ k \in Nat /\ nread = k + One(hand)
    <2>1. One(current) \in Nat /\ One(InChannel) \in Nat /\ One(hand) \in Nat
      BY DEF One
    <2>2. nread = n + One(current) + One(InChannel) + One(hand)
      BY <1>2 DEF IInv, Account
    <2> QED BY <1>1, <2>1, <2>2
  <1>4. current = 0 \/ current = n + 1
    BY DEF Order
  <1>5. InChannel = 0 \/ InChannel = m + 1
    BY DEF Order, InChannel
  <1>6. hand = 0 \/ hand = k + 1
    BY <1>1, <1>3 DEF Order, One
  <1>7. written = UpTo(n)
    <2>1. UpTo(n) \in Seq(Nat) /\ Len(UpTo(n)) = n /\ \A i \in 1..n : UpTo(n)[i] = i
      BY <1>1 DEF UpTo
    <2> QED BY <1>1, <2>1, SeqEqual DEF Order
  <1>8. /\ UpTo(n) \o a = UpTo(m) /\ UpTo(m) \o b = UpTo(k) /\ UpTo(k) \o c = UpTo(nread)
        /\ UpTo(n) \in Seq(Nat) /\ UpTo(m) \in Seq(Nat) /\ UpTo(k) \in Seq(Nat)
    BY <1>1, <1>3, <1>4, <1>5, <1>6, NextLine
  <1> QED BY <1>7, <1>8 DEF LinesInOrder, UpTo

\* What was scanned reaches the client complete, once, and in order: the lines
\* written and those still on their way are always the first nread lines of
\* the backend (sse.go:150-160, 188-209).
THEOREM OrderCorrect == Spec => []LinesInOrder
  <1>1. Init => Order
    BY DEF Init, Order
  <1>2. IInv /\ Order /\ [Next]_vars => Order'
    BY OrderKept
  <1>3. IInv /\ Order => LinesInOrder
    BY OrderMeansInOrder
  <1> QED BY Inductive, <1>1, <1>2, <1>3, PTL DEF Spec
----------------------------------------------------------------------------
(* The relay that SSEStream implements *)

\* What the refinement needs to know besides IInv and Order: before the
\* backend answers nothing has been sent; the loop waits with the body open
\* and the slot held; and a read error on its way to the loop has a cause
\* outside the gateway.
Begun ==
    /\ slot <=> main \notin {"start", "returned"}
    /\ main \in {"start", "request"} => sent = 0 /\ ~bodyOpen
    /\ main \in {"select", "writing"} => bodyOpen
    /\ main \in {"notifying", "closing", "releasing", "returned"} => result # "none"
    /\ nread <= sent

Blame ==
    /\ main \in {"select", "writing"} =>
        /\ reader = "send" /\ hand = ReadError => backend = "broken" \/ client = "gone"
        /\ lineCh # <<>> /\ Head(lineCh) = ReadError => backend = "broken" \/ client = "gone"
    /\ main = "notifying" /\ result = "backendError" => backend = "broken" \/ client = "gone"

LEMMA BegunKept == ASSUME IInv, Begun, [Next]_vars PROVE Begun'
  <1> USE DEF Begun, mainVars, readerVars, chanVars, worldVars, Leave
  <1>1. CASE World
    BY <1>1 DEF World, ClientLeaves, ClientStalls, ClientResumes, BackendSends, BackendStops, TimerFires, IInv, TypeOK
  <1>2. CASE Acquire \/ RequestFails \/ NoFlusher \/ RequestSucceeds \/ Write \/ Deferred
    BY <1>2 DEF Acquire, RequestFails, NoFlusher, RequestSucceeds, Write, WriteLine, SendEvent,
                Deferred, CloseBody, ReleaseSlot
  <1>3. CASE Select
    BY <1>3 DEF Select, SelectDone, SelectIdle, SelectError, SelectEnd, SelectLine
  <1>4. CASE Reader
    BY <1>4 DEF Reader, Scan, ScanFails, ScanEnds, Send, CloseChannel, IInv, TypeOK
  <1>5. CASE UNCHANGED vars
    BY <1>5 DEF vars
  <1> QED BY <1>1, <1>2, <1>3, <1>4, <1>5 DEF Next, Main

LEMMA BlameKept == ASSUME IInv, Begun, Blame, [Next]_vars PROVE Blame'
  <1> USE DEF Blame, mainVars, readerVars, chanVars, worldVars, Leave
  <1>1. CASE World
    BY <1>1 DEF World, ClientLeaves, ClientStalls, ClientResumes, BackendSends, BackendStops, TimerFires
  <1>2. CASE Acquire \/ RequestFails \/ NoFlusher \/ Deferred
    BY <1>2 DEF Acquire, RequestFails, NoFlusher, Deferred, CloseBody, ReleaseSlot
  <1>3. CASE RequestSucceeds
    BY <1>3 DEF RequestSucceeds, IInv, Rest, Reading
  <1>4. CASE Write
    BY <1>4 DEF Write, WriteLine, SendEvent
  <1>5. CASE SelectDone \/ SelectIdle \/ SelectError \/ SelectEnd
    BY <1>5 DEF SelectDone, SelectIdle, SelectError, SelectEnd
  <1>6. CASE SelectLine
    <2>1. PICK x \in Line : lineCh = <<x>>
      BY <1>6, ChannelCases DEF SelectLine, IInv
    <2>2. lineCh' = <<>>
      BY <1>6, <2>1 DEF SelectLine
    <2> QED BY <1>6, <2>2 DEF SelectLine
  <1>7. CASE Scan
    BY <1>7 DEF Scan, IInv, TypeOK, ReadError
  <1>8. CASE ScanFails
    BY <1>8 DEF ScanFails, Begun
  <1>9. CASE ScanEnds \/ CloseChannel
    BY <1>9 DEF ScanEnds, CloseChannel
  <1>10. CASE Send
    <2>1. lineCh = <<>>
      BY <1>10, ChannelCases DEF Send, ChanCap, IInv
    <2>2. lineCh' = <<hand>> /\ Head(lineCh') = hand
      BY <1>10, <2>1 DEF Send
    <2> QED BY <1>10, <2>2 DEF Send
  <1>11. CASE UNCHANGED vars
    BY <1>11 DEF vars
  <1> QED
    BY <1>1, <1>2, <1>3, <1>4, <1>5, <1>6, <1>7, <1>8, <1>9, <1>10, <1>11
       DEF Next, Main, Select, Reader

\* A line is written: it is the next one the backend has sent.
LEMMA WriteDelivers == ASSUME IInv, Order, Begun, WriteLine PROVE Relay!Deliver
  <1>1. /\ result = "none" /\ slot /\ current # 0 /\ current = Len(written) + 1
        /\ written' = Append(written, current)
    BY DEF WriteLine, IInv, Rest, Handler, Order
  <1>2. Len(written) < sent
    <2>1. One(current) = 1 /\ Queued \in 0..1 /\ One(hand) \in 0..1
      BY <1>1 DEF One, Queued
    <2>2. Len(written) \in Nat /\ nread \in Nat /\ sent \in Nat /\ nread <= sent
      BY MaxLinesNat DEF IInv, TypeOK, Begun
    <2> QED BY <2>1, <2>2 DEF IInv, Account
  <1> QED BY <1>1, <1>2 DEF Relay!Deliver, WriteLine, worldVars

\* The loop ends in silence for a reason the relay gives too; with an error
\* the relay ends when the event is sent.
LEMMA SelectEnds ==
    ASSUME IInv, IInv', Begun, SelectDone \/ SelectEnd
    PROVE  Relay!Abandon \/ Relay!Complete
  <1> USE DEF Leave, worldVars, readerVars, chanVars, Relay!End
  <1>1. slot /\ result = "none" /\ errorSent = "none" /\ main = "select"
    BY DEF SelectDone, SelectEnd, IInv, Rest, Handler
  <1>2. CASE SelectDone
    BY <1>1, <1>2 DEF SelectDone, Relay!Abandon
  <1>3. CASE SelectEnd
    <2>1. backend = "ended" /\ Len(written) = sent
      BY <1>3 DEF SelectEnd, IInv, Rest, SilentEndIsWhole
    <2> QED BY <1>1, <1>3, <2>1 DEF SelectEnd, Relay!Complete
  <1> QED BY <1>2, <1>3

LEMMA EventEnds ==
    ASSUME IInv, Begun, Blame, SendEvent PROVE Relay!TimeOut \/ Relay!Interrupt
  <1> USE DEF worldVars, readerVars, chanVars, SendEvent, Relay!End
  <1>1. slot /\ result \in {"idle", "backendError"} /\ errorSent = "none" /\ main = "notifying"
    BY DEF IInv, Rest, Handler
  <1>2. CASE result = "idle"
    BY <1>1, <1>2 DEF Relay!TimeOut
  <1>3. CASE result = "backendError"
    <2>1. backend = "broken" \/ client = "gone"
      BY <1>1, <1>3 DEF Blame
    <2> QED BY <1>1, <1>3, <2>1 DEF Relay!Interrupt
  <1> QED BY <1>1, <1>2, <1>3

\* One step of the two goroutines, the client or the backend is one step of
\* the relay, or none.
LEMMA NextIsRelay ==
    ASSUME IInv, IInv', Order, Begun, Blame, [Next]_vars
    PROVE  [Relay!Next]_(Relay!relayVars)
  <1> USE DEF mainVars, readerVars, chanVars, worldVars, Relay!relayVars
  <1>1. CASE World
    <2>1. (BackendSends => Relay!Send) /\ (BackendStops => Relay!Stop)
      BY DEF BackendSends, BackendStops, Relay!Send, Relay!Stop, IInv, Rest, Handler
    <2>2. ClientLeaves => Relay!Leave
      BY DEF ClientLeaves, Relay!Leave
    <2>3. ClientStalls \/ ClientResumes \/ TimerFires => UNCHANGED Relay!relayVars
      BY DEF ClientStalls, ClientResumes, TimerFires
    <2> QED BY <1>1, <2>1, <2>2, <2>3 DEF World, Relay!Next
  <1>2. CASE Acquire
    <2>1. ~slot /\ result = "none" /\ errorSent = "none"
      BY <1>2 DEF Acquire, Begun, IInv, Rest, Handler
    <2>2. Relay!Grant \/ Relay!Refuse
      BY <1>2, <2>1 DEF Acquire, Relay!Grant, Relay!Refuse, Relay!End
    <2> QED BY <2>2 DEF Relay!Next
  <1>3. CASE RequestFails \/ NoFlusher
    <2>1. slot /\ sent = 0 /\ result = "none" /\ errorSent = "none"
      BY <1>3 DEF RequestFails, NoFlusher, Begun, IInv, Rest, Handler
    <2> QED BY <1>3, <2>1 DEF RequestFails, NoFlusher, Relay!Next, Relay!Fail, Relay!End
  <1>4. CASE RequestSucceeds \/ SelectLine \/ SelectIdle \/ SelectError \/ CloseBody
    <2>1. main # "notifying"
      BY <1>4 DEF RequestSucceeds, SelectLine, SelectIdle, SelectError, CloseBody
    <2>2. SelectIdle \/ SelectError => result = "none"
      BY DEF SelectIdle, SelectError, IInv, Rest, Handler
    <2> QED BY <1>4, <2>1, <2>2 DEF RequestSucceeds, SelectLine, SelectIdle, SelectError, CloseBody, Leave
  <1>5. CASE WriteLine
    BY <1>5, WriteDelivers DEF Relay!Next
  <1>6. CASE SelectDone \/ SelectEnd
    BY <1>6, SelectEnds DEF Relay!Next
  <1>10. CASE SendEvent
    BY <1>10, EventEnds DEF Relay!Next
  <1>7. CASE ReleaseSlot
    BY <1>7 DEF ReleaseSlot, Begun, Relay!Next, Relay!Return
  <1>8. CASE Reader
    BY <1>8 DEF Reader, Scan, ScanFails, ScanEnds, Send, CloseChannel
  <1>9. CASE UNCHANGED vars
    BY <1>9 DEF vars
  <1> QED
    BY <1>1, <1>2, <1>3, <1>4, <1>5, <1>6, <1>7, <1>8, <1>9, <1>10
       DEF Next, Main, Select, Write, Deferred

\* Two goroutines with a channel, a timer and deferred calls between them are
\* a relay without memory, whatever the length of the stream: the client gets
\* the beginning of what was sent, an error event only as the last thing, and
\* the slot is held from the first call to the backend to the end of the
\* stream (sse.go:57-227).
THEOREM StreamImplementsRelay == Spec => RelaySpec
  <1>1. Init => Order /\ Begun /\ Blame
    BY DEF Init, Order, Begun, Blame
  <1>2. IInv /\ Order /\ Begun /\ Blame /\ [Next]_vars => Order' /\ Begun' /\ Blame'
    BY OrderKept, BegunKept, BlameKept
  <1>3. Init => Relay!Init
    BY DEF Init, Relay!Init
  <1>4. IInv /\ IInv' /\ Order /\ Begun /\ Blame /\ [Next]_vars => [Relay!Next]_(Relay!relayVars)
    BY NextIsRelay
  <1> QED BY Inductive, <1>1, <1>2, <1>3, <1>4, PTL DEF Spec, RelaySpec, Relay!Spec
=============================================================================
