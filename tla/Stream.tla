------------------------------- MODULE Stream -------------------------------
(***************************************************************************)
(* An established stream of pkg/multiplexing (stream.go), with the parts   *)
(* of the two multiplexers that serve it: the goroutines that read the     *)
(* carrier and the ones that accumulate and send updates.                  *)
(*                                                                         *)
(* At each end one goroutine calls Write, one calls Read, and others call  *)
(* CloseWrite, Close and the deadline setters.  The bytes that an end      *)
(* writes are 1, 2, 3 and so on.  The write buffers are shared with other  *)
(* streams: a call that needs one waits, and gets one in the end.  Other   *)
(* streams fill buffers as well, so an update may have to wait for another.*)
(***************************************************************************)
EXTENDS Integers, Sequences

CONSTANTS Window,     \* StreamReceiveWindow
          Block,      \* maximumStreamDataBlockSize
          Data,       \* Data[e]: how many bytes are written at end e at most
          Sizes,      \* the lengths of the buffers passed to Read
          Deadlines,  \* the kinds of deadlines that are set
          MayClose,   \* the ends at which CloseWrite and Close are called
          MayFail     \* whether a multiplexer may be closed

Ends == {"a", "b"}
Other(e) == IF e = "a" THEN "b" ELSE "a"

ASSUME StreamAssumption ==
    /\ Window \in Nat
    /\ Block \in Nat \ {0}
    /\ Data \in [Ends -> Nat]
    /\ Sizes \subseteq Nat
    /\ Deadlines \subseteq {"zero", "past", "future"}
    /\ MayClose \subseteq Ends
    /\ MayFail \in BOOLEAN

VARIABLES
    writer, left,        \* where Write is, and how much it has left to write
    written,             \* how many bytes were encoded in messages
    writeTimer,          \* who has the write deadline timer
    writeDeadline,       \* the state of that timer
    writeExpired,        \* writeDeadlineExpired
    sendWindow, sendReady,
    reader, size,        \* where Read is, and its buffer length, later its result
    got,                 \* every byte that Read returned
    readTimer, readDeadline, readExpired,
    buffer, receiveReady,
    eof,                 \* whether Read has returned io.EOF
    writeClose,          \* where closeWrite is
    halfClosed,          \* whether a close write message is to be sent
    close,               \* where close is
    updates,             \* what the enqueue goroutine has to send
    remoteClosedWrite, remoteClosed,
    wire,                \* the messages sent by an end and not yet received
    failure,             \* the protocol error found by the reader goroutine
    closed               \* whether the multiplexer of an end is closed

writeVars == <<writer, left, written, writeTimer, writeDeadline, writeExpired>>
windowVars == <<sendWindow, sendReady>>
readVars == <<reader, size, got, readTimer, readDeadline, readExpired, eof>>
bufferVars == <<buffer, receiveReady>>
closeVars == <<writeClose, halfClosed, close>>
remoteVars == <<remoteClosedWrite, remoteClosed>>
muxVars == <<failure, closed>>
vars == <<writeVars, windowVars, readVars, bufferVars, closeVars, updates, remoteVars, wire, muxVars>>

(* The updates of an end: whether a window increment, a close write or a   *)
(* close message is due, and the amount of the increment.                  *)
NoUpdates == [increment |-> FALSE, amount |-> 0, closeWrite |-> FALSE, close |-> FALSE]

DataMessage(bytes) == [kind |-> "data", bytes |-> bytes]
IncrementMessage(amount) == [kind |-> "increment", amount |-> amount]
CloseWriteMessage == [kind |-> "closeWrite"]
CloseMessage == [kind |-> "close"]

(* Messages queued after the multiplexer was closed are never sent. *)
Send(e, messages) ==
    wire' = IF closed[e] THEN wire ELSE [wire EXCEPT ![e] = @ \o messages]

(* A signal is put into a channel that holds one: a second put would block *)
(* a goroutine that holds a lock.                                          *)
Signal(ready, after, e) == ~ready[e] /\ after = [ready EXCEPT ![e] = TRUE]

Minimum(m, n) == IF m < n THEN m ELSE n

(* The channels of the stream, by what close and closeWrite have done. *)
ClosedWrite(e) == writeClose[e] # "open"
Closed(e) == close[e] \in {"waiting", "queueing", "deregistering", "done"}
Registered(e) == close[e] # "done"

Init ==
    /\ writer = [e \in Ends |-> "idle"] /\ left = [e \in Ends |-> 0]
    /\ written = [e \in Ends |-> 0]
    /\ writeTimer = [e \in Ends |-> "free"]
    /\ writeDeadline = [e \in Ends |-> "none"] /\ writeExpired = [e \in Ends |-> FALSE]
    /\ sendWindow = [e \in Ends |-> Window] /\ sendReady = [e \in Ends |-> Window > 0]
    /\ reader = [e \in Ends |-> "idle"] /\ size = [e \in Ends |-> 0]
    /\ got = [e \in Ends |-> <<>>]
    /\ readTimer = [e \in Ends |-> "free"]
    /\ readDeadline = [e \in Ends |-> "none"] /\ readExpired = [e \in Ends |-> FALSE]
    /\ buffer = [e \in Ends |-> <<>>] /\ receiveReady = [e \in Ends |-> FALSE]
    /\ eof = [e \in Ends |-> FALSE]
    /\ writeClose = [e \in Ends |-> "open"] /\ halfClosed = [e \in Ends |-> FALSE]
    /\ close = [e \in Ends |-> "open"]
    /\ updates = [e \in Ends |-> NoUpdates]
    /\ remoteClosedWrite = [e \in Ends |-> FALSE] /\ remoteClosed = [e \in Ends |-> FALSE]
    /\ wire = [e \in Ends |-> <<>>]
    /\ failure = [e \in Ends |-> "none"] /\ closed = [e \in Ends |-> FALSE]

-----------------------------------------------------------------------------
(* Write. *)

(* Write returns and the timer is back in circulation. *)
WriteReturn(e) ==
    /\ writer' = [writer EXCEPT ![e] = "idle"]
    /\ left' = [left EXCEPT ![e] = 0]
    /\ writeTimer' = [writeTimer EXCEPT ![e] = "free"]

(* Write is called and gets the timer; an expired deadline ends it there. *)
WriteCall(e, n) ==
    /\ writer[e] = "idle" /\ writeTimer[e] = "free"
    /\ ~Closed(e) /\ ~ClosedWrite(e) /\ ~closed[e] /\ ~remoteClosed[e]
    /\ IF writeExpired[e] \/ writeDeadline[e] = "fired"
       THEN /\ writeExpired' = [writeExpired EXCEPT ![e] = TRUE]
            /\ writeDeadline' = [writeDeadline EXCEPT ![e] = IF writeExpired[e] THEN @ ELSE "none"]
            /\ UNCHANGED <<writer, left, writeTimer>>
       ELSE /\ writer' = [writer EXCEPT ![e] = "window"]
            /\ left' = [left EXCEPT ![e] = n]
            /\ writeTimer' = [writeTimer EXCEPT ![e] = "held"]
            /\ UNCHANGED <<writeDeadline, writeExpired>>
    /\ UNCHANGED <<written, windowVars, readVars, bufferVars, closeVars, updates, remoteVars,
                   wire, muxVars>>

(* The send window is not zero; from now on Write also waits for a buffer. *)
WriteReady(e) ==
    /\ writer[e] = "window" /\ sendReady[e]
    /\ writer' = [writer EXCEPT ![e] = "buffer"]
    /\ sendReady' = [sendReady EXCEPT ![e] = FALSE]
    /\ UNCHANGED <<left, written, writeTimer, writeDeadline, writeExpired, sendWindow, readVars,
                   bufferVars, closeVars, updates, remoteVars, wire, muxVars>>

(* Mutant of WriteBlock: readiness is not signalled for what is left. *)
WriteBlockSilent(e) ==
    /\ writer[e] = "buffer"
    /\ LET window == Minimum(sendWindow[e], Minimum(left[e], Block))
       IN  /\ sendWindow' = [sendWindow EXCEPT ![e] = @ - window]
           /\ UNCHANGED sendReady
           /\ Send(e, <<DataMessage([i \in 1 .. window |-> written[e] + i])>>)
           /\ written' = [written EXCEPT ![e] = @ + window]
           /\ IF left[e] = window
              THEN WriteReturn(e)
              ELSE /\ left' = [left EXCEPT ![e] = @ - window]
                   /\ writer' = [writer EXCEPT ![e] = "window"]
                   /\ UNCHANGED writeTimer
    /\ UNCHANGED <<writeDeadline, writeExpired, readVars, bufferVars, closeVars, updates,
                   remoteVars, muxVars>>

(* Mutant of WriteBlock: the send window is ignored. *)
WriteBlockUnbounded(e) ==
    /\ writer[e] = "buffer"
    /\ LET window == Minimum(left[e], Block)
       IN  /\ sendWindow' = [sendWindow EXCEPT ![e] = @ - window]
           /\ IF sendWindow'[e] > 0 THEN Signal(sendReady, sendReady', e) ELSE UNCHANGED sendReady
           /\ Send(e, <<DataMessage([i \in 1 .. window |-> written[e] + i])>>)
           /\ written' = [written EXCEPT ![e] = @ + window]
           /\ IF left[e] = window
              THEN WriteReturn(e)
              ELSE /\ left' = [left EXCEPT ![e] = @ - window]
                   /\ writer' = [writer EXCEPT ![e] = "window"]
                   /\ UNCHANGED writeTimer
    /\ UNCHANGED <<writeDeadline, writeExpired, readVars, bufferVars, closeVars, updates,
                   remoteVars, muxVars>>

(* Write has a buffer and sends a block of what the window allows. *)
WriteBlock(e) ==
    /\ writer[e] = "buffer"
    /\ LET window == Minimum(sendWindow[e], Minimum(left[e], Block))
       IN  /\ sendWindow' = [sendWindow EXCEPT ![e] = @ - window]
           /\ IF sendWindow'[e] > 0 THEN Signal(sendReady, sendReady', e) ELSE UNCHANGED sendReady
           /\ Send(e, <<DataMessage([i \in 1 .. window |-> written[e] + i])>>)
           /\ written' = [written EXCEPT ![e] = @ + window]
           /\ IF left[e] = window
              THEN WriteReturn(e)
              ELSE /\ left' = [left EXCEPT ![e] = @ - window]
                   /\ writer' = [writer EXCEPT ![e] = "window"]
                   /\ UNCHANGED writeTimer
    /\ UNCHANGED <<writeDeadline, writeExpired, readVars, bufferVars, closeVars, updates,
                   remoteVars, muxVars>>

(* Mutant of WriteAbort: a closure by the remote is not noticed. *)
WriteAbortUnaware(e) ==
    /\ writer[e] # "idle"
    /\ Closed(e) \/ ClosedWrite(e) \/ closed[e]
    /\ WriteReturn(e)
    /\ UNCHANGED <<written, writeDeadline, writeExpired, windowVars, readVars, bufferVars,
                   closeVars, updates, remoteVars, wire, muxVars>>

(* Write gives up for good. *)
WriteAbort(e) ==
    /\ writer[e] # "idle"
    /\ Closed(e) \/ ClosedWrite(e) \/ closed[e] \/ remoteClosed[e]
    /\ WriteReturn(e)
    /\ UNCHANGED <<written, writeDeadline, writeExpired, windowVars, readVars, bufferVars,
                   closeVars, updates, remoteVars, wire, muxVars>>

(* Mutant of Resignal: the drained readiness signal is not restored. *)
ResignalNothing(e) == UNCHANGED sendReady

(* A deadline ends Write, which signals again what it had been signalled. *)
Resignal(e) ==
    IF writer[e] = "buffer" THEN Signal(sendReady, sendReady', e) ELSE UNCHANGED sendReady

WriteTimeout(e) ==
    /\ writer[e] # "idle" /\ writeDeadline[e] = "fired"
    /\ Resignal(e)
    /\ writeDeadline' = [writeDeadline EXCEPT ![e] = "none"]
    /\ writeExpired' = [writeExpired EXCEPT ![e] = TRUE]
    /\ WriteReturn(e)
    /\ UNCHANGED <<written, sendWindow, readVars, bufferVars, closeVars, updates, remoteVars,
                   wire, muxVars>>

-----------------------------------------------------------------------------
(* Deadlines. *)

(* setStreamDeadline: the timer is stopped and drained first. *)
TimerAfter(deadline) == IF deadline = "future" THEN "armed" ELSE "none"
ExpiredAfter(deadline, expired) ==
    CASE deadline = "zero" -> FALSE [] deadline = "past" -> TRUE [] deadline = "future" -> expired

(* The setter gets the timer, or hands the deadline to a Write that waits. *)
SetWriteDeadline(e, deadline) ==
    /\ writeTimer[e] # "gone"
    /\ writeDeadline' = [writeDeadline EXCEPT ![e] = TimerAfter(deadline)]
    /\ writeExpired' = [writeExpired EXCEPT ![e] = ExpiredAfter(deadline, @)]
    /\ IF writer[e] # "idle" /\ writeExpired'[e]
       THEN Resignal(e) /\ WriteReturn(e)
       ELSE UNCHANGED <<sendReady, writer, left, writeTimer>>
    /\ UNCHANGED <<written, sendWindow, readVars, bufferVars, closeVars, updates, remoteVars,
                   wire, muxVars>>

WriteDeadlineFires(e) ==
    /\ writeDeadline[e] = "armed"
    /\ writeDeadline' = [writeDeadline EXCEPT ![e] = "fired"]
    /\ UNCHANGED <<writer, left, written, writeTimer, writeExpired, windowVars, readVars, bufferVars,
                   closeVars, updates, remoteVars, wire, muxVars>>

(* A Read that is past its wait does not take deadlines any more. *)
SetReadDeadline(e, deadline) ==
    /\ readTimer[e] = "free" \/ reader[e] = "waiting"
    /\ readDeadline' = [readDeadline EXCEPT ![e] = TimerAfter(deadline)]
    /\ readExpired' = [readExpired EXCEPT ![e] = ExpiredAfter(deadline, @)]
    /\ IF reader[e] = "waiting" /\ readExpired'[e]
       THEN /\ reader' = [reader EXCEPT ![e] = "idle"]
            /\ readTimer' = [readTimer EXCEPT ![e] = "free"]
       ELSE UNCHANGED <<reader, readTimer>>
    /\ UNCHANGED <<writeVars, windowVars, size, got, eof, bufferVars, closeVars, updates, remoteVars,
                   wire, muxVars>>

ReadDeadlineFires(e) ==
    /\ readDeadline[e] = "armed"
    /\ readDeadline' = [readDeadline EXCEPT ![e] = "fired"]
    /\ UNCHANGED <<writeVars, windowVars, reader, size, got, readTimer, readExpired, eof, bufferVars,
                   closeVars, updates, remoteVars, wire, muxVars>>
-----------------------------------------------------------------------------
(* Read. *)

ReadReturn(e) ==
    /\ reader' = [reader EXCEPT ![e] = "idle"]
    /\ readTimer' = [readTimer EXCEPT ![e] = "free"]

(* Read is called and gets the timer; an expired deadline ends it there. *)
ReadCall(e, n) ==
    /\ reader[e] = "idle" /\ readTimer[e] = "free"
    /\ ~Closed(e) /\ ~closed[e]
    /\ IF readExpired[e] \/ readDeadline[e] = "fired"
       THEN /\ readExpired' = [readExpired EXCEPT ![e] = TRUE]
            /\ readDeadline' = [readDeadline EXCEPT ![e] = IF readExpired[e] THEN @ ELSE "none"]
            /\ UNCHANGED <<reader, size, readTimer>>
       ELSE /\ reader' = [reader EXCEPT ![e] = "waiting"]
            /\ size' = [size EXCEPT ![e] = n]
            /\ readTimer' = [readTimer EXCEPT ![e] = "held"]
            /\ UNCHANGED <<readDeadline, readExpired>>
    /\ UNCHANGED <<writeVars, windowVars, got, eof, bufferVars, closeVars, updates, remoteVars,
                   wire, muxVars>>

ReadReady(e) ==
    /\ reader[e] = "waiting" /\ receiveReady[e]
    /\ reader' = [reader EXCEPT ![e] = "ready"]
    /\ receiveReady' = [receiveReady EXCEPT ![e] = FALSE]
    /\ UNCHANGED <<writeVars, windowVars, size, got, readTimer, readDeadline, readExpired, eof, buffer,
                   closeVars, updates, remoteVars, wire, muxVars>>

(* Mutant of ReadEnd: buffered data is not looked for once more. *)
ReadEndEarly(e) ==
    /\ reader[e] = "waiting"
    /\ remoteClosedWrite[e] \/ remoteClosed[e]
    /\ eof' = [eof EXCEPT ![e] = TRUE]
    /\ ReadReturn(e)
    /\ UNCHANGED <<writeVars, windowVars, size, got, readDeadline, readExpired, bufferVars, closeVars,
                   updates, remoteVars, wire, muxVars>>

(* Read returns io.EOF: the remote has closed and no data is left. *)
ReadEnd(e) ==
    /\ reader[e] = "waiting"
    /\ remoteClosedWrite[e] \/ remoteClosed[e]
    /\ ~receiveReady[e]
    /\ eof' = [eof EXCEPT ![e] = TRUE]
    /\ ReadReturn(e)
    /\ UNCHANGED <<writeVars, windowVars, size, got, readDeadline, readExpired, bufferVars, closeVars,
                   updates, remoteVars, wire, muxVars>>

(* Mutant of ReadAbort: closure of the stream is not noticed. *)
ReadAbortUnaware(e) ==
    /\ reader[e] = "waiting" /\ closed[e]
    /\ ReadReturn(e)
    /\ UNCHANGED <<writeVars, windowVars, size, got, readDeadline, readExpired, eof, bufferVars,
                   closeVars, updates, remoteVars, wire, muxVars>>

ReadAbort(e) ==
    /\ reader[e] = "waiting" /\ (Closed(e) \/ closed[e])
    /\ ReadReturn(e)
    /\ UNCHANGED <<writeVars, windowVars, size, got, readDeadline, readExpired, eof, bufferVars,
                   closeVars, updates, remoteVars, wire, muxVars>>

ReadTimeout(e) ==
    /\ reader[e] = "waiting" /\ readDeadline[e] = "fired"
    /\ readDeadline' = [readDeadline EXCEPT ![e] = "none"]
    /\ readExpired' = [readExpired EXCEPT ![e] = TRUE]
    /\ ReadReturn(e)
    /\ UNCHANGED <<writeVars, windowVars, size, got, eof, bufferVars, closeVars, updates, remoteVars,
                   wire, muxVars>>

(* Mutant of ReadTake: what is read stays in the buffer. *)
ReadTakeCopy(e) ==
    /\ reader[e] = "ready"
    /\ LET count == Minimum(size[e], Len(buffer[e]))
       IN  /\ got' = [got EXCEPT ![e] = @ \o SubSeq(buffer[e], 1, count)]
           /\ size' = [size EXCEPT ![e] = count]
    /\ UNCHANGED buffer
    /\ Signal(receiveReady, receiveReady', e)
    /\ reader' = [reader EXCEPT ![e] = "crediting"]
    /\ UNCHANGED <<writeVars, windowVars, readTimer, readDeadline, readExpired, eof, closeVars, updates,
                   remoteVars, wire, muxVars>>

(* Mutant of ReadTake: the rest of the buffer is not signalled. *)
ReadTakeSilent(e) ==
    /\ reader[e] = "ready"
    /\ LET count == Minimum(size[e], Len(buffer[e]))
       IN  /\ got' = [got EXCEPT ![e] = @ \o SubSeq(buffer[e], 1, count)]
           /\ buffer' = [buffer EXCEPT ![e] = SubSeq(@, count + 1, Len(@))]
           /\ size' = [size EXCEPT ![e] = count]
    /\ UNCHANGED receiveReady
    /\ reader' = [reader EXCEPT ![e] = "crediting"]
    /\ UNCHANGED <<writeVars, windowVars, readTimer, readDeadline, readExpired, eof, closeVars, updates,
                   remoteVars, wire, muxVars>>

(* Data is taken from the buffer, and the rest of it is signalled. *)
ReadTake(e) ==
    /\ reader[e] = "ready"
    /\ LET count == Minimum(size[e], Len(buffer[e]))
       IN  /\ got' = [got EXCEPT ![e] = @ \o SubSeq(buffer[e], 1, count)]
           /\ buffer' = [buffer EXCEPT ![e] = SubSeq(@, count + 1, Len(@))]
           /\ size' = [size EXCEPT ![e] = count]
    /\ IF Len(buffer'[e]) > 0 THEN Signal(receiveReady, receiveReady', e) ELSE UNCHANGED receiveReady
    /\ reader' = [reader EXCEPT ![e] = "crediting"]
    /\ UNCHANGED <<writeVars, windowVars, readTimer, readDeadline, readExpired, eof, closeVars, updates,
                   remoteVars, wire, muxVars>>

(* The amount read is added to the window increment to be sent. *)
ReadCredit(e) ==
    /\ reader[e] = "crediting"
    /\ updates' = [updates EXCEPT ![e].increment = TRUE, ![e].amount = @ + size[e]]
    /\ ReadReturn(e)
    /\ UNCHANGED <<writeVars, windowVars, size, got, readDeadline, readExpired, eof, bufferVars, closeVars,
                   remoteVars, wire, muxVars>>

-----------------------------------------------------------------------------
(* Closure. *)

(* CloseWrite signals closure, once. *)
CloseWriteCall(e) ==
    /\ writeClose[e] = "open"
    /\ writeClose' = [writeClose EXCEPT ![e] = "waiting"]
    /\ halfClosed' = [halfClosed EXCEPT ![e] = TRUE]
    /\ UNCHANGED <<writeVars, windowVars, readVars, bufferVars, close, updates, remoteVars, wire, muxVars>>

(* Close begins with write closure without a message, unless there was one. *)
CloseCall(e) ==
    /\ close[e] = "open"
    /\ close' = [close EXCEPT ![e] = "writing"]
    /\ writeClose' = [writeClose EXCEPT ![e] = IF @ = "open" THEN "waiting" ELSE @]
    /\ UNCHANGED <<writeVars, windowVars, readVars, bufferVars, halfClosed, updates, remoteVars, wire,
                   muxVars>>

(* Mutant of WriteCloseWait: writers are not waited for. *)
WriteCloseAtOnce(e) ==
    /\ writeClose[e] = "waiting"
    /\ writeDeadline' = [writeDeadline EXCEPT ![e] = "none"]
    /\ writeClose' = [writeClose EXCEPT ![e] = IF halfClosed[e] THEN "queueing" ELSE "done"]
    /\ UNCHANGED <<writer, left, written, writeTimer, writeExpired, windowVars, readVars, bufferVars,
                   halfClosed, close, updates, remoteVars, wire, muxVars>>

(* Writers have returned: the timer is taken out of circulation. *)
WriteCloseWait(e) ==
    /\ writeClose[e] = "waiting" /\ writeTimer[e] = "free"
    /\ writeTimer' = [writeTimer EXCEPT ![e] = "gone"]
    /\ writeDeadline' = [writeDeadline EXCEPT ![e] = "none"]
    /\ writeClose' = [writeClose EXCEPT ![e] = IF halfClosed[e] THEN "queueing" ELSE "done"]
    /\ UNCHANGED <<writer, left, written, writeExpired, windowVars, readVars, bufferVars, halfClosed,
                   close, updates, remoteVars, wire, muxVars>>

WriteCloseQueue(e) ==
    /\ writeClose[e] = "queueing"
    /\ updates' = [updates EXCEPT ![e].closeWrite = TRUE]
    /\ writeClose' = [writeClose EXCEPT ![e] = "done"]
    /\ UNCHANGED <<writeVars, windowVars, readVars, bufferVars, halfClosed, close, remoteVars, wire, muxVars>>

(* closeWrite has returned: full closure is signalled. *)
CloseSignal(e) ==
    /\ close[e] = "writing" /\ writeClose[e] = "done"
    /\ close' = [close EXCEPT ![e] = "waiting"]
    /\ UNCHANGED <<writeVars, windowVars, readVars, bufferVars, writeClose, halfClosed, updates, remoteVars,
                   wire, muxVars>>

(* Readers have returned: the timer is taken out of circulation. *)
CloseWait(e) ==
    /\ close[e] = "waiting" /\ readTimer[e] = "free"
    /\ readTimer' = [readTimer EXCEPT ![e] = "gone"]
    /\ readDeadline' = [readDeadline EXCEPT ![e] = "none"]
    /\ close' = [close EXCEPT ![e] = "queueing"]
    /\ UNCHANGED <<writeVars, windowVars, reader, size, got, readExpired, eof, bufferVars, writeClose,
                   halfClosed, updates, remoteVars, wire, muxVars>>

(* A close message replaces the other updates of the stream. *)
CloseQueue(e) ==
    /\ close[e] = "queueing"
    /\ updates' = [updates EXCEPT ![e] = [NoUpdates EXCEPT !.close = TRUE]]
    /\ close' = [close EXCEPT ![e] = "deregistering"]
    /\ UNCHANGED <<writeVars, windowVars, readVars, bufferVars, writeClose, halfClosed, remoteVars, wire,
                   muxVars>>

Deregister(e) ==
    /\ close[e] = "deregistering"
    /\ close' = [close EXCEPT ![e] = "done"]
    /\ UNCHANGED <<writeVars, windowVars, readVars, bufferVars, writeClose, halfClosed, updates, remoteVars,
                   wire, muxVars>>
-----------------------------------------------------------------------------
(* The enqueue goroutine sends some of the updates that are due, in the    *)
(* order of their kinds, when it gets a write buffer.                      *)
Due(e) == {kind \in {"increment", "closeWrite", "close"} : updates[e][kind]}
FlushUpdates(e, kinds) ==
    /\ kinds # {} /\ kinds \subseteq Due(e) /\ ~closed[e]
    /\ Send(e, (IF "increment" \in kinds THEN <<IncrementMessage(updates[e].amount)>> ELSE <<>>)
               \o (IF "closeWrite" \in kinds THEN <<CloseWriteMessage>> ELSE <<>>)
               \o (IF "close" \in kinds THEN <<CloseMessage>> ELSE <<>>))
    /\ updates' = [updates EXCEPT ![e] =
           [increment |-> @.increment /\ "increment" \notin kinds,
            amount |-> IF "increment" \in kinds THEN 0 ELSE @.amount,
            closeWrite |-> @.closeWrite /\ "closeWrite" \notin kinds,
            close |-> @.close /\ "close" \notin kinds]]
    /\ UNCHANGED <<writeVars, windowVars, readVars, bufferVars, closeVars, remoteVars, muxVars>>

-----------------------------------------------------------------------------
(* The reader goroutine of e takes the next message off the carrier. *)
Incoming(e, kind) ==
    /\ ~closed[e] /\ wire[Other(e)] # <<>> /\ Head(wire[Other(e)]).kind = kind
    /\ wire' = [wire EXCEPT ![Other(e)] = Tail(@)]

Fail(e, error) ==
    /\ failure' = [failure EXCEPT ![e] = error]
    /\ closed' = [closed EXCEPT ![e] = TRUE]

(* A message is checked, then applied if the stream is still registered. *)
Verdict(e, error) == IF error = "none" THEN UNCHANGED muxVars ELSE Fail(e, error)
Applies(e, error) == error = "none" /\ Registered(e)

DataError(e, bytes) ==
    IF bytes = <<>> THEN "zero-length data"
    ELSE IF ~Registered(e) THEN "none"
    ELSE IF remoteClosedWrite[e] \/ remoteClosed[e] THEN "data after closure"
    ELSE IF Len(buffer[e]) + Len(bytes) > Window THEN "receive window violated"
    ELSE "none"

ReceiveData(e) ==
    /\ Incoming(e, "data")
    /\ LET bytes == Head(wire[Other(e)]).bytes
           error == DataError(e, bytes)
       IN  /\ Verdict(e, error)
           /\ IF Applies(e, error)
              THEN /\ buffer' = [buffer EXCEPT ![e] = @ \o bytes]
                   /\ IF Len(buffer'[e]) = Len(bytes)
                      THEN Signal(receiveReady, receiveReady', e)
                      ELSE UNCHANGED receiveReady
              ELSE UNCHANGED bufferVars
    /\ UNCHANGED <<writeVars, windowVars, readVars, closeVars, updates, remoteVars>>

IncrementError(e, amount) ==
    IF amount = 0 THEN "zero-valued window increment"
    ELSE IF Registered(e) /\ remoteClosed[e] THEN "window increment after closure"
    ELSE "none"

ReceiveIncrement(e) ==
    /\ Incoming(e, "increment")
    /\ LET amount == Head(wire[Other(e)]).amount
           error == IncrementError(e, amount)
       IN  /\ Verdict(e, error)
           /\ IF Applies(e, error)
              THEN /\ sendWindow' = [sendWindow EXCEPT ![e] = @ + amount]
                   /\ IF sendWindow[e] = 0 THEN Signal(sendReady, sendReady', e) ELSE UNCHANGED sendReady
              ELSE UNCHANGED windowVars
    /\ UNCHANGED <<writeVars, readVars, bufferVars, closeVars, updates, remoteVars>>

CloseWriteError(e) ==
    IF Registered(e) /\ (remoteClosed[e] \/ remoteClosedWrite[e]) THEN "close write after closure" ELSE "none"

ReceiveCloseWrite(e) ==
    /\ Incoming(e, "closeWrite")
    /\ Verdict(e, CloseWriteError(e))
    /\ remoteClosedWrite' = [remoteClosedWrite EXCEPT ![e] = @ \/ Applies(e, CloseWriteError(e))]
    /\ UNCHANGED <<writeVars, windowVars, readVars, bufferVars, closeVars, updates, remoteClosed>>

CloseError(e) == IF Registered(e) /\ remoteClosed[e] THEN "close twice" ELSE "none"

ReceiveClose(e) ==
    /\ Incoming(e, "close")
    /\ Verdict(e, CloseError(e))
    /\ remoteClosed' = [remoteClosed EXCEPT ![e] = @ \/ Applies(e, CloseError(e))]
    /\ UNCHANGED <<writeVars, windowVars, readVars, bufferVars, closeVars, updates, remoteClosedWrite>>

(* The multiplexer of e is closed by its user, or fails with the carrier.  *)
MultiplexerClose(e) ==
    /\ MayFail
    /\ ~closed[e]
    /\ closed' = [closed EXCEPT ![e] = TRUE]
    /\ UNCHANGED <<writeVars, windowVars, readVars, bufferVars, closeVars, updates, remoteVars, wire, failure>>

(* The carrier was closed at the other end: reading it fails at some time, *)
(* or heartbeats are missed.                                               *)
CarrierClosed(e) ==
    /\ closed[Other(e)] /\ ~closed[e]
    /\ closed' = [closed EXCEPT ![e] = TRUE]
    /\ UNCHANGED <<writeVars, windowVars, readVars, bufferVars, closeVars, updates, remoteVars, wire, failure>>

-----------------------------------------------------------------------------
WriteSteps(e) == WriteReady(e) \/ WriteBlock(e) \/ WriteAbort(e) \/ WriteTimeout(e)
ReadSteps(e) == \/ ReadReady(e) \/ ReadEnd(e) \/ ReadAbort(e) \/ ReadTimeout(e)
                \/ ReadTake(e) \/ ReadCredit(e)
CloseSteps(e) == \/ WriteCloseWait(e) \/ WriteCloseQueue(e) \/ CloseSignal(e)
                 \/ CloseWait(e) \/ CloseQueue(e) \/ Deregister(e)
Receive(e) == ReceiveData(e) \/ ReceiveIncrement(e) \/ ReceiveCloseWrite(e) \/ ReceiveClose(e)
Flush(e) == \E kinds \in SUBSET Due(e) : FlushUpdates(e, kinds)
Reads(e) == \E n \in Sizes : ReadCall(e, n)

Calls(e) ==
    \/ \E n \in 1 .. Data[e] - written[e] : WriteCall(e, n)
    \/ Reads(e)
    \/ e \in MayClose /\ (CloseWriteCall(e) \/ CloseCall(e))
    \/ \E deadline \in Deadlines : SetWriteDeadline(e, deadline) \/ SetReadDeadline(e, deadline)
Time(e) == WriteDeadlineFires(e) \/ ReadDeadlineFires(e)

Next == \E e \in Ends : \/ WriteSteps(e) \/ ReadSteps(e) \/ CloseSteps(e) \/ Receive(e) \/ Flush(e)
                         \/ Calls(e) \/ Time(e) \/ MultiplexerClose(e) \/ CarrierClosed(e)

Spec == Init /\ [][Next]_vars

(* Goroutines are scheduled, write buffers become available, the carrier   *)
(* delivers, and the application reads as long as the stream allows it.    *)
FairSpec ==
    /\ Spec
    /\ \A e \in Ends : /\ WF_vars(WriteSteps(e)) /\ WF_vars(ReadSteps(e)) /\ WF_vars(CloseSteps(e))
                       /\ WF_vars(Receive(e)) /\ WF_vars(Flush(e)) /\ WF_vars(Reads(e))
                       /\ WF_vars(CarrierClosed(e))

-----------------------------------------------------------------------------
Messages == [kind : {"data"}, bytes : Seq(Nat)] \cup [kind : {"increment"}, amount : Nat]
            \cup {CloseWriteMessage, CloseMessage}
Updates == [increment : BOOLEAN, amount : Nat, closeWrite : BOOLEAN, close : BOOLEAN]

TypeOK ==
    /\ writer \in [Ends -> {"idle", "window", "buffer"}]
    /\ left \in [Ends -> Nat] /\ written \in [Ends -> Nat]
    /\ writeTimer \in [Ends -> {"free", "held", "gone"}] /\ readTimer \in [Ends -> {"free", "held", "gone"}]
    /\ writeDeadline \in [Ends -> {"none", "armed", "fired"}]
    /\ readDeadline \in [Ends -> {"none", "armed", "fired"}]
    /\ writeExpired \in [Ends -> BOOLEAN] /\ readExpired \in [Ends -> BOOLEAN]
    /\ sendWindow \in [Ends -> Nat] /\ sendReady \in [Ends -> BOOLEAN]
    /\ reader \in [Ends -> {"idle", "waiting", "ready", "crediting"}]
    /\ size \in [Ends -> Nat]
    /\ got \in [Ends -> Seq(Nat)] /\ buffer \in [Ends -> Seq(Nat)]
    /\ receiveReady \in [Ends -> BOOLEAN] /\ eof \in [Ends -> BOOLEAN]
    /\ writeClose \in [Ends -> {"open", "waiting", "queueing", "done"}]
    /\ halfClosed \in [Ends -> BOOLEAN]
    /\ close \in [Ends -> {"open", "writing", "waiting", "queueing", "deregistering", "done"}]
    /\ updates \in [Ends -> Updates]
    /\ remoteClosedWrite \in [Ends -> BOOLEAN] /\ remoteClosed \in [Ends -> BOOLEAN]
    /\ wire \in [Ends -> Seq(Messages)]
    /\ closed \in [Ends -> BOOLEAN]

(* No message that one multiplexer sends makes the other one fail: data    *)
(* fits the receive window and follows no closure, increments are not zero *)
(* and closures come once.  Holds if no Read has a buffer of length zero.  *)
NoProtocolError == \A e \in Ends : failure[e] = "none"

(* What Read returns is what was written at the other end, in order and    *)
(* without gaps.                                                           *)
InOrder == \A e \in Ends : /\ Len(got[e]) <= written[Other(e)]
                           /\ \A i \in 1 .. Len(got[e]) : got[e][i] = i

(* When Read reports the end of the stream, it has returned all that was   *)
(* written at the other end, where nothing more will be.                   *)
EndIsComplete ==
    \A e \in Ends : eof[e] => ClosedWrite(Other(e)) /\ Len(got[e]) = written[Other(e)]

(* The readiness channels are as the comments on Stream require, so that a *)
(* signal is neither lost nor put into a channel that is full, which would *)
(* block the goroutine that serves every stream.                           *)
SignalsExact ==
    \A e \in Ends :
        /\ sendReady[e] => sendWindow[e] > 0 /\ writer[e] # "buffer"
        /\ sendWindow[e] > 0 /\ writer[e] # "buffer" =>
              sendReady[e] \/ ClosedWrite(e) \/ remoteClosed[e] \/ closed[e]
        /\ receiveReady[e] => buffer[e] # <<>> /\ reader[e] # "ready"
        /\ buffer[e] # <<>> /\ reader[e] # "ready" => receiveReady[e]

(* A Write that waits returns in the end, because the other end reads, or  *)
(* because of a closure.                                                   *)
WriteReturns == \A e \in Ends : writer[e] # "idle" ~> writer[e] = "idle"

(* Close gets both timers and returns: it waits for calls that return. *)
CloseReturns == \A e \in Ends : close[e] # "open" ~> close[e] = "done"

(* All that is written is read, unless an end is closed. *)
Delivered ==
    \A e \in Ends : []((\A x \in Ends : ~closed[x] /\ close[x] = "open") =>
        <>(Len(got[Other(e)]) = written[e] \/ \E x \in Ends : closed[x] \/ close[x] # "open"))
=============================================================================
