----------------------------- MODULE Multiplexer -----------------------------
(***************************************************************************)
(* Opening, accepting, rejecting and closing streams between two           *)
(* multiplexers of pkg/multiplexing (multiplexer.go).                      *)
(*                                                                         *)
(* At each end run a reader, a writer and an enqueue goroutine, and any    *)
(* number of calls of OpenStream and AcceptStream.  Once a stream is open  *)
(* its users send data and close it; module Stream has the details.        *)
(***************************************************************************)
EXTENDS Integers, Sequences, FiniteSets

CONSTANTS MaxIdentifier,   \* math.MaxUint64
          Backlog,         \* AcceptBacklog
          Buffers,         \* WriteBufferCount
          MaxOpening,      \* how many calls of OpenStream run at once, at most
          MaxAccepting,    \* how many calls of AcceptStream run at once, at most
          Openers,         \* the ends that open streams
          Senders,         \* the ends that send data
          MayCancel,       \* whether contexts are cancelled
          MayFail          \* whether a multiplexer may be closed

Ends == {"odd", "even"}
Other(e) == IF e = "odd" THEN "even" ELSE "odd"
Identifiers == 1 .. MaxIdentifier
IsOutbound(e, id) == (e = "even") = (id % 2 = 0)

ASSUME MultiplexerAssumption ==
    /\ MaxIdentifier \in Nat /\ MaxIdentifier >= 2
    /\ Backlog \in Nat \ {0} /\ Buffers \in Nat \ {0}
    /\ MaxOpening \in Nat /\ MaxAccepting \in Nat
    /\ Openers \subseteq Ends /\ Senders \subseteq Ends
    /\ MayCancel \in BOOLEAN /\ MayFail \in BOOLEAN

VARIABLES
    next,          \* nextOutboundStreamIdentifier
    streams,       \* the identifiers of registered streams
    established, remoteClosed,  \* the streams with these channels closed
    calls,         \* what the user of a stream, or the call that opens it, does
    largest,       \* largestOpenedInboundStreamIdentifier
    pending,       \* pendingInboundStreamIdentifiers
    closes,        \* the close messages that the enqueue goroutine has to send
    queue,         \* writeBufferPending: the contents of write buffers
    wire,          \* the messages on the carrier
    sent,          \* the streams on which data was sent
    failure, closed

localVars == <<next, streams, established, remoteClosed, calls, sent>>
vars == <<localVars, largest, pending, closes, queue, wire, failure, closed>>

Message(kind, id) == [kind |-> kind, id |-> id]

Init ==
    /\ next = [e \in Ends |-> IF e = "even" THEN 2 ELSE 1]
    /\ streams = [e \in Ends |-> {}]
    /\ established = [e \in Ends |-> {}] /\ remoteClosed = [e \in Ends |-> {}]
    /\ calls = [e \in Ends |-> [id \in Identifiers |-> "none"]]
    /\ largest = [e \in Ends |-> 0] /\ pending = [e \in Ends |-> <<>>]
    /\ closes = [e \in Ends |-> {}]
    /\ queue = [e \in Ends |-> <<>>] /\ wire = [e \in Ends |-> <<>>]
    /\ sent = [e \in Ends |-> {}]
    /\ failure = [e \in Ends |-> "none"] /\ closed = [e \in Ends |-> FALSE]

(* The calls at end e that are in one of the given states. *)
CallsIn(e, states) == {id \in Identifiers : calls[e][id] \in states}
Becomes(e, id, state) == calls' = [calls EXCEPT ![e][id] = state]

(* A write buffer is queued, held by a call that accepts, or available. *)
BufferAvailable(e) == Len(queue[e]) + Cardinality(CallsIn(e, {"confirming"})) < Buffers
Enqueue(e, messages) == queue' = [queue EXCEPT ![e] = Append(@, messages)]

-----------------------------------------------------------------------------
(* OpenStream. *)

(* Mutant of NextIdentifier: identifiers are never exhausted. *)
NextIdentifierUnbounded(id) == id + 2

NextIdentifier(id) == IF MaxIdentifier - id < 2 THEN 0 ELSE id + 2

(* An identifier is taken and the stream registered, under the lock. *)
OpenRegister(e) ==
    /\ e \in Openers /\ Cardinality(CallsIn(e, {"opening", "waiting"})) < MaxOpening
    /\ next[e] # 0
    /\ streams' = [streams EXCEPT ![e] = @ \cup {next[e]}]
    /\ Becomes(e, next[e], "opening")
    /\ next' = [next EXCEPT ![e] = NextIdentifier(@)]
    /\ UNCHANGED <<established, remoteClosed, sent, largest, pending, closes, queue, wire, failure, closed>>

OpenSend(e, id) ==
    /\ calls[e][id] = "opening" /\ BufferAvailable(e)
    /\ Enqueue(e, <<Message("open", id)>>)
    /\ Becomes(e, id, "waiting")
    /\ UNCHANGED <<next, streams, established, remoteClosed, sent, largest, pending, closes, wire, failure, closed>>

(* Mutant of OpenReturn: the call does not wait to be accepted. *)
OpenReturnEarly(e, id) ==
    /\ calls[e][id] = "waiting"
    /\ Becomes(e, id, "open")
    /\ UNCHANGED <<next, streams, established, remoteClosed, sent, largest, pending, closes, queue, wire,
                   failure, closed>>

OpenReturn(e, id) ==
    /\ calls[e][id] = "waiting" /\ id \in established[e]
    /\ Becomes(e, id, "open")
    /\ UNCHANGED <<next, streams, established, remoteClosed, sent, largest, pending, closes, queue, wire,
                   failure, closed>>

(* Mutant of OpenAbandon: the remote is not told. *)
OpenAbandonSilent(e, id) ==
    /\ calls[e][id] \in {"opening", "waiting"}
    /\ Becomes(e, id, "deregistering")
    /\ UNCHANGED <<next, streams, established, remoteClosed, sent, largest, pending, closes, queue, wire,
                   failure, closed>>

(* Mutant of OpenAbandon: a close message is sent even without an open one. *)
OpenAbandonLoud(e, id) ==
    /\ calls[e][id] \in {"opening", "waiting"}
    /\ Becomes(e, id, "closing")
    /\ UNCHANGED <<next, streams, established, remoteClosed, sent, largest, pending, closes, queue, wire,
                   failure, closed>>

(* The call gives up and closes the stream.  A close message is due if the *)
(* open message was sent.                                                  *)
OpenAbandon(e, id) ==
    /\ \/ calls[e][id] = "opening" /\ Becomes(e, id, "deregistering")
       \/ calls[e][id] = "waiting" /\ Becomes(e, id, "closing")
    /\ UNCHANGED <<next, streams, established, remoteClosed, sent, largest, pending, closes, queue, wire,
                   failure, closed>>

OpenFail(e, id) ==
    /\ closed[e] \/ (calls[e][id] = "waiting" /\ id \in remoteClosed[e])
    /\ OpenAbandon(e, id)

OpenCancel(e, id) == MayCancel /\ OpenAbandon(e, id)

-----------------------------------------------------------------------------
(* AcceptStream. *)

AcceptGrab(e) ==
    /\ pending[e] # <<>> /\ ~closed[e]
    /\ Cardinality(CallsIn(e, {"accepting", "confirming"})) < MaxAccepting
    /\ pending' = [pending EXCEPT ![e] = Tail(@)]
    /\ Becomes(e, Head(pending[e]), "accepting")
    /\ UNCHANGED <<next, streams, established, remoteClosed, sent, largest, closes, queue, wire, failure, closed>>

(* With a write buffer in hand, the stream is established before the       *)
(* accept message is sent.                                                 *)
AcceptEstablish(e, id) ==
    /\ calls[e][id] = "accepting" /\ BufferAvailable(e)
    /\ established' = [established EXCEPT ![e] = @ \cup {id}]
    /\ Becomes(e, id, "confirming")
    /\ UNCHANGED <<next, streams, remoteClosed, sent, largest, pending, closes, queue, wire, failure, closed>>

(* Mutant of AcceptSend: the accept message is not sent. *)
AcceptSendNothing(e, id) ==
    /\ calls[e][id] = "confirming"
    /\ Becomes(e, id, "open")
    /\ UNCHANGED <<next, streams, established, remoteClosed, sent, largest, pending, closes, queue, wire,
                   failure, closed>>

AcceptSend(e, id) ==
    /\ calls[e][id] = "confirming"
    /\ Enqueue(e, <<Message("accept", id)>>)
    /\ Becomes(e, id, "open")
    /\ UNCHANGED <<next, streams, established, remoteClosed, sent, largest, pending, closes, wire, failure, closed>>

(* The stream is closed if it is not accepted. *)
AcceptAbandon(e, id) ==
    /\ calls[e][id] = "accepting"
    /\ Becomes(e, id, "closing")
    /\ UNCHANGED <<next, streams, established, remoteClosed, sent, largest, pending, closes, queue, wire,
                   failure, closed>>

(* After a stale stream AcceptStream tries the next one. *)
AcceptFail(e, id) == (closed[e] \/ id \in remoteClosed[e]) /\ AcceptAbandon(e, id)
AcceptCancel(e, id) == MayCancel /\ AcceptAbandon(e, id)

-----------------------------------------------------------------------------
(* Users of open streams. *)

SendData(e, id) ==
    /\ e \in Senders /\ calls[e][id] = "open" /\ id \notin remoteClosed[e] /\ id \notin sent[e]
    /\ BufferAvailable(e)
    /\ Enqueue(e, <<Message("data", id)>>)
    /\ sent' = [sent EXCEPT ![e] = @ \cup {id}]
    /\ UNCHANGED <<next, streams, established, remoteClosed, calls, largest, pending, closes, wire, failure, closed>>

Close(e, id) ==
    /\ calls[e][id] = "open"
    /\ Becomes(e, id, "closing")
    /\ UNCHANGED <<next, streams, established, remoteClosed, sent, largest, pending, closes, queue, wire,
                   failure, closed>>

CloseQueue(e, id) ==
    /\ calls[e][id] = "closing"
    /\ closes' = [closes EXCEPT ![e] = @ \cup {id}]
    /\ Becomes(e, id, "deregistering")
    /\ UNCHANGED <<next, streams, established, remoteClosed, sent, largest, pending, queue, wire, failure, closed>>

Deregister(e, id) ==
    /\ calls[e][id] = "deregistering"
    /\ streams' = [streams EXCEPT ![e] = @ \ {id}]
    /\ Becomes(e, id, "gone")
    /\ UNCHANGED <<next, established, remoteClosed, sent, largest, pending, closes, queue, wire, failure, closed>>

-----------------------------------------------------------------------------
(* The goroutines of a multiplexer. *)

(* enqueue: close messages go out with one write buffer, in some order. *)
FlushCloses(e) ==
    /\ closes[e] # {} /\ BufferAvailable(e) /\ ~closed[e]
    /\ \E order \in [1 .. Cardinality(closes[e]) -> closes[e]] :
           /\ \A id \in closes[e] : \E i \in DOMAIN order : order[i] = id
           /\ Enqueue(e, [i \in DOMAIN order |-> Message("close", order[i])])
    /\ closes' = [closes EXCEPT ![e] = {}]
    /\ UNCHANGED <<localVars, largest, pending, wire, failure, closed>>

(* write: a buffer is written to the carrier and available again. *)
Write(e) ==
    /\ queue[e] # <<>> /\ ~closed[e]
    /\ wire' = [wire EXCEPT ![e] = @ \o Head(queue[e])]
    /\ queue' = [queue EXCEPT ![e] = Tail(@)]
    /\ UNCHANGED <<localVars, largest, pending, closes, failure, closed>>

(* read: what is wrong with a message, if anything. *)
OutOfRange(e, id) ==
    IF IsOutbound(e, id) THEN next[e] # 0 /\ id >= next[e] ELSE id > largest[e]

OpenError(e, id) ==
    IF IsOutbound(e, id) THEN "outbound stream identifier used to open"
    ELSE IF id <= largest[e] THEN "stream identifiers not monotonically increasing"
    ELSE "none"

AcceptError(e, id) ==
    IF ~IsOutbound(e, id) THEN "inbound stream identifier used to accept"
    ELSE IF OutOfRange(e, id) THEN "identifier out of range"
    ELSE IF id \in streams[e] /\ id \in established[e] THEN "accepted twice"
    ELSE IF id \in streams[e] /\ id \in remoteClosed[e] THEN "accepted after closing"
    ELSE "none"

(* Mutant of DataError: data for a stream that is not registered is an error. *)
DataErrorUnknown(e, id) ==
    IF OutOfRange(e, id) THEN "identifier out of range"
    ELSE IF id \notin established[e] THEN "data for partially established stream"
    ELSE IF id \in streams[e] /\ id \in remoteClosed[e] THEN "data for closed stream"
    ELSE "none"

DataError(e, id) ==
    IF OutOfRange(e, id) THEN "identifier out of range"
    ELSE IF id \in streams[e] /\ id \notin established[e] THEN "data for partially established stream"
    ELSE IF id \in streams[e] /\ id \in remoteClosed[e] THEN "data for closed stream"
    ELSE "none"

CloseError(e, id) ==
    IF OutOfRange(e, id) THEN "identifier out of range"
    ELSE IF id \in streams[e] /\ id \in remoteClosed[e] THEN "closed twice"
    ELSE "none"

(* The message is taken off the carrier, and an error closes the           *)
(* multiplexer, as run does.                                               *)
Incoming(e, kind, id, error) ==
    /\ ~closed[e] /\ wire[Other(e)] # <<>> /\ Head(wire[Other(e)]) = Message(kind, id)
    /\ wire' = [wire EXCEPT ![Other(e)] = Tail(@)]
    /\ failure' = [failure EXCEPT ![e] = error]
    /\ closed' = [closed EXCEPT ![e] = error # "none"]

(* A stream is registered for acceptance, or rejected if the backlog is full. *)
ReceiveOpen(e, id) ==
    /\ Incoming(e, "open", id, OpenError(e, id))
    /\ IF OpenError(e, id) # "none"
       THEN UNCHANGED <<streams, calls, pending, closes, largest>>
       ELSE /\ largest' = [largest EXCEPT ![e] = id]
            /\ IF Len(pending[e]) = Backlog
               THEN /\ closes' = [closes EXCEPT ![e] = @ \cup {id}]
                    /\ UNCHANGED <<streams, calls, pending>>
               ELSE /\ streams' = [streams EXCEPT ![e] = @ \cup {id}]
                    /\ pending' = [pending EXCEPT ![e] = Append(@, id)]
                    /\ Becomes(e, id, "pending")
                    /\ UNCHANGED closes
    /\ UNCHANGED <<next, established, remoteClosed, sent, queue>>

ReceiveAccept(e, id) ==
    /\ Incoming(e, "accept", id, AcceptError(e, id))
    /\ established' = [established EXCEPT ![e] =
           IF AcceptError(e, id) = "none" THEN @ \cup ({id} \cap streams[e]) ELSE @]
    /\ UNCHANGED <<next, streams, remoteClosed, calls, sent, largest, pending, closes, queue>>

ReceiveData(e, id) ==
    /\ Incoming(e, "data", id, DataError(e, id))
    /\ UNCHANGED <<localVars, largest, pending, closes, queue>>

ReceiveClose(e, id) ==
    /\ Incoming(e, "close", id, CloseError(e, id))
    /\ remoteClosed' = [remoteClosed EXCEPT ![e] =
           IF CloseError(e, id) = "none" THEN @ \cup ({id} \cap streams[e]) ELSE @]
    /\ UNCHANGED <<next, streams, established, calls, sent, largest, pending, closes, queue>>

(* The multiplexer is closed by its user, or because the carrier failed,   *)
(* as it does some time after the other end was closed.                    *)
MultiplexerClose(e) ==
    /\ ~closed[e] /\ MayFail
    /\ closed' = [closed EXCEPT ![e] = TRUE]
    /\ UNCHANGED <<localVars, largest, pending, closes, queue, wire, failure>>

CarrierClosed(e) ==
    /\ ~closed[e] /\ closed[Other(e)]
    /\ closed' = [closed EXCEPT ![e] = TRUE]
    /\ UNCHANGED <<localVars, largest, pending, closes, queue, wire, failure>>

-----------------------------------------------------------------------------
(* What a call does that has an identifier; one goroutine for each. *)
Progress(e, id) ==
    \/ OpenSend(e, id) \/ OpenReturn(e, id) \/ OpenFail(e, id)
    \/ AcceptEstablish(e, id) \/ AcceptSend(e, id) \/ AcceptFail(e, id)
    \/ CloseQueue(e, id) \/ Deregister(e, id)
Receive(e) == \E id \in Identifiers : \/ ReceiveOpen(e, id) \/ ReceiveAccept(e, id)
                                      \/ ReceiveData(e, id) \/ ReceiveClose(e, id)

Next == \E e \in Ends :
    \/ OpenRegister(e) \/ AcceptGrab(e)
    \/ \E id \in Identifiers : \/ Progress(e, id) \/ SendData(e, id) \/ Close(e, id)
                               \/ OpenCancel(e, id) \/ AcceptCancel(e, id)
    \/ FlushCloses(e) \/ Write(e) \/ Receive(e)
    \/ MultiplexerClose(e) \/ CarrierClosed(e)

Spec == Init /\ [][Next]_vars

(* Goroutines are scheduled, a call that waits for a write buffer gets one *)
(* in its turn, and AcceptStream is called again and again.  Nobody need   *)
(* cancel, send or close.                                                  *)
FairSpec ==
    /\ Spec
    /\ \A e \in Ends : /\ WF_vars(AcceptGrab(e)) /\ WF_vars(FlushCloses(e))
                       /\ WF_vars(Write(e)) /\ WF_vars(Receive(e)) /\ WF_vars(CarrierClosed(e))
                       /\ \A id \in Identifiers : WF_vars(Progress(e, id))

-----------------------------------------------------------------------------
TypeOK ==
    /\ next \in [Ends -> 0 .. MaxIdentifier]
    /\ streams \in [Ends -> SUBSET Identifiers]
    /\ established \in [Ends -> SUBSET Identifiers] /\ remoteClosed \in [Ends -> SUBSET Identifiers]
    /\ calls \in [Ends -> [Identifiers -> {"none", "opening", "waiting", "pending", "accepting", "confirming",
                                           "open", "closing", "deregistering", "gone"}]]
    /\ largest \in [Ends -> 0 .. MaxIdentifier]
    /\ pending \in [Ends -> Seq(Identifiers)]
    /\ closes \in [Ends -> SUBSET Identifiers] /\ sent \in [Ends -> SUBSET Identifiers]
    /\ queue \in [Ends -> Seq(Seq([kind : {"open", "accept", "data", "close"}, id : Identifiers]))]
    /\ wire \in [Ends -> Seq([kind : {"open", "accept", "data", "close"}, id : Identifiers])]
    /\ closed \in [Ends -> BOOLEAN]

(* Whatever crosses on the carrier (cancelled opens and late accepts,      *)
(* rejections, stale streams, data after closure), no multiplexer takes    *)
(* its peer for misbehaving.  Holds if calls of OpenStream do not overlap. *)
NoProtocolError == \A e \in Ends : failure[e] = "none"

(* OpenStream returns a stream only if the other end accepted it, and a    *)
(* stream that waits in the backlog or is being accepted is registered, as *)
(* acceptOneStream relies on when it looks it up.                          *)
AcceptedStreams ==
    \A e \in Ends : \A id \in Identifiers :
        /\ IsOutbound(e, id) /\ calls[e][id] = "open" => id \in established[Other(e)]
        /\ calls[e][id] \in {"pending", "accepting", "confirming"} => id \in streams[e]

(* OpenStream returns: the stream is accepted, rejected, or the            *)
(* multiplexer is closed.                                                  *)
OpenReturns ==
    \A e \in Ends : \A id \in Identifiers :
        calls[e][id] \in {"opening", "waiting"} ~> calls[e][id] \notin {"opening", "waiting"}

(* Once a stream is given up at one end, for whatever reason, the other    *)
(* end learns of it or has never registered it: no stream stays open with  *)
(* nobody at the other end.                                                *)
ClosureNoticed ==
    \A e \in Ends : \A id \in Identifiers :
        calls[e][id] = "gone" ~>
            \/ id \notin streams[Other(e)] \/ id \in remoteClosed[Other(e)] \/ \E x \in Ends : closed[x]
=============================================================================
