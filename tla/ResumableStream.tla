--------------------------- MODULE ResumableStream ---------------------------
(***************************************************************************)
(* internal/tunnel/resumable.go: a byte stream between the two ends of a   *)
(* session, carried by transports that come and go.                        *)
(*                                                                         *)
(* Each end keeps what it wrote until the peer acknowledges it, replays it *)
(* on every new transport, and drops what it has received before.  A       *)
(* "path" is one pairing of two transports by the relay: the source tells  *)
(* them apart by (ws, generation), the model by a number.  Paths are lost  *)
(* at any time; a frame written to a lost path may fail or vanish.         *)
(*                                                                         *)
(* The goroutines of an end are the application's Write and Read, the      *)
(* connection loop (AttachTransport, ReplayChunk, AttachDone, Expire), and *)
(* one readTransport per path, which can outlive its transport while it    *)
(* holds a frame.  writeMu is held through an attach: no other write of    *)
(* the end happens while attach[s].path # 0.                               *)
(***************************************************************************)
EXTENDS ByteRuns

CONSTANTS Agent, Client,            \* the two ends
          AgentBytes, ClientBytes,  \* bound: bytes each end ever writes
          ChunkSize,                \* resumableChunkSize
          SendCap, RecvCap,         \* resumableMaxBuffer, send and receive side
          MaxPath,                  \* bound: paths the relay ever sets up
          MaxCarry,                 \* bound: frames a relay pump carries over
          Closers, Expirers         \* bound: the ends that may close, that may expire

ASSUME EndsAssumption ==
    Agent # Client /\ Closers \subseteq {Agent, Client} /\ Expirers \subseteq {Agent, Client}
ASSUME SizeAssumption ==
    /\ AgentBytes \in Nat /\ ClientBytes \in Nat /\ MaxCarry \in Nat
    /\ ChunkSize \in Nat \ {0} /\ MaxPath \in Nat \ {0}
    /\ SendCap \in Nat /\ SendCap >= ChunkSize
    /\ RecvCap \in Nat /\ RecvCap >= ChunkSize

Sides == {Agent, Client}
Paths == 1..MaxPath
Peer == [s \in Sides |-> IF s = Agent THEN Client ELSE Agent]
Budget == [s \in Sides |-> IF s = Agent THEN AgentBytes ELSE ClientBytes]

Smaller(m, n) == IF m < n THEN m ELSE n

VARIABLES
    path,       \* the newest path
    up,         \* the relay still carries the newest path
    wire,       \* wire[p][s]: frames s sent on path p that its peer has not read
    offer,      \* offer[s]: path s was told to resume on, not attached yet (0: none)
    ws,         \* ws[s]: path of the current transport (0: nil)
    attach,     \* attach[s]: what attachTransport has still to replay, and on which path
    chunk,      \* chunk[s]: data frame that the Write in progress has to send
    sendBase, sendEnd, sendBuffer,
    recvOffset, recvBuffer,
    delivered,  \* delivered[s]: history, the bytes Read has returned at s
    reader,     \* reader[s][p]: readTransport of s for path p
    closed,
    terminal    \* terminal[s]: terminalErr, "none" when there is none

netVars == <<path, up, offer>>
sendVars == <<sendBase, sendEnd, sendBuffer>>
recvVars == <<recvOffset, recvBuffer, delivered>>
endVars == <<closed, terminal>>
vars == <<path, up, offer, wire, ws, attach, chunk, sendBase, sendEnd, sendBuffer,
          recvOffset, recvBuffer, delivered, reader, closed, terminal>>

-----------------------------------------------------------------------------
(* Frames (makeFrame).  "close" is the transport's close frame with reason *)
(* "session closed".  Ping and pong carry no state of the stream: their    *)
(* effect is a transport that is dropped when they stop (Drop).            *)

Frame == [type : {"data", "ack", "close"}, off : Nat, data : Seq(Nat)]

DataFrame(off, data) == [type |-> "data", off |-> off, data |-> data]
AckFrame(off) == [type |-> "ack", off |-> off, data |-> <<>>]
CloseFrame == [type |-> "close", off |-> 0, data |-> <<>>]
NoChunk == DataFrame(0, <<>>)

\* What a reader is doing, and the frame it does it with: nothing, waiting for
\* a frame, about to apply one, waiting in applyData for room, about to
\* acknowledge.
ReaderStates == {"off", "idle", "apply", "parked", "ack"}
Reader == [pc : ReaderStates, frame : Frame]
ReaderOff == [pc |-> "off", frame |-> CloseFrame]
ReaderIdle == [pc |-> "idle", frame |-> CloseFrame]

NotAttaching == [path |-> 0, off |-> 0, data |-> <<>>]

Terminals == {"none", "eof", "expired"}

TypeOK ==
    /\ path \in Paths /\ up \in BOOLEAN
    /\ wire \in [Paths -> [Sides -> Seq(Frame)]]
    /\ offer \in [Sides -> 0..MaxPath]
    /\ ws \in [Sides -> 0..MaxPath]
    /\ attach \in [Sides -> [path : 0..MaxPath, off : Nat, data : Seq(Nat)]]
    /\ chunk \in [Sides -> Frame]
    /\ sendBase \in [Sides -> Nat] /\ sendEnd \in [Sides -> Nat]
    /\ sendBuffer \in [Sides -> Seq(Nat)]
    /\ recvOffset \in [Sides -> Nat]
    /\ recvBuffer \in [Sides -> Seq(Nat)]
    /\ delivered \in [Sides -> Seq(Nat)]
    /\ reader \in [Sides -> [Paths -> Reader]]
    /\ closed \in [Sides -> BOOLEAN]
    /\ terminal \in [Sides -> Terminals]

Init ==
    /\ path = 1 /\ up = TRUE
    /\ wire = [p \in Paths |-> [s \in Sides |-> <<>>]]
    /\ offer = [s \in Sides |-> 1]
    /\ ws = [s \in Sides |-> 0]
    /\ attach = [s \in Sides |-> NotAttaching]
    /\ chunk = [s \in Sides |-> NoChunk]
    /\ sendBase = [s \in Sides |-> 0] /\ sendEnd = [s \in Sides |-> 0]
    /\ sendBuffer = [s \in Sides |-> <<>>]
    /\ recvOffset = [s \in Sides |-> 0]
    /\ recvBuffer = [s \in Sides |-> <<>>]
    /\ delivered = [s \in Sides |-> <<>>]
    /\ reader = [s \in Sides |-> [p \in Paths |-> ReaderOff]]
    /\ closed = [s \in Sides |-> FALSE]
    /\ terminal = [s \in Sides |-> "none"]

-----------------------------------------------------------------------------
(* Writing to a transport.  On a path the relay carries the frame joins    *)
(* the wire; on a lost path whose socket is still open here it vanishes in *)
(* a buffer; on a lost path or a closed socket the write may (must, when   *)
(* the socket is closed) return an error.                                  *)

Live(p) == p = path /\ up

Put(s, p, f) ==
    IF Live(p) THEN [wire EXCEPT ![p][s] = Append(@, f)] ELSE wire

WriteSucceeds(s, p, f) ==
    /\ ws[s] = p
    /\ wire' = Put(s, p, f)

WriteFails(s, p) ==
    /\ ws[s] # p \/ ~Live(p)
    /\ UNCHANGED wire

\* Mutant of DroppedWs: the transport that failed stays the current one.
DropNothing(s, p) == ws

\* dropTransport: nothing unless p is still the current transport.
DroppedWs(s, p) == IF ws[s] = p THEN [ws EXCEPT ![s] = 0] ELSE ws

\* writeMu is free.
MayWrite(s) == attach[s].path = 0

-----------------------------------------------------------------------------
(* The application's side: Write, Read, Close.                             *)

\* queueSend: waits for room, then the chunk belongs to the replay buffer.
Write(s) ==
    /\ ~closed[s]
    /\ chunk[s] = NoChunk
    /\ \E n \in 1..ChunkSize :
         /\ sendEnd[s] + n <= Budget[s]
         /\ Len(sendBuffer[s]) + n <= SendCap
         /\ LET data == Run(sendEnd[s], n)
            IN /\ chunk' = [chunk EXCEPT ![s] = DataFrame(sendEnd[s], data)]
               /\ sendBuffer' = [sendBuffer EXCEPT ![s] = @ \o data]
         /\ sendEnd' = [sendEnd EXCEPT ![s] = @ + n]
    /\ UNCHANGED <<netVars, wire, ws, attach, sendBase, recvVars, reader, endVars>>

\* sendDataUntilAccepted: a failed write drops the transport and the loop
\* waits for the next one; the chunk may then be both replayed and sent.
SendChunk(s) ==
    /\ chunk[s] # NoChunk
    /\ ~closed[s] /\ ws[s] # 0 /\ MayWrite(s)
    /\ \/ /\ WriteSucceeds(s, ws[s], chunk[s])
          /\ chunk' = [chunk EXCEPT ![s] = NoChunk]
          /\ UNCHANGED ws
       \/ /\ WriteFails(s, ws[s])
          /\ ws' = DroppedWs(s, ws[s])
          /\ UNCHANGED chunk
    /\ UNCHANGED <<netVars, attach, sendVars, recvVars, reader, endVars>>

\* Mutant of Read: what has been read stays in the buffer.
ReadKeeps(s) ==
    /\ \E n \in 1..Len(recvBuffer[s]) :
         delivered' = [delivered EXCEPT ![s] = @ \o TakeFirst(recvBuffer[s], n)]
    /\ UNCHANGED <<netVars, wire, ws, attach, chunk, sendVars, recvBuffer, recvOffset,
                   reader, endVars>>

\* Read: what is buffered can be read after the end has closed, too.
Read(s) ==
    /\ \E n \in 1..Len(recvBuffer[s]) :
         /\ delivered' = [delivered EXCEPT ![s] = @ \o TakeFirst(recvBuffer[s], n)]
         /\ recvBuffer' = [recvBuffer EXCEPT ![s] = DropFirst(@, n)]
    /\ UNCHANGED <<netVars, wire, ws, attach, chunk, sendVars, recvOffset, reader, endVars>>

\* Close: the transport, if there is one, says "session closed"; the relay
\* passes what was sent before and that close to the peer, and ends the path.
Close(s) ==
    /\ s \in Closers /\ ~closed[s]
    /\ closed' = [closed EXCEPT ![s] = TRUE]
    /\ ws' = [ws EXCEPT ![s] = 0]
    /\ IF ws[s] # 0
       THEN /\ wire' = Put(s, ws[s], CloseFrame)
            /\ up' = (up /\ ws[s] # path)
       ELSE UNCHANGED <<wire, up>>
    /\ UNCHANGED <<path, offer, attach, chunk, sendVars, recvVars, reader, terminal>>

-----------------------------------------------------------------------------
(* The connection loop.                                                    *)

\* Mutant of AttachAck: it counts what the user has read.
AttachAckOfRead(s) == AckFrame(Len(delivered[s]))

\* The acknowledgement that opens a transport.
AttachAck(s) == AckFrame(recvOffset[s])

\* attachTransport up to its acknowledgement: under mu the new transport is
\* installed and recvOffset and the replay buffer are copied; the rest works
\* on the copy.  An end that is closed by then gives the transport back.
AttachTransport(s) ==
    LET p == offer[s] IN
    /\ p # 0
    /\ offer' = [offer EXCEPT ![s] = 0]
    /\ \/ /\ ~closed[s]
          /\ ws' = [ws EXCEPT ![s] = p]
          /\ wire' = Put(s, p, AttachAck(s))
          /\ attach' = [attach EXCEPT ![s] =
                          [path |-> p, off |-> sendBase[s], data |-> sendBuffer[s]]]
       \/ /\ closed[s] \/ ~Live(p)
          /\ UNCHANGED <<ws, wire, attach>>
    /\ UNCHANGED <<path, up, chunk, sendVars, recvVars, reader, endVars>>

\* One data frame of the replay.  An error ends attachTransport: no reader is
\* started for this path.
ReplayChunk(s) ==
    LET p == attach[s].path
        n == Smaller(ChunkSize, Len(attach[s].data))
        f == DataFrame(attach[s].off, TakeFirst(attach[s].data, n))
    IN
    /\ p # 0 /\ n > 0
    /\ \/ /\ WriteSucceeds(s, p, f)
          /\ attach' = [attach EXCEPT ![s] =
                          [path |-> p, off |-> @.off + n, data |-> DropFirst(@.data, n)]]
          /\ UNCHANGED ws
       \/ /\ WriteFails(s, p)
          /\ attach' = [attach EXCEPT ![s] = NotAttaching]
          /\ ws' = DroppedWs(s, p)
    /\ UNCHANGED <<netVars, chunk, sendVars, recvVars, reader, endVars>>

\* The replay is out: writeMu is released and the path gets its reader.
AttachDone(s) ==
    LET p == attach[s].path IN
    /\ p # 0 /\ attach[s].data = <<>>
    /\ attach' = [attach EXCEPT ![s] = NotAttaching]
    /\ reader' = [reader EXCEPT ![s][p] = ReaderIdle]
    /\ UNCHANGED <<netVars, wire, ws, chunk, sendVars, recvVars, endVars>>

\* connectionLoop: no transport within resumableWindow, or a relay that
\* rejects the session for good.
Expire(s) ==
    /\ s \in Expirers /\ ~closed[s]
    /\ ws[s] = 0 /\ offer[s] = 0 /\ attach[s].path = 0
    /\ closed' = [closed EXCEPT ![s] = TRUE]
    /\ terminal' = [terminal EXCEPT ![s] = "expired"]
    /\ UNCHANGED <<netVars, wire, ws, attach, chunk, sendVars, recvVars, reader>>

-----------------------------------------------------------------------------
(* readTransport of end s on path p.  The stream it reads is its peer's.   *)

SetReader(s, p, pc, f) == reader' = [reader EXCEPT ![s][p] = [pc |-> pc, frame |-> f]]

\* The reader gives up; its transport goes if it is still the current one.
GiveUp(s, p) ==
    /\ reader' = [reader EXCEPT ![s][p] = ReaderOff]
    /\ ws' = DroppedWs(s, p)

\* A transport that has been closed here may still hand out what it had
\* received (HTTPStreamConn does).
ReadFrame(s, p) ==
    LET q == wire[p][Peer[s]] IN
    /\ reader[s][p].pc = "idle"
    /\ q # <<>> /\ Head(q) # CloseFrame
    /\ wire' = [wire EXCEPT ![p][Peer[s]] = Tail(q)]
    /\ SetReader(s, p, "apply", Head(q))
    /\ UNCHANGED <<netVars, ws, attach, chunk, sendVars, recvVars, endVars>>

\* A close frame with reason "session closed": setTerminal(io.EOF).
ReadClose(s, p) ==
    LET q == wire[p][Peer[s]] IN
    /\ reader[s][p].pc = "idle"
    /\ q # <<>> /\ Head(q) = CloseFrame
    /\ reader' = [reader EXCEPT ![s][p] = ReaderOff]
    /\ IF closed[s]
       THEN UNCHANGED <<ws, closed, terminal>>
       ELSE /\ closed' = [closed EXCEPT ![s] = TRUE]
            /\ terminal' = [terminal EXCEPT ![s] = "eof"]
            /\ ws' = [ws EXCEPT ![s] = 0]
    /\ UNCHANGED <<netVars, wire, attach, chunk, sendVars, recvVars>>

ReadError(s, p) ==
    /\ reader[s][p].pc = "idle"
    /\ ws[s] # p \/ ~Live(p)
    /\ GiveUp(s, p)
    /\ UNCHANGED <<netVars, wire, attach, chunk, sendVars, recvVars, endVars>>

\* Mutant of Kept: sendBase is not subtracted.
KeptFromStart(s, off) == DropFirst(sendBuffer[s], off)

\* The replay buffer without what comes before off.
Kept(s, off) == DropFirst(sendBuffer[s], off - sendBase[s])

\* applyAck: an offset outside what is kept for replay is a broken peer.
ApplyAck(s, p) ==
    LET off == reader[s][p].frame.off
        valid == sendBase[s] <= off /\ off <= sendEnd[s]
    IN
    /\ reader[s][p].pc = "apply" /\ reader[s][p].frame.type = "ack"
    /\ \/ /\ valid
          /\ sendBuffer' = [sendBuffer EXCEPT ![s] = Kept(s, off)]
          /\ sendBase' = [sendBase EXCEPT ![s] = off]
          /\ reader' = [reader EXCEPT ![s][p] = ReaderIdle]
          /\ UNCHANGED ws
       \/ /\ ~valid
          /\ GiveUp(s, p)
          /\ UNCHANGED <<sendBuffer, sendBase>>
    /\ UNCHANGED <<netVars, wire, attach, chunk, sendEnd, recvVars, endVars>>

\* Mutant of Fresh: what was received before is not cut off.
FreshUncut(s, f) == f.data

\* The part of f that has not been received before.
Fresh(s, f) == DropFirst(f.data, recvOffset[s] - f.off)

\* Mutant of Room: a buffer is never filled up.
RoomForLess(s, data) == Len(recvBuffer[s]) + Len(data) < RecvCap

Room(s, data) == Len(recvBuffer[s]) + Len(data) <= RecvCap

\* Mutant of Accept: bytes that are taken are not acknowledged.
AcceptSilently(s, p, data) ==
    /\ recvBuffer' = [recvBuffer EXCEPT ![s] = @ \o data]
    /\ recvOffset' = [recvOffset EXCEPT ![s] = @ + Len(data)]
    /\ SetReader(s, p, "idle", CloseFrame)

\* Mutant of Accept: the offset moves the wrong way.
AcceptBackwards(s, p, data) ==
    /\ recvBuffer' = [recvBuffer EXCEPT ![s] = @ \o data]
    /\ recvOffset' = [recvOffset EXCEPT ![s] = @ - Len(data)]
    /\ SetReader(s, p, "ack", AckFrame(recvOffset[s] + Len(data)))

\* The end of applyData: the bytes join the receive buffer.
Accept(s, p, data) ==
    /\ recvBuffer' = [recvBuffer EXCEPT ![s] = @ \o data]
    /\ recvOffset' = [recvOffset EXCEPT ![s] = @ + Len(data)]
    /\ SetReader(s, p, "ack", AckFrame(recvOffset[s] + Len(data)))

\* applyData: a gap is refused, what was received before is cut off, and the
\* rest waits for room.  The cut is made once, before the wait.
ApplyData(s, p) ==
    LET f == reader[s][p].frame
        end == f.off + Len(f.data)
        fresh == Fresh(s, f)
    IN
    /\ reader[s][p].pc = "apply" /\ f.type = "data"
    /\ \/ /\ f.off > recvOffset[s]
          /\ GiveUp(s, p)
          /\ UNCHANGED <<recvBuffer, recvOffset>>
       \/ /\ f.off <= recvOffset[s] /\ end <= recvOffset[s]
          /\ SetReader(s, p, "ack", AckFrame(recvOffset[s]))
          /\ UNCHANGED <<ws, recvBuffer, recvOffset>>
       \/ /\ f.off <= recvOffset[s] /\ end > recvOffset[s]
          /\ \/ closed[s] /\ GiveUp(s, p) /\ UNCHANGED <<recvBuffer, recvOffset>>
             \/ ~closed[s] /\ Room(s, fresh) /\ Accept(s, p, fresh) /\ UNCHANGED ws
             \/ /\ ~closed[s] /\ ~Room(s, fresh)
                /\ SetReader(s, p, "parked", DataFrame(recvOffset[s], fresh))
                /\ UNCHANGED <<ws, recvBuffer, recvOffset>>
    /\ UNCHANGED <<netVars, wire, attach, chunk, sendVars, delivered, endVars>>

\* Mutant of Unpark: room is looked at before the end of the session.
UnparkOverdue(s, p) ==
    LET data == reader[s][p].frame.data IN
    /\ reader[s][p].pc = "parked"
    /\ \/ Room(s, data) /\ Accept(s, p, data) /\ UNCHANGED ws
       \/ closed[s] /\ ~Room(s, data) /\ GiveUp(s, p) /\ UNCHANGED <<recvBuffer, recvOffset>>
    /\ UNCHANGED <<netVars, wire, attach, chunk, sendVars, delivered, endVars>>

\* applyData resumes from cond.Wait, whatever has been received meanwhile.
Unpark(s, p) ==
    LET data == reader[s][p].frame.data IN
    /\ reader[s][p].pc = "parked"
    /\ \/ closed[s] /\ GiveUp(s, p) /\ UNCHANGED <<recvBuffer, recvOffset>>
       \/ ~closed[s] /\ Room(s, data) /\ Accept(s, p, data) /\ UNCHANGED ws
    /\ UNCHANGED <<netVars, wire, attach, chunk, sendVars, delivered, endVars>>

\* The acknowledgement goes out on the path the data came from.
WriteAck(s, p) ==
    /\ reader[s][p].pc = "ack" /\ MayWrite(s)
    /\ \/ /\ WriteSucceeds(s, p, reader[s][p].frame)
          /\ reader' = [reader EXCEPT ![s][p] = ReaderIdle]
          /\ UNCHANGED ws
       \/ WriteFails(s, p) /\ GiveUp(s, p)
    /\ UNCHANGED <<netVars, attach, chunk, sendVars, recvVars, endVars>>

ReadTransport(s, p) ==
    \/ ReadFrame(s, p) \/ ReadClose(s, p) \/ ReadError(s, p)
    \/ ApplyAck(s, p) \/ ApplyData(s, p) \/ Unpark(s, p) \/ WriteAck(s, p)

-----------------------------------------------------------------------------
(* The network, the timers and the relay.  No path is lost once the last   *)
(* one the bound allows is in use.                                         *)

\* heartbeatTransport, checkAckProgress: a transport that may be in perfect
\* order is dropped because nothing came back in time.
Drop(s) ==
    /\ ws[s] # 0 /\ path < MaxPath
    /\ ws' = [ws EXCEPT ![s] = 0]
    /\ UNCHANGED <<netVars, wire, attach, chunk, sendVars, recvVars, reader, endVars>>

LosePath ==
    /\ up /\ path < MaxPath
    /\ up' = FALSE
    /\ UNCHANGED <<path, offer, wire, ws, attach, chunk, sendVars, recvVars, reader, endVars>>

\* Mutant of Barrier: the relay waits for both sides to fail.
BarrierForBoth ==
    /\ up /\ \A s \in Sides : ws[s] = 0 /\ offer[s] = 0
    /\ up' = FALSE
    /\ UNCHANGED <<path, offer, wire, ws, attach, chunk, sendVars, recvVars, reader, endVars>>

\* run() in relay/go/main.go: either side's failure, or its resume socket,
\* makes the relay abort both.
Barrier ==
    /\ up /\ \E s \in Sides : ws[s] = 0 /\ offer[s] = 0
    /\ up' = FALSE
    /\ UNCHANGED <<path, offer, wire, ws, attach, chunk, sendVars, recvVars, reader, endVars>>

\* What a pump of the relay does with the frames it holds when both endpoints
\* are replaced: those up to the k-th have reached the old receiver, some are
\* written before the resume message and skipped there, and those up to the
\* j-th go to the new transport, ahead of anything new.
Carried(q, k, i, j) ==
    /\ 0 <= k /\ k <= i /\ i <= j /\ j <= Len(q)
    /\ j - i <= MaxCarry

\* Both sides wait with a resume socket: the relay replaces both endpoints and
\* sends both the resume message.
Resume ==
    /\ path < MaxPath
    /\ \A s \in Sides : ws[s] = 0 /\ offer[s] = 0 /\ attach[s].path = 0 /\ ~closed[s]
    /\ \E k, i, j \in [Sides -> 0..Len(wire[path][Agent]) + Len(wire[path][Client])] :
         /\ \A s \in Sides : Carried(wire[path][s], k[s], i[s], j[s])
         /\ wire' = [wire EXCEPT
                      ![path] = [s \in Sides |-> TakeFirst(wire[path][s], k[s])],
                      ![path + 1] = [s \in Sides |-> SubSeq(wire[path][s], i[s] + 1, j[s])]]
    /\ path' = path + 1 /\ up' = TRUE
    /\ offer' = [s \in Sides |-> path + 1]
    /\ UNCHANGED <<ws, attach, chunk, sendVars, recvVars, reader, endVars>>

-----------------------------------------------------------------------------

Side(s) ==
    \/ Write(s) \/ SendChunk(s) \/ Read(s) \/ Close(s)
    \/ AttachTransport(s) \/ ReplayChunk(s) \/ AttachDone(s) \/ Expire(s) \/ Drop(s)
    \/ \E p \in Paths : ReadTransport(s, p)

Next == LosePath \/ Barrier \/ Resume \/ \E s \in Sides : Side(s)

\* The goroutines of an end run, and the relay pairs whoever waits.  Nothing
\* forces an application to write, an end to close or a path to be lost, and a
\* user who reads does so again and again.
Fairness ==
    /\ WF_vars(Barrier) /\ WF_vars(Resume)
    /\ \A s \in Sides :
         /\ WF_vars(SendChunk(s)) /\ WF_vars(Read(s))
         /\ WF_vars(AttachTransport(s)) /\ WF_vars(ReplayChunk(s)) /\ WF_vars(AttachDone(s))
         /\ WF_vars(Expire(s))
         /\ \A p \in Paths : WF_vars(ReadTransport(s, p))

Spec == Init /\ [][Next]_vars
FairSpec == Spec /\ Fairness

-----------------------------------------------------------------------------
(* Properties.                                                             *)

\* What an end has received, read or not, is its peer's stream from its first
\* byte: nothing lost, repeated or out of place, whatever transports died.
StreamIntact ==
    \A s \in Sides :
        /\ delivered[s] \o recvBuffer[s] = Run(0, recvOffset[s])
        /\ recvOffset[s] <= sendEnd[Peer[s]]

\* Every byte written and not yet received by the peer is still kept for
\* replay: an acknowledgement never frees a byte that can get lost.
UnreceivedIsKept ==
    \A s \in Sides :
        /\ sendBase[s] <= recvOffset[Peer[s]]
        /\ sendBuffer[s] = Run(sendBase[s], sendEnd[s] - sendBase[s])

\* The offset check of applyAck never fires on a current transport: a frame
\* that a relay pump carried over, or an acknowledgement delayed by an old
\* reader, is no reason to lose a good transport.
AckNeverRefused ==
    \A s \in Sides, p \in Paths :
        LET r == reader[s][p] IN
        (ws[s] = p /\ r.pc = "apply" /\ r.frame.type = "ack")
            => (sendBase[s] <= r.frame.off /\ r.frame.off <= sendEnd[s])

\* An end that is over stays over: no goroutine that was waiting for a
\* transport, for room or for a lock revives it or adds to its streams.
ClosedIsFinal ==
    [][\A s \in Sides : closed[s] =>
          /\ closed'[s] /\ terminal'[s] = terminal[s]
          /\ ws'[s] = 0 /\ sendEnd'[s] = sendEnd[s] /\ recvOffset'[s] = recvOffset[s]]_vars

\* The stream is a ByteStream: users see no transport.
Abstract == INSTANCE ByteStream WITH written <- sendEnd, ended <- closed
ImplementsByteStream == Abstract!Spec

\* Once the paths stop failing everything written is read by the other user,
\* unless one of the two ends is over.
WrittenIsDelivered ==
    []<>(\/ \A s \in Sides : Len(delivered[Peer[s]]) = sendEnd[s]
         \/ \E s \in Sides : closed[s])

\* A Write that waits for room in a full replay buffer returns: it gets room,
\* or its end is over.  Both users may be waiting so at once, with both receive
\* buffers full and a reader at each end waiting as well: the acknowledgements
\* that make room are behind the data those readers hold.
WaitForRoomEnds ==
    \A s \in Sides :
        Len(sendBuffer[s]) = SendCap ~> (Len(sendBuffer[s]) < SendCap \/ closed[s])

\* An end that is over does not leave its peer waiting: the peer gets the
\* close, or finds no transport within the window.
EndReachesPeer == \A s \in Sides : closed[s] ~> closed[Peer[s]]

\* When an end sees an orderly end of stream it has received every byte that
\* a Write of its peer had reported written.
EofMeansComplete ==
    \A s \in Sides :
        terminal[s] = "eof" =>
            recvOffset[s] >= sendEnd[Peer[s]] - Len(chunk[Peer[s]].data)
=============================================================================
