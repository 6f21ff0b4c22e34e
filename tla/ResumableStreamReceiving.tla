---------------------- MODULE ResumableStreamReceiving ----------------------
(***************************************************************************)
(* Theorems about the receiving half of ResumableStream: what is           *)
(* acknowledged has been received, what has been received is what was      *)
(* written as long as no reader waits for room, and an end that is over    *)
(* stays over.                                                             *)
(***************************************************************************)
EXTENDS ResumableStreamProofs

\* Frames of s that acknowledge no more than s has received.
PastAcks(s) == {f \in Frame : f.type = "ack" => f.off <= recvOffset[s]}

\* The inductive invariant of the acknowledgements, wherever they are: in a
\* reader of the end that received the data, on a wire, in a reader of the end
\* that sent the data, or taken into account there.
AckInv ==
    /\ \A s \in Sides : chunk[s].type = "data"
    /\ \A s \in Sides : sendBase[s] <= recvOffset[Peer[s]]
    /\ \A s \in Sides, p \in Paths : wire[p][s] \in Seq(PastAcks(s))
    /\ \A s \in Sides, p \in Paths :
         /\ reader[s][p].pc = "ack" => reader[s][p].frame \in PastAcks(s)
         /\ reader[s][p].pc = "apply" => reader[s][p].frame \in PastAcks(Peer[s])

-----------------------------------------------------------------------------
(* Which steps receive.                                                    *)

\* What applyData is about to add is what its peer wrote next.
LEMMA FreshIsNext ==
    ASSUME SendInv, NEW s \in Sides, NEW p \in Paths,
           reader[s][p].frame.type = "data", reader[s][p].frame.off <= recvOffset[s],
           reader[s][p].frame.off + Len(reader[s][p].frame.data) > recvOffset[s]
    PROVE  LET f == reader[s][p].frame
               fresh == DropFirst(f.data, recvOffset[s] - f.off)
           IN  /\ fresh \in Seq(Nat) /\ fresh = Run(recvOffset[s], Len(fresh))
               /\ recvOffset[s] + Len(fresh) <= sendEnd[Peer[s]]
<1> DEFINE f == reader[s][p].frame
<1>1. Peer[s] \in Sides
  BY ConstantTypes
<1>2. sendEnd[Peer[s]] \in Nat /\ recvOffset[s] \in Nat
  BY <1>1 DEF SendInv, TypeOK
<1>3. f \in Frame /\ f \in SoundFrames(Peer[s])
  BY HeldFrame
<1>4. f.off \in Nat /\ Len(f.data) \in Nat
  BY <1>3, FrameFields
<1>5. f.type = "data" /\ f.off <= recvOffset[s] /\ recvOffset[s] < f.off + Len(f.data)
  BY <1>2, <1>4
<1> HIDE DEF f
<1>6. LET fresh == DropFirst(f.data, recvOffset[s] - f.off)
      IN  /\ fresh = Run(recvOffset[s], f.off + Len(f.data) - recvOffset[s])
          /\ fresh \in Seq(Nat) /\ Len(fresh) = f.off + Len(f.data) - recvOffset[s]
          /\ recvOffset[s] + Len(fresh) <= sendEnd[Peer[s]]
  BY <1>1, <1>2, <1>3, <1>5, FreshBytes
<1> QED BY <1>6 DEF f

\* Three ways to receive: not at all, by a user's Read, or by a reader that
\* adds bytes, which are the ones expected unless it has waited for room.
LEMMA WhoReceives ==
    ASSUME SendInv, [Next]_vars
    PROVE  \/ UNCHANGED recvVars
           \/ UNCHANGED recvOffset /\ \E s \in Sides : Read(s)
           \/ /\ UNCHANGED delivered
              /\ \E s \in Sides, p \in Paths, data \in Seq(Nat) :
                   /\ ~closed[s] /\ Accept(s, p, data)
                   /\ \/ reader[s][p].pc = "parked"
                      \/ /\ data = Run(recvOffset[s], Len(data))
                         /\ recvOffset[s] + Len(data) <= sendEnd[Peer[s]]
<1> USE DEF netVars, sendVars, recvVars, endVars
<1>1. CASE UNCHANGED vars
  BY <1>1 DEF vars
<1>2. CASE LosePath \/ Barrier \/ Resume
  BY <1>2 DEF LosePath, Barrier, Resume
<1>3. ASSUME NEW s \in Sides,
             \/ Write(s) \/ SendChunk(s) \/ Close(s) \/ AttachTransport(s)
             \/ ReplayChunk(s) \/ AttachDone(s) \/ Expire(s) \/ Drop(s)
      PROVE  UNCHANGED recvVars
  BY <1>3 DEF Write, SendChunk, Close, AttachTransport, ReplayChunk, AttachDone, Expire, Drop
<1>4. ASSUME NEW s \in Sides, Read(s) PROVE UNCHANGED recvOffset
  BY <1>4 DEF Read
<1>5. ASSUME NEW s \in Sides, NEW p \in Paths,
             \/ ReadFrame(s, p) \/ ReadClose(s, p) \/ ReadError(s, p)
             \/ ApplyAck(s, p) \/ WriteAck(s, p)
      PROVE  UNCHANGED recvVars
  BY <1>5 DEF ReadFrame, ReadClose, ReadError, ApplyAck, WriteAck
<1>6. ASSUME NEW s \in Sides, NEW p \in Paths, ApplyData(s, p), ~UNCHANGED recvVars
      PROVE  /\ UNCHANGED delivered /\ ~closed[s]
             /\ \E data \in Seq(Nat) :
                  /\ Accept(s, p, data)
                  /\ data = Run(recvOffset[s], Len(data))
                  /\ recvOffset[s] + Len(data) <= sendEnd[Peer[s]]
  <2> DEFINE f == reader[s][p].frame
             fresh == DropFirst(f.data, recvOffset[s] - f.off)
  <2>1. /\ f.type = "data" /\ UNCHANGED delivered /\ ~closed[s]
        /\ f.off <= recvOffset[s] /\ f.off + Len(f.data) > recvOffset[s]
        /\ Accept(s, p, fresh)
    BY <1>6 DEF ApplyData, Fresh, Room
  <2>2. /\ fresh \in Seq(Nat) /\ fresh = Run(recvOffset[s], Len(fresh))
        /\ recvOffset[s] + Len(fresh) <= sendEnd[Peer[s]]
    BY <2>1, FreshIsNext
  <2> HIDE DEF f, fresh
  <2> QED BY <2>1, <2>2
<1>7. ASSUME NEW s \in Sides, NEW p \in Paths, Unpark(s, p), ~UNCHANGED recvVars
      PROVE  /\ UNCHANGED delivered /\ ~closed[s] /\ reader[s][p].pc = "parked"
             /\ \E data \in Seq(Nat) : Accept(s, p, data)
  <2>1. reader[s][p].frame.data \in Seq(Nat)
    BY HeldFrame
  <2> QED BY <1>7, <2>1 DEF Unpark
<1> QED BY <1>1, <1>2, <1>3, <1>4, <1>5, <1>6, <1>7 DEF Next, Side, ReadTransport

\* recvOffset only grows, so what was an acknowledgement of the past stays one.
LEMMA RecvGrows ==
    ASSUME SendInv, [Next]_vars, NEW s \in Sides
    PROVE  /\ recvOffset[s] \in Nat /\ recvOffset'[s] \in Nat
           /\ recvOffset[s] <= recvOffset'[s] /\ PastAcks(s) \subseteq PastAcks(s)'
<1>1. recvOffset \in [Sides -> Nat] /\ recvOffset' \in [Sides -> Nat]
  BY TypeStep DEF SendInv, TypeOK
<1>2. recvOffset[s] <= recvOffset'[s]
  <2>1. CASE UNCHANGED recvOffset
    BY <1>1, <2>1
  <2>2. ASSUME NEW t \in Sides, NEW p \in Paths, NEW data \in Seq(Nat), Accept(t, p, data)
        PROVE  recvOffset[s] <= recvOffset'[s]
    <3>1. Len(data) \in Nat /\ recvOffset' = [recvOffset EXCEPT ![t] = @ + Len(data)]
      BY <2>2 DEF Accept
    <3> QED BY <1>1, <3>1
  <2> QED BY <2>1, <2>2, WhoReceives DEF recvVars
<1>3. ASSUME NEW f \in PastAcks(s) PROVE f \in PastAcks(s)'
  <2>1. f \in Frame /\ f.off \in Nat
    BY FrameFields DEF PastAcks
  <2>2. recvOffset[s] \in Nat /\ recvOffset'[s] \in Nat
    BY <1>1
  <2> QED BY <1>2, <2>1, <2>2 DEF PastAcks
<1> QED BY <1>1, <1>2, <1>3

-----------------------------------------------------------------------------
(* Acknowledgements are about the past.                                    *)

LEMMA InitAckInv == Init => AckInv
<1> SUFFICES ASSUME Init PROVE AckInv
  OBVIOUS
<1>1. \A s \in Sides : Peer[s] \in Sides
  BY ConstantTypes
<1>2. \A s \in Sides, p \in Paths : reader[s][p].pc = "off" /\ wire[p][s] = <<>>
  BY DEF Init, ReaderOff
<1> QED BY <1>1, <1>2 DEF Init, AckInv, NoChunk, DataFrame

\* Frames that acknowledge nothing.
LEMMA NotAnAck ==
    ASSUME NEW s \in Sides, NEW f \in Frame, f.type # "ack"
    PROVE  f \in PastAcks(s)
BY DEF PastAcks

LEMMA AckInvStep == SendInv /\ AckInv /\ [Next]_vars => AckInv'
<1> SUFFICES ASSUME SendInv, AckInv, [Next]_vars PROVE AckInv'
  OBVIOUS
<1> USE DEF netVars, sendVars, recvVars, endVars
<1>1. TypeOK
  BY DEF SendInv
<1>2. \A s \in Sides : Peer[s] \in Sides
  BY ConstantTypes
<1>3. ASSUME NEW s \in Sides PROVE chunk'[s].type = "data"
  <2>1. chunk \in [Sides -> Frame] /\ chunk[s].type = "data"
    BY <1>1 DEF TypeOK, AckInv
  <2>2. CASE UNCHANGED chunk
    BY <2>1, <2>2
  <2>3. ASSUME NEW t \in Sides, NEW f, chunk' = [chunk EXCEPT ![t] = f], f.type = "data"
        PROVE  chunk'[s].type = "data"
    BY <2>1, <2>3
  <2>4. ASSUME NEW t \in Sides, Write(t) PROVE chunk'[s].type = "data"
    BY <2>3, <2>4 DEF Write, DataFrame
  <2>5. ASSUME NEW t \in Sides, SendChunk(t) PROVE chunk'[s].type = "data"
    BY <2>2, <2>3, <2>5 DEF SendChunk, NoChunk, DataFrame
  <2>6. ASSUME NEW t \in Sides,
               \/ Read(t) \/ Close(t) \/ AttachTransport(t) \/ ReplayChunk(t)
               \/ AttachDone(t) \/ Expire(t) \/ Drop(t)
        PROVE  UNCHANGED chunk
    BY <2>6 DEF Read, Close, AttachTransport, ReplayChunk, AttachDone, Expire, Drop
  <2>7. ASSUME NEW t \in Sides, NEW p \in Paths, ReadTransport(t, p) PROVE UNCHANGED chunk
    BY <2>7 DEF ReadTransport, ReadFrame, ReadClose, ReadError, ApplyAck, ApplyData, Unpark, WriteAck
  <2>8. CASE LosePath \/ Barrier \/ Resume \/ UNCHANGED vars
    BY <2>2, <2>8 DEF LosePath, Barrier, Resume, vars
  <2> QED BY <2>2, <2>4, <2>5, <2>6, <2>7, <2>8 DEF Next, Side
<1>4. ASSUME NEW s \in Sides PROVE sendBase'[s] <= recvOffset'[Peer[s]]
  <2>1. /\ sendBase \in [Sides -> Nat] /\ sendBase[s] <= recvOffset[Peer[s]]
        /\ recvOffset[Peer[s]] \in Nat /\ recvOffset'[Peer[s]] \in Nat
        /\ recvOffset[Peer[s]] <= recvOffset'[Peer[s]]
    BY <1>1, <1>2, RecvGrows DEF TypeOK, AckInv
  <2>2. CASE UNCHANGED sendBase
    BY <2>1, <2>2
  <2>3. ASSUME NEW t \in Sides, Write(t) PROVE UNCHANGED sendBase
    BY <2>3 DEF Write
  <2>4. ASSUME NEW t \in Sides, NEW p \in Paths, ApplyAck(t, p)
        PROVE  sendBase'[s] <= recvOffset'[Peer[s]]
    <3>1. reader[t][p].frame \in PastAcks(Peer[t]) /\ reader[t][p].frame.type = "ack"
      BY <2>4 DEF ApplyAck, AckInv
    <3>2. reader[t][p].frame.off \in Nat /\ reader[t][p].frame.off <= recvOffset[Peer[t]]
      BY <3>1, HeldFrame DEF PastAcks
    <3>3. UNCHANGED sendBase \/ sendBase' = [sendBase EXCEPT ![t] = reader[t][p].frame.off]
      BY <2>4 DEF ApplyAck
    <3> QED BY <2>1, <2>2, <3>2, <3>3
  <2> QED BY <2>2, <2>3, <2>4, WhoSends
<1>5. ASSUME NEW s \in Sides, NEW p \in Paths PROVE wire'[p][s] \in Seq(PastAcks(s)')
  <2> DEFINE F == [t \in Sides |-> PastAcks(t)]
  <2>1. F \in [Sides -> SUBSET Frame] /\ \A t \in Sides : F[t] = PastAcks(t)
    BY DEF PastAcks
  <2>2. OnWires(F)
    BY <2>1 DEF AckInv, OnWires
  <2>3. ASSUME NEW t \in Sides
        PROVE  chunk[t] \in F[t] /\ CloseFrame \in F[t] /\ AckFrame(recvOffset[t]) \in F[t]
    <3>1. chunk[t] \in Frame /\ chunk[t].type # "ack" /\ recvOffset[t] \in Nat
      BY <1>1 DEF TypeOK, AckInv
    <3>2. CloseFrame \in Frame /\ CloseFrame.type # "ack"
      BY FrameTypes DEF CloseFrame
    <3>3. AckFrame(recvOffset[t]) \in PastAcks(t)
      BY <3>1, FrameTypes DEF AckFrame, PastAcks
    <3> QED BY <2>1, <3>1, <3>2, <3>3, NotAnAck
  <2>4. ASSUME NEW t \in Sides, NEW n \in 0..Len(attach[t].data)
        PROVE  DataFrame(attach[t].off, TakeFirst(attach[t].data, n)) \in F[t]
    <3>1. /\ attach[t].off \in Nat /\ attach[t].data \in Seq(Nat) /\ sendEnd[t] \in Nat
          /\ attach[t].data = Run(attach[t].off, Len(attach[t].data))
          /\ attach[t].off + Len(attach[t].data) <= sendEnd[t]
      BY CopyNumbers DEF SendInv, TypeOK, AttachSound
    <3>2. DataFrame(attach[t].off, TakeFirst(attach[t].data, n)) \in Frame
      BY <3>1, ReplayedChunk DEF SoundFrames
    <3> QED BY <2>1, <3>2, NotAnAck DEF DataFrame
  <2>5. ASSUME NEW t \in Sides, NEW q \in Paths, reader[t][q].pc = "ack"
        PROVE  reader[t][q].frame \in F[t]
    BY <2>1, <2>5 DEF AckInv
  <2> HIDE DEF F
  <2>6. wire'[p][s] \in Seq(F[s])
    BY <1>1, <2>1, <2>2, <2>3, <2>4, <2>5, WiresStay
  <2> QED BY <2>1, <2>6, RecvGrows, SeqMono
<1> DEFINE Good(r, s) == /\ r.pc = "ack" => r.frame \in PastAcks(s)'
                         /\ r.pc = "apply" => r.frame \in PastAcks(Peer[s])'
<1>6. ASSUME NEW s \in Sides, NEW p \in Paths PROVE Good(reader'[s][p], s)
  <2>1. reader \in [Sides -> [Paths -> Reader]]
    BY <1>1 DEF TypeOK
  <2>2. ASSUME NEW t \in Sides, NEW q \in Paths PROVE Good(reader[t][q], t)
    <3>1. PastAcks(t) \subseteq PastAcks(t)' /\ PastAcks(Peer[t]) \subseteq PastAcks(Peer[t])'
      BY <1>2, RecvGrows
    <3> QED BY <3>1 DEF AckInv
  <2>3. ASSUME NEW t \in Sides, NEW q \in Paths, NEW r, Good(r, t),
               reader' = [reader EXCEPT ![t][q] = r]
        PROVE  Good(reader'[s][p], s)
    BY <2>1, <2>2, <2>3
  <2>4. CASE UNCHANGED reader
    BY <2>2, <2>4
  <2>5. ASSUME NEW t \in Sides, NEW q \in Paths,
               \/ reader' = [reader EXCEPT ![t][q] = ReaderOff]
               \/ reader' = [reader EXCEPT ![t][q] = ReaderIdle]
        PROVE  Good(reader'[s][p], s)
    BY <2>3, <2>5 DEF ReaderOff, ReaderIdle
  <2>6. ASSUME NEW t \in Sides, AttachDone(t) PROVE Good(reader'[s][p], s)
    <3>1. attach[t].path \in Paths
      <4>1. attach[t].path \in 0..MaxPath /\ attach[t].path # 0
        BY <1>1, <2>6 DEF AttachDone, TypeOK
      <4> QED BY <4>1, SizeAssumption DEF Paths
    <3> QED BY <2>5, <2>6, <3>1 DEF AttachDone
  <2>7. ASSUME NEW t \in Sides, NEW q \in Paths, ReadFrame(t, q) PROVE Good(reader'[s][p], s)
    <3>1. wire[q][Peer[t]] \in Seq(PastAcks(Peer[t])) /\ wire[q][Peer[t]] # <<>>
      BY <1>2, <2>7 DEF AckInv, ReadFrame
    <3>2. Head(wire[q][Peer[t]]) \in PastAcks(Peer[t])'
      BY <1>2, <3>1, SeqOps, RecvGrows
    <3> QED BY <2>3, <2>7, <3>2 DEF ReadFrame, SetReader
  <2>8. ASSUME NEW t \in Sides, NEW q \in Paths, NEW off \in Nat, off <= recvOffset'[t],
               SetReader(t, q, "ack", AckFrame(off))
        PROVE  Good(reader'[s][p], s)
    <3>1. AckFrame(off) \in PastAcks(t)'
      BY <2>8, FrameTypes DEF AckFrame, PastAcks
    <3> QED BY <2>3, <2>8, <3>1 DEF SetReader
  <2>9. ASSUME NEW t \in Sides, NEW q \in Paths, NEW data \in Seq(Nat), Accept(t, q, data)
        PROVE  Good(reader'[s][p], s)
    <3>1. recvOffset \in [Sides -> Nat] /\ Len(data) \in Nat
      <4>1. recvOffset \in [Sides -> Nat]
        BY <1>1 DEF TypeOK
      <4>2. Len(data) \in Nat
        BY SeqOps
      <4> QED BY <4>1, <4>2
    <3>2. recvOffset[t] + Len(data) \in Nat /\ recvOffset'[t] = recvOffset[t] + Len(data)
      BY <2>9, <3>1 DEF Accept
    <3>3. SetReader(t, q, "ack", AckFrame(recvOffset[t] + Len(data)))
      BY <2>9 DEF Accept
    <3> QED BY <2>8, <3>2, <3>3
  <2>10. ASSUME NEW t \in Sides, NEW q \in Paths, ApplyData(t, q) PROVE Good(reader'[s][p], s)
    <3>1. CASE GiveUp(t, q)
      BY <2>5, <3>1 DEF GiveUp
    <3>2. CASE SetReader(t, q, "ack", AckFrame(recvOffset[t]))
      BY <2>8, <3>2, RecvGrows
    <3>3. ASSUME NEW f, SetReader(t, q, "parked", f) PROVE Good(reader'[s][p], s)
      BY <2>3, <3>3 DEF SetReader
    <3>4. CASE /\ reader[t][q].frame.type = "data" /\ reader[t][q].frame.off <= recvOffset[t]
               /\ reader[t][q].frame.off + Len(reader[t][q].frame.data) > recvOffset[t]
               /\ Accept(t, q, DropFirst(reader[t][q].frame.data,
                                         recvOffset[t] - reader[t][q].frame.off))
      BY <2>9, <3>4, FreshIsNext
    <3> QED BY <2>10, <3>1, <3>2, <3>3, <3>4 DEF ApplyData, Fresh, Room
  <2>11. ASSUME NEW t \in Sides, NEW q \in Paths, Unpark(t, q) PROVE Good(reader'[s][p], s)
    <3>1. reader[t][q].frame.data \in Seq(Nat)
      BY HeldFrame
    <3> QED BY <2>5, <2>9, <2>11, <3>1 DEF Unpark, GiveUp
  <2>12. ASSUME NEW t \in Sides, NEW q \in Paths,
                ReadClose(t, q) \/ ReadError(t, q) \/ ApplyAck(t, q) \/ WriteAck(t, q)
         PROVE  Good(reader'[s][p], s)
    BY <2>5, <2>12 DEF ReadClose, ReadError, ApplyAck, WriteAck, GiveUp
  <2> QED BY <2>4, <2>6, <2>7, <2>10, <2>11, <2>12, WhoReads DEF ReadTransport
<1> QED BY <1>3, <1>4, <1>5, <1>6 DEF AckInv

\* An acknowledgement never frees a byte that its peer has not received, and
\* what is kept for replay is what was written and is not acknowledged
\* (applyAck against queueSend and applyData), whatever the relay delays.
THEOREM UnreceivedIsAlwaysKept == Spec => []UnreceivedIsKept
<1>1. SendInv /\ AckInv => UnreceivedIsKept
  BY DEF SendInv, SendSound, AckInv, UnreceivedIsKept
<1>2. Spec => [](SendInv /\ AckInv)
  BY InitSendInv, InitAckInv, SendInvStep, AckInvStep, PTL DEF Spec
<1> QED BY <1>1, <1>2, PTL

-----------------------------------------------------------------------------
(* What is received is what was written.                                   *)

\* No reader is in applyData's wait for room.
NobodyWaits == \A s \in Sides, p \in Paths : reader[s][p].pc # "parked"

\* StreamIntact, divided into what the user has read and what is buffered.
DeliveryInv ==
    \A s \in Sides :
        /\ Len(delivered[s]) <= recvOffset[s] /\ recvOffset[s] <= sendEnd[Peer[s]]
        /\ delivered[s] = Run(0, Len(delivered[s]))
        /\ recvBuffer[s] = Run(Len(delivered[s]), recvOffset[s] - Len(delivered[s]))

LEMMA DeliveryTypes ==
    ASSUME SendInv, DeliveryInv, NEW s \in Sides
    PROVE  /\ Len(delivered[s]) \in Nat /\ recvOffset[s] \in Nat
           /\ recvOffset[s] - Len(delivered[s]) \in Nat
           /\ Len(recvBuffer[s]) = recvOffset[s] - Len(delivered[s])
<1>1. recvOffset[s] \in Nat
  BY DEF SendInv, TypeOK
<1>2. Len(delivered[s]) \in Nat
  <2>1. delivered[s] \in Seq(Nat)
    BY DEF SendInv, TypeOK
  <2> QED BY <2>1
<1>3. recvOffset[s] - Len(delivered[s]) \in Nat
  BY <1>1, <1>2 DEF DeliveryInv
<1>4. Len(Run(Len(delivered[s]), recvOffset[s] - Len(delivered[s]))) = recvOffset[s] - Len(delivered[s])
  BY <1>2, <1>3, RunIsSeq
<1>5. recvBuffer[s] = Run(Len(delivered[s]), recvOffset[s] - Len(delivered[s]))
  BY DEF DeliveryInv
<1> QED BY <1>1, <1>2, <1>3, <1>4, <1>5

LEMMA InitDeliveryInv == Init => DeliveryInv
<1> SUFFICES ASSUME Init, NEW s \in Sides
             PROVE  /\ Len(delivered[s]) <= recvOffset[s] /\ recvOffset[s] <= sendEnd[Peer[s]]
                    /\ delivered[s] = Run(0, Len(delivered[s]))
                    /\ recvBuffer[s] = Run(Len(delivered[s]), recvOffset[s] - Len(delivered[s]))
  BY DEF DeliveryInv
<1>1. Peer[s] \in Sides
  BY ConstantTypes
<1>2. /\ delivered[s] = <<>> /\ recvBuffer[s] = <<>> /\ recvOffset[s] = 0
      /\ sendEnd[Peer[s]] = 0
  BY <1>1 DEF Init
<1>3. Len(<<>>) = 0 /\ Run(0, 0) = <<>>
  BY EmptyRun
<1> QED BY <1>2, <1>3

\* A user's Read moves the first bytes of the buffer to the end of what it read.
LEMMA ReadMoves ==
    ASSUME SendInv, DeliveryInv, NEW s \in Sides, Read(s)
    PROVE  \E n \in 1..(recvOffset[s] - Len(delivered[s])) :
             /\ delivered' = [delivered EXCEPT ![s] = @ \o Run(Len(@), n)]
             /\ delivered'[s] = Run(0, Len(delivered[s]) + n)
             /\ Len(delivered'[s]) = Len(delivered[s]) + n
             /\ recvBuffer' = [recvBuffer EXCEPT
                                 ![s] = Run(Len(delivered[s]) + n,
                                            recvOffset[s] - (Len(delivered[s]) + n))]
<1> DEFINE d == Len(delivered[s])
           m == recvOffset[s] - d
<1>1. d \in Nat /\ m \in Nat /\ Len(recvBuffer[s]) = m /\ recvBuffer[s] = Run(d, m)
      /\ delivered[s] = Run(0, d) /\ recvOffset[s] \in Nat
  BY DeliveryTypes DEF DeliveryInv
<1>2. PICK n \in 1..Len(recvBuffer[s]) :
        /\ delivered' = [delivered EXCEPT ![s] = delivered[s] \o TakeFirst(recvBuffer[s], n)]
        /\ recvBuffer' = [recvBuffer EXCEPT ![s] = DropFirst(recvBuffer[s], n)]
  BY DEF Read
<1>3. n \in 0..m /\ n \in 1..m /\ n \in Nat
  BY <1>1, <1>2
<1>4. TakeFirst(Run(d, m), n) = Run(d, n) /\ DropFirst(Run(d, m), n) = Run(d + n, m - n)
  <2> HIDE DEF d, m
  <2> QED BY <1>1, <1>3, TakeFromRun, DropFromRun
<1>5. m - n = recvOffset[s] - (d + n) /\ d + n \in Nat
  BY <1>1, <1>3
<1>6. Run(0, d) \o Run(d, n) = Run(0, d + n) /\ Len(Run(0, d + n)) = d + n
  <2> HIDE DEF d, m
  <2>1. Run(0, d) \o Run(0 + d, n) = Run(0, d + n)
    <3>1. 0 \in Nat /\ d \in Nat /\ n \in Nat
      BY <1>1, <1>3
    <3> QED BY <3>1, JoinRuns
  <2>2. 0 + d = d /\ 0 \in Nat
    BY <1>1
  <2>3. Len(Run(0, d + n)) = d + n
    BY <1>5, <2>2, RunIsSeq
  <2> QED BY <2>1, <2>2, <2>3
<1>7. delivered \in [Sides -> Seq(Nat)]
  BY DEF SendInv, TypeOK
<1>8. delivered' = [delivered EXCEPT ![s] = delivered[s] \o Run(d, n)]
  BY <1>1, <1>2, <1>4
<1>9. delivered'[s] = Run(0, d + n) /\ Len(delivered'[s]) = d + n
  <2>1. delivered'[s] = delivered[s] \o Run(d, n)
    BY <1>7, <1>8
  <2> HIDE DEF d, m
  <2> QED BY <1>1, <1>6, <2>1
<1>10. recvBuffer' = [recvBuffer EXCEPT ![s] = Run(d + n, recvOffset[s] - (d + n))]
  <2> HIDE DEF d, m
  <2> QED BY <1>1, <1>2, <1>4, <1>5
<1> QED BY <1>3, <1>8, <1>9, <1>10

LEMMA DeliveryInvStep == SendInv /\ DeliveryInv /\ NobodyWaits /\ [Next]_vars => DeliveryInv'
<1> SUFFICES ASSUME SendInv, DeliveryInv, NobodyWaits, [Next]_vars PROVE DeliveryInv'
  OBVIOUS
<1> DEFINE Intact(s) ==
             /\ Len(delivered[s]) <= recvOffset[s] /\ recvOffset[s] <= sendEnd[Peer[s]]
             /\ delivered[s] = Run(0, Len(delivered[s]))
             /\ recvBuffer[s] = Run(Len(delivered[s]), recvOffset[s] - Len(delivered[s]))
<1>1. \A s \in Sides : Intact(s)
  BY DEF DeliveryInv
<1>2. /\ delivered \in [Sides -> Seq(Nat)] /\ recvBuffer \in [Sides -> Seq(Nat)]
      /\ recvOffset \in [Sides -> Nat]
  BY DEF SendInv, TypeOK
<1>3. ASSUME NEW s \in Sides
      PROVE  /\ Peer[s] \in Sides /\ sendEnd[Peer[s]] \in Nat /\ sendEnd'[Peer[s]] \in Nat
             /\ sendEnd[Peer[s]] <= sendEnd'[Peer[s]]
  <2>1. Peer[s] \in Sides
    BY ConstantTypes
  <2>2. sendEnd[Peer[s]] \in Nat /\ sendEnd'[Peer[s]] \in Nat
    BY <2>1, TypeStep DEF SendInv, TypeOK
  <2> QED BY <2>1, <2>2, SoundStays
<1>4. ASSUME NEW s \in Sides, delivered'[s] = delivered[s], recvBuffer'[s] = recvBuffer[s],
             recvOffset'[s] = recvOffset[s]
      PROVE  Intact(s)'
  <2>1. recvOffset[s] \in Nat /\ Intact(s)
    BY <1>1, <1>2
  <2>2. recvOffset'[s] <= sendEnd'[Peer[s]]
    BY <1>3, <1>4, <2>1
  <2> QED BY <1>4, <2>1, <2>2
<1>5. CASE UNCHANGED recvVars
  BY <1>4, <1>5 DEF recvVars, DeliveryInv
<1>6. ASSUME NEW s \in Sides, Read(s), UNCHANGED recvOffset PROVE DeliveryInv'
  <2>1. PICK n \in 1..(recvOffset[s] - Len(delivered[s])) :
             /\ delivered' = [delivered EXCEPT ![s] = @ \o Run(Len(@), n)]
             /\ delivered'[s] = Run(0, Len(delivered[s]) + n)
             /\ Len(delivered'[s]) = Len(delivered[s]) + n
             /\ recvBuffer' = [recvBuffer EXCEPT
                                 ![s] = Run(Len(delivered[s]) + n,
                                            recvOffset[s] - (Len(delivered[s]) + n))]
    BY <1>6, ReadMoves
  <2>2. Len(delivered[s]) \in Nat /\ recvOffset[s] \in Nat
    BY DeliveryTypes
  <2>3. Intact(s)'
    <3>1. Len(delivered'[s]) <= recvOffset'[s]
      BY <1>6, <2>1, <2>2
    <3>2. recvBuffer'[s] = Run(Len(delivered'[s]), recvOffset'[s] - Len(delivered'[s]))
      BY <1>2, <1>6, <2>1
    <3>3. recvOffset'[s] <= sendEnd'[Peer[s]]
      BY <1>1, <1>3, <1>6, <2>2
    <3> QED BY <2>1, <3>1, <3>2, <3>3
  <2>4. ASSUME NEW t \in Sides, t # s PROVE Intact(t)'
    <3>1. delivered'[t] = delivered[t] /\ recvBuffer'[t] = recvBuffer[t] /\ recvOffset'[t] = recvOffset[t]
      BY <1>2, <1>6, <2>1, <2>4
    <3> QED BY <1>4, <3>1
  <2>5. \A t \in Sides : Intact(t)'
    BY <2>3, <2>4
  <2> QED BY <2>5 DEF DeliveryInv
<1>7. ASSUME UNCHANGED delivered, NEW s \in Sides, NEW p \in Paths, NEW data \in Seq(Nat),
             Accept(s, p, data), data = Run(recvOffset[s], Len(data)),
             recvOffset[s] + Len(data) <= sendEnd[Peer[s]]
      PROVE  DeliveryInv'
  <2> DEFINE d == Len(delivered[s])
             m == recvOffset[s] - d
             n == Len(data)
  <2>1. d \in Nat /\ m \in Nat /\ recvOffset[s] \in Nat /\ d + m = recvOffset[s]
    BY DeliveryTypes
  <2>2. n \in Nat
    BY SeqOps
  <2>3. /\ recvBuffer' = [recvBuffer EXCEPT ![s] = recvBuffer[s] \o data]
        /\ recvOffset' = [recvOffset EXCEPT ![s] = recvOffset[s] + n]
    BY <1>7 DEF Accept
  <2>4. Run(d, m) \o Run(d + m, n) = Run(d, m + n)
    <3> HIDE DEF d, m, n
    <3> QED BY <2>1, <2>2, JoinRuns
  <2>5. recvBuffer[s] = Run(d, m) /\ data = Run(d + m, n)
    BY <1>1, <1>7, <2>1
  <2>6. Intact(s)'
    <3>1. delivered'[s] = delivered[s] /\ recvOffset'[s] = recvOffset[s] + n
      BY <1>2, <1>7, <2>3
    <3>2. recvBuffer'[s] = Run(d, m + n)
      <4>1. recvBuffer'[s] = recvBuffer[s] \o data
        BY <1>2, <2>3
      <4> HIDE DEF d, m, n
      <4> QED BY <2>4, <2>5, <4>1
    <3>3. m + n = recvOffset'[s] - d /\ d <= recvOffset'[s]
      BY <2>1, <2>2, <3>1
    <3>4. recvOffset'[s] <= sendEnd'[Peer[s]]
      BY <1>3, <1>7, <2>1, <2>2, <3>1
    <3>5. delivered[s] = Run(0, d) /\ Len(delivered'[s]) = d
      BY <1>1, <3>1
    <3> QED BY <3>1, <3>2, <3>3, <3>4, <3>5
  <2>7. ASSUME NEW t \in Sides, t # s PROVE Intact(t)'
    <3>1. delivered'[t] = delivered[t] /\ recvBuffer'[t] = recvBuffer[t] /\ recvOffset'[t] = recvOffset[t]
      BY <1>2, <1>7, <2>3, <2>7
    <3> QED BY <1>4, <3>1
  <2>8. \A t \in Sides : Intact(t)'
    BY <2>6, <2>7
  <2> QED BY <2>8 DEF DeliveryInv
<1> QED BY <1>5, <1>6, <1>7, WhoReceives DEF NobodyWaits

LEMMA DeliveryInvIsIntact == SendInv /\ DeliveryInv => StreamIntact
<1> SUFFICES ASSUME SendInv, DeliveryInv, NEW s \in Sides
             PROVE  /\ delivered[s] \o recvBuffer[s] = Run(0, recvOffset[s])
                    /\ recvOffset[s] <= sendEnd[Peer[s]]
  BY DEF StreamIntact
<1> DEFINE d == Len(delivered[s])
           m == recvOffset[s] - d
<1>1. d \in Nat /\ m \in Nat /\ d + m = recvOffset[s] /\ 0 + d = d
  BY DeliveryTypes
<1>2. delivered[s] = Run(0, d) /\ recvBuffer[s] = Run(d, m)
  BY DEF DeliveryInv
<1>3. Run(0, d) \o Run(0 + d, m) = Run(0, d + m)
  <2> HIDE DEF d, m
  <2> QED BY <1>1, JoinRuns
<1>4. delivered[s] \o recvBuffer[s] = Run(0, recvOffset[s])
  <2> HIDE DEF d, m
  <2> QED BY <1>1, <1>2, <1>3
<1> QED BY <1>4 DEF DeliveryInv

\* In every behaviour in which no reader ever waits in applyData for room, what
\* the two ends have received is what was written, in order, each byte once.
THEOREM IntactUnlessFull == Spec /\ []NobodyWaits => []StreamIntact
<1>1. Spec /\ []NobodyWaits => [](SendInv /\ DeliveryInv)
  BY SendInvHolds, InitDeliveryInv, DeliveryInvStep, PTL DEF Spec
<1> QED BY <1>1, DeliveryInvIsIntact, PTL

\* The same for every stream that a receive buffer can hold as a whole: then no
\* reader ever has to wait.
LEMMA NobodyWaitsStep ==
    ASSUME RecvCap >= AgentBytes, RecvCap >= ClientBytes
    PROVE  SendInv /\ DeliveryInv /\ NobodyWaits /\ [Next]_vars => NobodyWaits'
<1> SUFFICES ASSUME SendInv, DeliveryInv, NobodyWaits, [Next]_vars PROVE NobodyWaits'
  OBVIOUS
<1>1. reader \in [Sides -> [Paths -> Reader]]
  BY DEF SendInv, TypeOK
<1>2. CASE UNCHANGED reader
  BY <1>2 DEF NobodyWaits
<1>3. ASSUME NEW s \in Sides, NEW p \in Paths, NEW r, reader' = [reader EXCEPT ![s][p] = r],
             r.pc # "parked"
      PROVE  NobodyWaits'
  BY <1>1, <1>3 DEF NobodyWaits
<1>4. ASSUME NEW s \in Sides, NEW p \in Paths,
             \/ reader' = [reader EXCEPT ![s][p] = ReaderOff]
             \/ reader' = [reader EXCEPT ![s][p] = ReaderIdle]
      PROVE  NobodyWaits'
  <2>1. ReaderOff.pc # "parked" /\ ReaderIdle.pc # "parked"
    BY DEF ReaderOff, ReaderIdle
  <2> QED BY <1>3, <1>4, <2>1
<1>8. ASSUME NEW s \in Sides, NEW p \in Paths, NEW pc, NEW f, SetReader(s, p, pc, f), pc # "parked"
      PROVE  NobodyWaits'
  <2> DEFINE r == [pc |-> pc, frame |-> f]
  <2>1. r.pc # "parked" /\ reader' = [reader EXCEPT ![s][p] = r]
    BY <1>8 DEF SetReader
  <2> HIDE DEF r
  <2> QED BY <1>3, <2>1
<1>5. ASSUME NEW s \in Sides, AttachDone(s) PROVE NobodyWaits'
  <2>1. attach[s].path \in 0..MaxPath /\ attach[s].path # 0
    BY <1>5 DEF SendInv, AttachDone, TypeOK
  <2>2. attach[s].path \in Paths
    BY <2>1, SizeAssumption DEF Paths
  <2> QED BY <1>4, <1>5, <2>2 DEF AttachDone
<1>6. ASSUME NEW s \in Sides, NEW p \in Paths, ApplyData(s, p) PROVE NobodyWaits'
  <2> DEFINE f == reader[s][p].frame
             fresh == DropFirst(f.data, recvOffset[s] - f.off)
  <2>1. CASE \/ GiveUp(s, p) \/ SetReader(s, p, "ack", AckFrame(recvOffset[s]))
             \/ Accept(s, p, fresh)
    BY <1>4, <1>8, <2>1 DEF GiveUp, Accept
  <2>2. CASE /\ f.type = "data" /\ f.off <= recvOffset[s] /\ f.off + Len(f.data) > recvOffset[s]
             /\ ~(Len(recvBuffer[s]) + Len(fresh) <= RecvCap)
    <3>1. fresh \in Seq(Nat) /\ recvOffset[s] + Len(fresh) <= sendEnd[Peer[s]]
      BY <2>2, FreshIsNext
    <3>2. Len(fresh) \in Nat
      BY <3>1, SeqOps
    <3>3. /\ Len(delivered[s]) \in Nat /\ recvOffset[s] \in Nat
          /\ Len(recvBuffer[s]) = recvOffset[s] - Len(delivered[s])
      BY DeliveryTypes
    <3>4. Peer[s] \in Sides
      BY ConstantTypes
    <3>5. sendEnd[Peer[s]] \in Nat /\ sendEnd[Peer[s]] <= Budget[Peer[s]]
      BY <3>4 DEF SendInv, TypeOK, SendSound
    <3>6. Budget[Peer[s]] \in Nat /\ Budget[Peer[s]] <= RecvCap /\ RecvCap \in Nat
      BY <3>4, SizeAssumption DEF Budget
    <3> HIDE DEF f, fresh
    <3> QED BY <2>2, <3>1, <3>2, <3>3, <3>5, <3>6
  <2> QED BY <1>6, <2>1, <2>2 DEF ApplyData, Fresh, Room
<1>7. ASSUME NEW s \in Sides, NEW p \in Paths,
             \/ ReadFrame(s, p) \/ ReadClose(s, p) \/ ReadError(s, p)
             \/ ApplyAck(s, p) \/ Unpark(s, p) \/ WriteAck(s, p)
      PROVE  NobodyWaits'
  BY <1>4, <1>7, <1>8
  DEF ReadFrame, ReadClose, ReadError, ApplyAck, Unpark, WriteAck, GiveUp, Accept
<1> QED BY <1>2, <1>5, <1>6, <1>7, WhoReads DEF ReadTransport

\* A session that writes no more than a receive buffer holds is never damaged.
THEOREM SmallStreamsIntact ==
    ASSUME RecvCap >= AgentBytes, RecvCap >= ClientBytes
    PROVE  Spec => []StreamIntact
<1>1. Init => NobodyWaits
  BY DEF Init, NobodyWaits, ReaderOff
<1>2. SendInv /\ DeliveryInv /\ NobodyWaits /\ [Next]_vars => NobodyWaits'
  BY NobodyWaitsStep
<1>3. Spec => [](SendInv /\ DeliveryInv)
  BY <1>1, <1>2, SendInvHolds, InitDeliveryInv, DeliveryInvStep, PTL DEF Spec
<1> QED BY <1>3, DeliveryInvIsIntact, PTL

-----------------------------------------------------------------------------
(* The stream without its transports.                                      *)

\* Every step is a step of ByteStream, or shows nothing to the two users.
LEMMA StepIsByteStream ==
    SendInv /\ DeliveryInv /\ [Next]_vars => [Abstract!Next]_(Abstract!streamVars)
<1> SUFFICES ASSUME SendInv, DeliveryInv, [Next]_vars
             PROVE  Abstract!Next \/ UNCHANGED <<sendEnd, delivered, closed>>
  BY DEF Abstract!streamVars
<1> USE DEF netVars, sendVars, recvVars, endVars
<1>1. ASSUME NEW s \in Sides, Write(s) PROVE Abstract!WriteBytes(s)
  <2>1. sendEnd \in [Sides -> Nat]
    BY DEF SendInv, TypeOK
  <2>2. PICK n \in 1..ChunkSize : sendEnd' = [sendEnd EXCEPT ![s] = @ + n]
    BY <1>1 DEF Write
  <2>3. n \in Nat /\ n > 0
    BY SizeAssumption
  <2>4. sendEnd'[s] = sendEnd[s] + n /\ sendEnd[s] \in Nat
    BY <2>1, <2>2
  <2>5. sendEnd'[s] \in Nat /\ sendEnd'[s] > sendEnd[s]
    BY <2>3, <2>4
  <2>6. sendEnd' = [sendEnd EXCEPT ![s] = sendEnd'[s]]
    BY <2>1, <2>2, <2>4
  <2>7. ~closed[s] /\ UNCHANGED <<delivered, closed>>
    BY <1>1 DEF Write
  <2> QED BY <2>5, <2>6, <2>7 DEF Abstract!WriteBytes
<1>2. ASSUME NEW s \in Sides, Read(s) PROVE Abstract!ReadBytes(s)
  <2>1. PICK n \in 1..(recvOffset[s] - Len(delivered[s])) :
             delivered' = [delivered EXCEPT ![s] = @ \o Run(Len(@), n)]
    BY <1>2, ReadMoves
  <2>2. Peer[s] \in Sides
    BY ConstantTypes
  <2>3. Len(delivered[s]) \in Nat /\ recvOffset[s] \in Nat /\ sendEnd[Peer[s]] \in Nat
    BY <2>2, DeliveryTypes DEF SendInv, TypeOK
  <2>4. recvOffset[s] <= sendEnd[Peer[s]]
    BY DEF DeliveryInv
  <2>5. n \in 1..(sendEnd[Peer[s]] - Len(delivered[s]))
    BY <2>3, <2>4
  <2>6. UNCHANGED <<sendEnd, closed>>
    BY <1>2 DEF Read
  <2>7. \E m \in 1..(sendEnd[Peer[s]] - Len(delivered[s])) :
          delivered' = [delivered EXCEPT ![s] = @ \o Run(Len(@), m)]
    BY <2>1, <2>5
  <2> QED BY <2>6, <2>7 DEF Abstract!ReadBytes, Abstract!Run, Run
<1>3. ASSUME NEW s \in Sides, \/ Close(s) \/ Expire(s)
                              \/ \E p \in Paths : ReadClose(s, p)
      PROVE  Abstract!End(s) \/ UNCHANGED <<sendEnd, delivered, closed>>
  BY <1>3 DEF Close, Expire, ReadClose, Abstract!End
<1>4. ASSUME NEW s \in Sides,
             \/ SendChunk(s) \/ AttachTransport(s) \/ ReplayChunk(s) \/ AttachDone(s) \/ Drop(s)
      PROVE  UNCHANGED <<sendEnd, delivered, closed>>
  BY <1>4 DEF SendChunk, AttachTransport, ReplayChunk, AttachDone, Drop
<1>5. ASSUME NEW s \in Sides, NEW p \in Paths,
             \/ ReadFrame(s, p) \/ ReadError(s, p) \/ ApplyAck(s, p)
             \/ ApplyData(s, p) \/ Unpark(s, p) \/ WriteAck(s, p)
      PROVE  UNCHANGED <<sendEnd, delivered, closed>>
  BY <1>5 DEF ReadFrame, ReadError, ApplyAck, ApplyData, Unpark, WriteAck
<1>6. CASE LosePath \/ Barrier \/ Resume \/ UNCHANGED vars
  BY <1>6 DEF LosePath, Barrier, Resume, vars
<1> QED BY <1>1, <1>2, <1>3, <1>4, <1>5, <1>6 DEF Next, Side, ReadTransport, Abstract!Next

\* Unless a reader waits for room, the two users see a reliable byte stream
\* and nothing of its transports.
THEOREM ByteStreamUnlessFull == Spec /\ []NobodyWaits => ImplementsByteStream
<1>1. Init => Abstract!Init
  BY DEF Init, Abstract!Init
<1>2. Spec /\ []NobodyWaits => [](SendInv /\ DeliveryInv)
  BY SendInvHolds, InitDeliveryInv, DeliveryInvStep, PTL DEF Spec
<1>3. Spec /\ []NobodyWaits => Abstract!Spec
  BY <1>1, <1>2, StepIsByteStream, PTL DEF Spec, Abstract!Spec
<1> QED BY <1>3 DEF ImplementsByteStream

-----------------------------------------------------------------------------
(* An end that is over.                                                    *)

OverInv == \A s \in Sides : closed[s] => ws[s] = 0

LEMMA OverStep ==
    SendInv /\ OverInv /\ [Next]_vars =>
        /\ OverInv'
        /\ \A s \in Sides : closed[s] =>
              /\ closed'[s] /\ terminal'[s] = terminal[s]
              /\ ws'[s] = 0 /\ sendEnd'[s] = sendEnd[s] /\ recvOffset'[s] = recvOffset[s]
<1> SUFFICES ASSUME SendInv, OverInv, [Next]_vars
             PROVE  \A s \in Sides :
                      /\ closed'[s] => ws'[s] = 0
                      /\ closed[s] => /\ closed'[s] /\ terminal'[s] = terminal[s]
                                      /\ sendEnd'[s] = sendEnd[s]
                                      /\ recvOffset'[s] = recvOffset[s]
  BY DEF OverInv
<1> USE DEF netVars, sendVars, recvVars, endVars
<1>1. /\ ws \in [Sides -> 0..MaxPath] /\ closed \in [Sides -> BOOLEAN]
      /\ terminal \in [Sides -> Terminals]
      /\ sendEnd \in [Sides -> Nat] /\ recvOffset \in [Sides -> Nat]
  BY DEF SendInv, TypeOK
<1>2. ASSUME NEW s \in Sides, closed[s] PROVE sendEnd'[s] = sendEnd[s]
  <2>1. ASSUME NEW t \in Sides, Write(t) PROVE sendEnd'[s] = sendEnd[s]
    <3>1. t # s
      BY <1>2, <2>1 DEF Write
    <3>2. PICK n : sendEnd' = [sendEnd EXCEPT ![t] = n]
      BY <2>1 DEF Write
    <3> QED BY <1>1, <3>1, <3>2
  <2> QED BY <2>1, WhoSends
<1>3. ASSUME NEW s \in Sides, closed[s] PROVE recvOffset'[s] = recvOffset[s]
  <2>1. ASSUME NEW t \in Sides, NEW p \in Paths, NEW data \in Seq(Nat), ~closed[t], Accept(t, p, data)
        PROVE  recvOffset'[s] = recvOffset[s]
    BY <1>1, <1>3, <2>1 DEF Accept
  <2> QED BY <2>1, WhoReceives
<1> DEFINE Over(s) == /\ closed'[s] => ws'[s] = 0
                      /\ closed[s] => closed'[s] /\ terminal'[s] = terminal[s]
<1>4. ASSUME UNCHANGED endVars, UNCHANGED ws PROVE \A s \in Sides : Over(s)
  BY <1>4 DEF OverInv
<1>5. ASSUME NEW s \in Sides,
             \/ ws' = [ws EXCEPT ![s] = 0]
             \/ \E p : ws' = DroppedWs(s, p)
      PROVE  \A t \in Sides : closed[t] => ws'[t] = 0
  BY <1>1, <1>5 DEF DroppedWs, OverInv
<1>6. ASSUME NEW s \in Sides, SendChunk(s) \/ ReplayChunk(s) \/ Drop(s) PROVE \A t \in Sides : Over(t)
  <2>1. UNCHANGED endVars
    BY <1>6 DEF SendChunk, ReplayChunk, Drop
  <2>2. UNCHANGED ws \/ ws' = [ws EXCEPT ![s] = 0] \/ \E p : ws' = DroppedWs(s, p)
    BY <1>6 DEF SendChunk, ReplayChunk, Drop
  <2> QED BY <1>4, <1>5, <2>1, <2>2
<1>7. ASSUME NEW s \in Sides, AttachTransport(s) PROVE \A t \in Sides : Over(t)
  <2>1. UNCHANGED endVars /\ (UNCHANGED ws \/ (~closed[s] /\ ws' = [ws EXCEPT ![s] = offer[s]]))
    BY <1>7 DEF AttachTransport
  <2> QED BY <1>1, <1>4, <2>1 DEF OverInv
<1>8. ASSUME NEW s \in Sides, \/ Close(s) \/ Expire(s)
                              \/ \E p \in Paths : ReadClose(s, p)
      PROVE  \A t \in Sides : Over(t)
  <2>1. \/ UNCHANGED endVars /\ UNCHANGED ws
        \/ /\ ~closed[s] /\ closed' = [closed EXCEPT ![s] = TRUE]
           /\ (UNCHANGED terminal \/ \E e : terminal' = [terminal EXCEPT ![s] = e])
           /\ ((UNCHANGED ws /\ ws[s] = 0) \/ ws' = [ws EXCEPT ![s] = 0])
    BY <1>8 DEF Close, Expire, ReadClose
  <2> QED BY <1>1, <1>4, <2>1 DEF OverInv
<1>9. ASSUME NEW s \in Sides, NEW p \in Paths,
             \/ ReadFrame(s, p) \/ ReadError(s, p) \/ ApplyAck(s, p)
             \/ ApplyData(s, p) \/ Unpark(s, p) \/ WriteAck(s, p)
      PROVE  \A t \in Sides : Over(t)
  <2>1. UNCHANGED endVars
    BY <1>9 DEF ReadFrame, ReadError, ApplyAck, ApplyData, Unpark, WriteAck
  <2>2. UNCHANGED ws \/ \E q : ws' = DroppedWs(s, q)
    BY <1>9 DEF ReadFrame, ReadError, ApplyAck, ApplyData, Unpark, WriteAck, GiveUp
  <2> QED BY <1>4, <1>5, <2>1, <2>2
<1>10. ASSUME NEW s \in Sides, Write(s) \/ Read(s) \/ AttachDone(s)
       PROVE  UNCHANGED endVars /\ UNCHANGED ws
  BY <1>10 DEF Write, Read, AttachDone
<1>11. CASE LosePath \/ Barrier \/ Resume \/ UNCHANGED vars
  BY <1>4, <1>11 DEF LosePath, Barrier, Resume, vars
<1>12. \A s \in Sides : Over(s)
  BY <1>4, <1>6, <1>7, <1>8, <1>9, <1>10, <1>11 DEF Next, Side, ReadTransport
<1> HIDE DEF Over
<1>13. ASSUME NEW s \in Sides
       PROVE  /\ closed'[s] => ws'[s] = 0
              /\ closed[s] => /\ closed'[s] /\ terminal'[s] = terminal[s]
                              /\ sendEnd'[s] = sendEnd[s] /\ recvOffset'[s] = recvOffset[s]
  <2>1. Over(s)
    BY <1>12
  <2>2. closed[s] => sendEnd'[s] = sendEnd[s] /\ recvOffset'[s] = recvOffset[s]
    BY <1>2, <1>3
  <2> QED BY <2>1, <2>2 DEF Over
<1> QED BY <1>13

\* Close, Expire and the peer's close are final: no goroutine that was waiting
\* for a transport, for room or for a lock revives an end that is over.
THEOREM OverForGood == Spec => ClosedIsFinal
<1>1. Init => OverInv
  BY DEF Init, OverInv
<1>2. Spec => [](SendInv /\ OverInv)
  BY <1>1, SendInvHolds, OverStep, PTL DEF Spec
<1>3. SendInv /\ OverInv /\ [Next]_vars =>
        [\A s \in Sides : closed[s] =>
              /\ closed'[s] /\ terminal'[s] = terminal[s]
              /\ ws'[s] = 0 /\ sendEnd'[s] = sendEnd[s] /\ recvOffset'[s] = recvOffset[s]]_vars
  BY OverStep DEF OverInv
<1> QED BY <1>2, <1>3, PTL DEF Spec, ClosedIsFinal
=============================================================================
