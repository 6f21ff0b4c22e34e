------------------------ MODULE ResumableStreamProofs ------------------------
(***************************************************************************)
(* Theorems about ResumableStream, for every number of bytes, paths and    *)
(* carried frames and every chunk and buffer size.                         *)
(***************************************************************************)
EXTENDS ResumableStream, TLAPS

-----------------------------------------------------------------------------
(* What cutting and joining runs of bytes gives.                           *)

\* A run is a sequence of positions with as many elements as it has bytes.
LEMMA RunIsSeq ==
    ASSUME NEW a \in Nat, NEW n \in Nat
    PROVE  /\ Run(a, n) \in Seq(Nat)
           /\ Len(Run(a, n)) = n
           /\ \A i \in 1..n : Run(a, n)[i] = a + i
BY DEF Run

\* No bytes are the empty sequence.
LEMMA EmptyRun == ASSUME NEW a \in Nat PROVE Run(a, 0) = <<>>
BY DEF Run

\* Two sequences of the same length and elements are the same.
LEMMA SameSeq ==
    ASSUME NEW s \in Seq(Nat), NEW t \in Seq(Nat),
           Len(s) = Len(t), \A i \in 1..Len(s) : s[i] = t[i]
    PROVE  s = t
OBVIOUS

\* What joining two sequences gives, element by element.
LEMMA JoinSeqs ==
    ASSUME NEW s \in Seq(Nat), NEW t \in Seq(Nat)
    PROVE  /\ s \o t \in Seq(Nat)
           /\ Len(s \o t) = Len(s) + Len(t)
           /\ \A i \in 1..(Len(s) + Len(t)) :
                (s \o t)[i] = IF i <= Len(s) THEN s[i] ELSE t[i - Len(s)]
OBVIOUS

\* A run followed by the run that starts where it ends is one run.
LEMMA JoinRuns ==
    ASSUME NEW a \in Nat, NEW n \in Nat, NEW m \in Nat
    PROVE  Run(a, n) \o Run(a + n, m) = Run(a, n + m)
<1> DEFINE x == Run(a, n)
           y == Run(a + n, m)
<1>1. x \in Seq(Nat) /\ Len(x) = n /\ \A i \in 1..n : x[i] = a + i
  BY RunIsSeq
<1>2. y \in Seq(Nat) /\ Len(y) = m /\ \A i \in 1..m : y[i] = a + n + i
  <2>1. a + n \in Nat
    OBVIOUS
  <2> QED BY <2>1, RunIsSeq
<1>3. /\ Run(a, n + m) \in Seq(Nat) /\ Len(Run(a, n + m)) = n + m
      /\ \A i \in 1..(n + m) : Run(a, n + m)[i] = a + i
  <2>1. n + m \in Nat
    OBVIOUS
  <2> QED BY <2>1, RunIsSeq
<1> SUFFICES x \o y = Run(a, n + m)
  OBVIOUS
<1> HIDE DEF x, y
<1>4. /\ x \o y \in Seq(Nat) /\ Len(x \o y) = n + m
      /\ \A i \in 1..(n + m) : (x \o y)[i] = IF i <= n THEN x[i] ELSE y[i - n]
  BY <1>1, <1>2, JoinSeqs
<1>5. \A i \in 1..(n + m) : (x \o y)[i] = a + i
  <2> TAKE i \in 1..(n + m)
  <2>1. CASE i <= n
    BY <2>1, <1>1, <1>4
  <2>2. CASE ~(i <= n)
    <3>1. i - n \in 1..m
      BY <2>2
    <3>2. y[i - n] = a + n + (i - n)
      BY <3>1, <1>2
    <3>3. (x \o y)[i] = y[i - n]
      BY <2>2, <1>4
    <3> QED BY <3>2, <3>3
  <2> QED BY <2>1, <2>2
<1> QED BY <1>3, <1>4, <1>5, SameSeq

\* Cutting the first k bytes off a run leaves the run of the others.
LEMMA DropFromRun ==
    ASSUME NEW a \in Nat, NEW n \in Nat, NEW k \in 0..n
    PROVE  DropFirst(Run(a, n), k) = Run(a + k, n - k)
<1> DEFINE d == DropFirst(Run(a, n), k)
<1>1. Run(a, n) \in Seq(Nat) /\ Len(Run(a, n)) = n /\ \A i \in 1..n : Run(a, n)[i] = a + i
  BY RunIsSeq
<1>2. /\ Run(a + k, n - k) \in Seq(Nat) /\ Len(Run(a + k, n - k)) = n - k
      /\ \A i \in 1..(n - k) : Run(a + k, n - k)[i] = a + k + i
  <2>1. a + k \in Nat /\ n - k \in Nat
    OBVIOUS
  <2> QED BY <2>1, RunIsSeq
<1>3. d \in Seq(Nat) /\ Len(d) = n - k
  BY <1>1 DEF DropFirst
<1>4. \A i \in 1..(n - k) : d[i] = a + k + i
  BY <1>1 DEF DropFirst
<1> HIDE DEF d
<1>5. d = Run(a + k, n - k)
  BY <1>2, <1>3, <1>4, SameSeq
<1> QED BY <1>5 DEF d

\* The first k bytes of a run are a run.
LEMMA TakeFromRun ==
    ASSUME NEW a \in Nat, NEW n \in Nat, NEW k \in 0..n
    PROVE  TakeFirst(Run(a, n), k) = Run(a, k)
<1> DEFINE t == TakeFirst(Run(a, n), k)
<1>1. Run(a, n) \in Seq(Nat) /\ Len(Run(a, n)) = n /\ \A i \in 1..n : Run(a, n)[i] = a + i
  BY RunIsSeq
<1>2. Run(a, k) \in Seq(Nat) /\ Len(Run(a, k)) = k /\ \A i \in 1..k : Run(a, k)[i] = a + i
  BY RunIsSeq
<1>3. t \in Seq(Nat) /\ Len(t) = k
  BY <1>1 DEF TakeFirst
<1>4. \A i \in 1..k : t[i] = a + i
  BY <1>1 DEF TakeFirst
<1> HIDE DEF t
<1>5. t = Run(a, k)
  BY <1>2, <1>3, <1>4, SameSeq
<1> QED BY <1>5 DEF t

-----------------------------------------------------------------------------
(* The invariant of sending and receiving.                                 *)

\* Data frames that carry the bytes their offset says, of what s has written.
SoundFrames(s) ==
    {f \in Frame : f.type = "data" =>
        /\ f.data = Run(f.off, Len(f.data))
        /\ f.off + Len(f.data) <= sendEnd[s]}

SendSound ==
    \A s \in Sides :
        /\ sendBase[s] <= sendEnd[s] /\ sendEnd[s] <= Budget[s]
        /\ sendBuffer[s] = Run(sendBase[s], sendEnd[s] - sendBase[s])

AttachSound ==
    \A s \in Sides :
        /\ attach[s].data = Run(attach[s].off, Len(attach[s].data))
        /\ attach[s].off + Len(attach[s].data) <= sendEnd[s]

ChunkSound == \A s \in Sides : chunk[s] \in SoundFrames(s)

WireSound == \A s \in Sides, p \in Paths : wire[p][s] \in Seq(SoundFrames(s))

ReaderSound ==
    \A s \in Sides, p \in Paths :
        /\ reader[s][p].frame \in SoundFrames(Peer[s])
        /\ reader[s][p].pc = "ack" => reader[s][p].frame.type = "ack"

\* The inductive invariant of the sending half: whatever is kept, copied for a
\* replay, in flight or in the hands of a reader is what was written there.
SendInv == TypeOK /\ SendSound /\ AttachSound /\ ChunkSound /\ WireSound /\ ReaderSound

-----------------------------------------------------------------------------
LEMMA ConstantTypes ==
    /\ Agent \in Sides /\ Client \in Sides
    /\ Peer \in [Sides -> Sides] /\ \A s \in Sides : Peer[s] # s /\ Peer[Peer[s]] = s
    /\ Budget \in [Sides -> Nat]
    /\ ChunkSize \in Nat /\ ChunkSize > 0 /\ 1 \in Paths /\ MaxPath \in Nat
BY EndsAssumption, SizeAssumption DEF Sides, Peer, Budget, Paths

\* Frames of the three kinds are frames.
LEMMA FrameTypes ==
    /\ CloseFrame \in Frame /\ NoChunk \in Frame
    /\ \A off \in Nat : AckFrame(off) \in Frame
    /\ \A off \in Nat, data \in Seq(Nat) : DataFrame(off, data) \in Frame
BY DEF CloseFrame, NoChunk, AckFrame, DataFrame, Frame

\* Sequences over a set under the operations used on the wires.
LEMMA SeqOps ==
    ASSUME NEW S, NEW q \in Seq(S)
    PROVE  /\ <<>> \in Seq(S)
           /\ \A f \in S : Append(q, f) \in Seq(S)
           /\ q # <<>> => Head(q) \in S /\ Tail(q) \in Seq(S)
OBVIOUS

LEMMA SubSeqType ==
    ASSUME NEW S, NEW q \in Seq(S), NEW i \in Nat, NEW j \in Nat, j <= Len(q)
    PROVE  SubSeq(q, i + 1, j) \in Seq(S)
OBVIOUS

LEMMA SeqMono ==
    ASSUME NEW S, NEW T, S \subseteq T, NEW q \in Seq(S)
    PROVE  q \in Seq(T)
OBVIOUS

\* A property of frames that depends only on who sent them: F[s] holds the
\* frames of s that have it, and every frame on a wire has it.
OnWires(F) == \A s \in Sides, p \in Paths : wire[p][s] \in Seq(F[s])

\* Sending such a frame leaves every wire with such frames.
LEMMA PutIn ==
    ASSUME TypeOK, NEW F \in [Sides -> SUBSET Frame], OnWires(F),
           NEW s \in Sides, NEW p \in Paths, NEW f \in F[s]
    PROVE  /\ Put(s, p, f) \in [Paths -> [Sides -> Seq(Frame)]]
           /\ \A t \in Sides, q \in Paths : Put(s, p, f)[q][t] \in Seq(F[t])
<1>1. f \in Frame
  OBVIOUS
<1>2. Append(wire[p][s], f) \in Seq(Frame) /\ Append(wire[p][s], f) \in Seq(F[s])
  BY <1>1, SeqOps DEF TypeOK, OnWires
<1> QED BY <1>2 DEF Put, TypeOK, OnWires

LEMMA PutSound ==
    ASSUME TypeOK, WireSound, NEW s \in Sides, NEW p \in Paths, NEW f \in SoundFrames(s)
    PROVE  /\ Put(s, p, f) \in [Paths -> [Sides -> Seq(Frame)]]
           /\ \A t \in Sides, q \in Paths : Put(s, p, f)[q][t] \in Seq(SoundFrames(t))
<1> DEFINE F == [t \in Sides |-> SoundFrames(t)]
<1>1. F \in [Sides -> SUBSET Frame] /\ \A t \in Sides : F[t] = SoundFrames(t)
  BY DEF SoundFrames
<1>2. OnWires(F)
  BY DEF OnWires, WireSound
<1> HIDE DEF F
<1> QED BY <1>1, <1>2, PutIn

\* Frames stay sound while bytes are only added to the stream.
LEMMA SoundMono ==
    ASSUME TypeOK, TypeOK', NEW s \in Sides, sendEnd[s] <= sendEnd'[s]
    PROVE  SoundFrames(s) \subseteq SoundFrames(s)'
<1>1. ASSUME NEW f \in Frame PROVE f.off \in Nat /\ Len(f.data) \in Nat
  BY DEF Frame
<1>2. sendEnd[s] \in Nat /\ sendEnd'[s] \in Nat
  BY DEF TypeOK
<1> SUFFICES ASSUME NEW f \in Frame, f \in SoundFrames(s) PROVE f \in SoundFrames(s)'
  BY DEF SoundFrames
<1> QED BY <1>1, <1>2 DEF SoundFrames

\* The first n bytes of a copied replay buffer make a sound frame.
LEMMA ReplayedChunk ==
    ASSUME NEW s \in Sides, sendEnd[s] \in Nat, NEW off \in Nat, NEW data \in Seq(Nat),
           data = Run(off, Len(data)), off + Len(data) <= sendEnd[s], NEW n \in 0..Len(data)
    PROVE  /\ DataFrame(off, TakeFirst(data, n)) \in SoundFrames(s)
           /\ TakeFirst(data, n) = Run(off, n)
           /\ DropFirst(data, n) = Run(off + n, Len(data) - n)
<1>1. TakeFirst(data, n) = Run(off, n) /\ DropFirst(data, n) = Run(off + n, Len(data) - n)
  BY TakeFromRun, DropFromRun
<1>2. Run(off, n) \in Seq(Nat) /\ Len(Run(off, n)) = n
  BY RunIsSeq
<1>3. DataFrame(off, Run(off, n)) \in Frame
  BY <1>2, FrameTypes
<1>4. off + n <= sendEnd[s]
  OBVIOUS
<1> QED BY <1>1, <1>2, <1>3, <1>4 DEF SoundFrames, DataFrame

LEMMA InitSendInv == Init => SendInv
<1> SUFFICES ASSUME Init PROVE SendInv
  OBVIOUS
<1> USE ConstantTypes
<1>1. TypeOK
  BY FrameTypes, SizeAssumption DEF Init, TypeOK, NotAttaching, Reader, ReaderOff, ReaderStates, Terminals, Paths
<1>2. SendSound
  BY EmptyRun DEF Init, SendSound
<1>3. AttachSound
  BY EmptyRun DEF Init, AttachSound, NotAttaching
<1>4. ChunkSound
  BY EmptyRun, FrameTypes DEF Init, ChunkSound, NoChunk, DataFrame, SoundFrames
<1>5. WireSound
  BY DEF Init, WireSound
<1>6. ReaderSound
  BY FrameTypes DEF Init, ReaderSound, ReaderOff, SoundFrames, CloseFrame
<1> QED BY <1>1, <1>2, <1>3, <1>4, <1>5, <1>6 DEF SendInv

-----------------------------------------------------------------------------
(* Every step keeps the variables in their types.                          *)

LEMMA FrameFields ==
    /\ \A f \in Frame : f.off \in Nat /\ f.data \in Seq(Nat) /\ Len(f.data) \in Nat
    /\ \A r \in Reader : r.frame \in Frame /\ r.pc \in ReaderStates
BY DEF Frame, Reader

LEMMA ReaderTypes ==
    /\ ReaderOff \in Reader /\ ReaderIdle \in Reader
    /\ \A pc \in ReaderStates, f \in Frame : [pc |-> pc, frame |-> f] \in Reader
BY FrameTypes DEF ReaderOff, ReaderIdle, Reader, ReaderStates

LEMMA WsPath == ASSUME TypeOK, NEW s \in Sides, ws[s] # 0 PROVE ws[s] \in Paths
BY SizeAssumption DEF TypeOK, Paths

LEMMA DroppedWsType ==
    ASSUME TypeOK, NEW s \in Sides, NEW p
    PROVE  DroppedWs(s, p) \in [Sides -> 0..MaxPath]
<1>1. 0 \in 0..MaxPath
  BY SizeAssumption
<1> QED BY <1>1 DEF DroppedWs, TypeOK

LEMMA TypeApplication ==
    ASSUME SendInv, NEW s \in Sides, Write(s) \/ SendChunk(s) \/ Read(s) \/ Close(s)
    PROVE  TypeOK'
<1> USE DEF netVars, sendVars, recvVars, endVars
<1>1. TypeOK /\ SendSound /\ ChunkSound /\ WireSound
  BY DEF SendInv
<1>2. CASE Write(s)
  <2>1. PICK n \in 1..ChunkSize :
          /\ sendEnd' = [sendEnd EXCEPT ![s] = @ + n]
          /\ chunk' = [chunk EXCEPT ![s] = DataFrame(sendEnd[s], Run(sendEnd[s], n))]
          /\ sendBuffer' = [sendBuffer EXCEPT ![s] = @ \o Run(sendEnd[s], n)]
    BY <1>2 DEF Write
  <2>2. n \in Nat /\ sendEnd[s] \in Nat /\ sendBuffer[s] \in Seq(Nat)
    BY <1>1 DEF TypeOK
  <2>3. Run(sendEnd[s], n) \in Seq(Nat)
    BY <2>2, RunIsSeq
  <2>4. sendBuffer[s] \o Run(sendEnd[s], n) \in Seq(Nat)
    BY <2>2, <2>3, JoinSeqs
  <2>5. chunk' \in [Sides -> Frame]
    BY <1>1, <2>1, <2>2, <2>3, FrameTypes DEF TypeOK
  <2>6. sendBuffer' \in [Sides -> Seq(Nat)] /\ sendEnd' \in [Sides -> Nat]
    <3>1. sendBuffer \in [Sides -> Seq(Nat)] /\ sendEnd \in [Sides -> Nat]
      BY <1>1 DEF TypeOK
    <3>2. sendEnd[s] + n \in Nat
      BY <2>2
    <3> QED BY <2>1, <2>4, <3>1, <3>2
  <2> QED BY <1>1, <1>2, <2>5, <2>6 DEF Write, TypeOK
<1>3. CASE SendChunk(s)
  <2>1. ws[s] \in Paths /\ chunk[s] \in SoundFrames(s)
    BY <1>1, <1>3, WsPath DEF SendChunk, ChunkSound
  <2>2. Put(s, ws[s], chunk[s]) \in [Paths -> [Sides -> Seq(Frame)]]
    BY <1>1, <2>1, PutSound
  <2>3. wire' \in [Paths -> [Sides -> Seq(Frame)]]
    BY <1>1, <1>3, <2>2 DEF SendChunk, WriteSucceeds, WriteFails, TypeOK
  <2>4. ws' \in [Sides -> 0..MaxPath]
    <3>1. ws' = ws \/ ws' = DroppedWs(s, ws[s])
      BY <1>3 DEF SendChunk
    <3>2. ws \in [Sides -> 0..MaxPath]
      BY <1>1 DEF TypeOK
    <3> QED BY <1>1, <3>1, <3>2, DroppedWsType
  <2>5. chunk' \in [Sides -> Frame]
    BY <1>1, <1>3, FrameTypes DEF SendChunk, TypeOK
  <2> QED BY <1>1, <1>3, <2>3, <2>4, <2>5 DEF SendChunk, TypeOK
<1>4. CASE Read(s)
  <2>1. PICK n \in 1..Len(recvBuffer[s]) :
          /\ delivered' = [delivered EXCEPT ![s] = @ \o TakeFirst(recvBuffer[s], n)]
          /\ recvBuffer' = [recvBuffer EXCEPT ![s] = DropFirst(@, n)]
    BY <1>4 DEF Read
  <2>2. recvBuffer[s] \in Seq(Nat) /\ delivered[s] \in Seq(Nat) /\ n \in Nat /\ n <= Len(recvBuffer[s])
    BY <1>1 DEF TypeOK
  <2>3. TakeFirst(recvBuffer[s], n) \in Seq(Nat)
    <3>1. 0 \in Nat /\ SubSeq(recvBuffer[s], 0 + 1, n) \in Seq(Nat)
      BY <2>2, SubSeqType
    <3> QED BY <3>1 DEF TakeFirst
  <2>4. DropFirst(recvBuffer[s], n) \in Seq(Nat)
    BY <2>2, SubSeqType DEF DropFirst
  <2>5. delivered[s] \o TakeFirst(recvBuffer[s], n) \in Seq(Nat)
    BY <2>2, <2>3, JoinSeqs
  <2> QED BY <1>1, <1>4, <2>1, <2>4, <2>5 DEF Read, TypeOK
<1>5. CASE Close(s)
  <2>1. CASE ws[s] # 0
    <3>1. ws[s] \in Paths /\ CloseFrame \in SoundFrames(s)
      BY <1>1, <2>1, WsPath, FrameTypes DEF SoundFrames, CloseFrame
    <3>2. Put(s, ws[s], CloseFrame) \in [Paths -> [Sides -> Seq(Frame)]]
      BY <1>1, <3>1, PutSound
    <3>3. wire' \in [Paths -> [Sides -> Seq(Frame)]] /\ up' \in BOOLEAN
      BY <1>1, <1>5, <2>1, <3>2 DEF Close, TypeOK
    <3>4. ws' \in [Sides -> 0..MaxPath] /\ closed' \in [Sides -> BOOLEAN]
      BY <1>1, <1>5, SizeAssumption DEF Close, TypeOK
    <3> QED BY <1>1, <1>5, <3>3, <3>4 DEF Close, TypeOK
  <2>2. CASE ws[s] = 0
    BY <1>1, <1>5, <2>2 DEF Close, TypeOK
  <2> QED BY <2>1, <2>2
<1> QED BY <1>2, <1>3, <1>4, <1>5

LEMMA TypeConnection ==
    ASSUME SendInv, NEW s \in Sides,
           AttachTransport(s) \/ ReplayChunk(s) \/ AttachDone(s) \/ Expire(s) \/ Drop(s)
    PROVE  TypeOK'
<1> USE DEF netVars, sendVars, recvVars, endVars
<1>1. TypeOK /\ SendSound /\ AttachSound /\ WireSound
  BY DEF SendInv
<1>2. 0 \in 0..MaxPath /\ Paths \subseteq 0..MaxPath
  BY SizeAssumption DEF Paths
<1>3. CASE AttachTransport(s)
  <2>1. offer' \in [Sides -> 0..MaxPath]
    BY <1>1, <1>2, <1>3 DEF AttachTransport, TypeOK
  <2>2. CASE ws' = ws /\ wire' = wire /\ attach' = attach
    BY <1>1, <1>3, <2>1, <2>2 DEF AttachTransport, TypeOK
  <2>3. CASE /\ ws' = [ws EXCEPT ![s] = offer[s]]
             /\ wire' = Put(s, offer[s], AckFrame(recvOffset[s]))
             /\ attach' = [attach EXCEPT ![s] =
                             [path |-> offer[s], off |-> sendBase[s], data |-> sendBuffer[s]]]
    <3>1. offer[s] \in Paths /\ recvOffset[s] \in Nat
      BY <1>1, <1>3, SizeAssumption DEF AttachTransport, TypeOK, Paths
    <3>2. AckFrame(recvOffset[s]) \in SoundFrames(s)
      BY <3>1, FrameTypes DEF SoundFrames, AckFrame
    <3>3. wire' \in [Paths -> [Sides -> Seq(Frame)]]
      BY <1>1, <2>3, <3>1, <3>2, PutSound
    <3>4. ws' \in [Sides -> 0..MaxPath]
      BY <1>1, <1>2, <2>3, <3>1 DEF TypeOK
    <3>5. attach' \in [Sides -> [path : 0..MaxPath, off : Nat, data : Seq(Nat)]]
      BY <1>1, <1>2, <2>3, <3>1 DEF TypeOK
    <3> QED BY <1>1, <1>3, <2>1, <3>3, <3>4, <3>5 DEF AttachTransport, TypeOK
  <2> QED BY <1>3, <2>2, <2>3 DEF AttachTransport, AttachAck
<1>4. CASE ReplayChunk(s)
  <2> DEFINE a == attach[s]
             n == Smaller(ChunkSize, Len(a.data))
             f == DataFrame(a.off, TakeFirst(a.data, n))
  <2>1. a.path \in Paths /\ a.off \in Nat /\ a.data \in Seq(Nat) /\ Len(a.data) \in Nat
    <3>1. attach[s] \in [path : 0..MaxPath, off : Nat, data : Seq(Nat)]
      BY <1>1 DEF TypeOK
    <3>2. attach[s].path # 0
      BY <1>4 DEF ReplayChunk
    <3>3. attach[s].data \in Seq(Nat) /\ Len(attach[s].data) \in Nat
      BY <3>1
    <3>4. attach[s].path \in Paths /\ attach[s].off \in Nat
      BY <3>1, <3>2, SizeAssumption DEF Paths
    <3> QED BY <3>3, <3>4
  <2>2. n \in Nat /\ n <= Len(a.data)
    BY <2>1, SizeAssumption DEF Smaller
  <2>3. a.data = Run(a.off, Len(a.data)) /\ a.off + Len(a.data) <= sendEnd[s]
    BY <1>1 DEF AttachSound
  <2>4. f \in SoundFrames(s)
    <3>1. sendEnd[s] \in Nat /\ n \in 0..Len(a.data)
      BY <1>1, <2>1, <2>2 DEF TypeOK
    <3> HIDE DEF a, n
    <3> QED BY <2>1, <2>3, <3>1, ReplayedChunk
  <2>5. Put(s, a.path, f) \in [Paths -> [Sides -> Seq(Frame)]]
    BY <1>1, <2>1, <2>4, PutSound
  <2>6. wire' \in [Paths -> [Sides -> Seq(Frame)]]
    BY <1>1, <1>4, <2>5 DEF ReplayChunk, WriteSucceeds, WriteFails, TypeOK
  <2>7. DropFirst(a.data, n) \in Seq(Nat)
    <3> HIDE DEF a, n
    <3>1. SubSeq(a.data, n + 1, Len(a.data)) \in Seq(Nat)
      BY <2>1, <2>2, SubSeqType
    <3> QED BY <3>1 DEF DropFirst
  <2>8. attach' \in [Sides -> [path : 0..MaxPath, off : Nat, data : Seq(Nat)]]
    <3>1. [path |-> a.path, off |-> a.off + n, data |-> DropFirst(a.data, n)]
            \in [path : 0..MaxPath, off : Nat, data : Seq(Nat)]
      <4> HIDE DEF a, n
      <4>1. a.path \in 0..MaxPath
        BY <1>2, <2>1
      <4>2. a.off + n \in Nat
        BY <2>1, <2>2
      <4> QED BY <2>7, <4>1, <4>2
    <3>2. NotAttaching \in [path : 0..MaxPath, off : Nat, data : Seq(Nat)]
      BY <1>2 DEF NotAttaching
    <3> QED BY <1>1, <1>4, <3>1, <3>2 DEF ReplayChunk, TypeOK
  <2>9. ws' \in [Sides -> 0..MaxPath]
    <3>1. ws' = ws \/ ws' = DroppedWs(s, attach[s].path)
      BY <1>4 DEF ReplayChunk
    <3>2. ws \in [Sides -> 0..MaxPath]
      BY <1>1 DEF TypeOK
    <3> QED BY <1>1, <3>1, <3>2, DroppedWsType
  <2> QED BY <1>1, <1>4, <2>6, <2>8, <2>9 DEF ReplayChunk, TypeOK
<1>5. CASE AttachDone(s)
  <2>1. attach[s].path \in Paths
    BY <1>1, <1>5, SizeAssumption DEF AttachDone, TypeOK, Paths
  <2>2. reader' \in [Sides -> [Paths -> Reader]]
    BY <1>1, <1>5, <2>1, ReaderTypes DEF AttachDone, TypeOK
  <2>3. attach' \in [Sides -> [path : 0..MaxPath, off : Nat, data : Seq(Nat)]]
    BY <1>1, <1>2, <1>5 DEF AttachDone, NotAttaching, TypeOK
  <2> QED BY <1>1, <1>5, <2>2, <2>3 DEF AttachDone, TypeOK
<1>6. CASE Expire(s)
  BY <1>1, <1>6 DEF Expire, TypeOK, Terminals
<1>7. CASE Drop(s)
  BY <1>1, <1>2, <1>7 DEF Drop, TypeOK
<1> QED BY <1>3, <1>4, <1>5, <1>6, <1>7

\* A reader that goes on or gives up, whatever it holds.
LEMMA ReaderStep ==
    ASSUME TypeOK, NEW s \in Sides, NEW p \in Paths,
           \/ reader' = reader
           \/ reader' = [reader EXCEPT ![s][p] = ReaderOff]
           \/ reader' = [reader EXCEPT ![s][p] = ReaderIdle]
           \/ \E pc \in ReaderStates, f \in Frame : SetReader(s, p, pc, f)
    PROVE  reader' \in [Sides -> [Paths -> Reader]]
<1>1. reader \in [Sides -> [Paths -> Reader]]
  BY DEF TypeOK
<1>2. PICK r \in Reader : reader' = reader \/ reader' = [reader EXCEPT ![s][p] = r]
  BY ReaderTypes DEF SetReader
<1> QED BY <1>1, <1>2

LEMMA HeldFrame ==
    ASSUME SendInv, NEW s \in Sides, NEW p \in Paths
    PROVE  /\ reader[s][p].frame \in Frame /\ reader[s][p].frame \in SoundFrames(Peer[s])
           /\ reader[s][p].frame.off \in Nat /\ reader[s][p].frame.data \in Seq(Nat)
<1>1. reader[s][p] \in Reader
  BY DEF SendInv, TypeOK
<1> QED BY <1>1, FrameFields DEF SendInv, ReaderSound

\* What applyData cuts off what it was handed is sound, and fits its offset.
LEMMA FreshBytes ==
    ASSUME NEW s \in Sides, sendEnd[s] \in Nat, NEW f \in SoundFrames(s), f.type = "data",
           NEW off \in Nat, f.off <= off, off < f.off + Len(f.data)
    PROVE  LET fresh == DropFirst(f.data, off - f.off)
           IN  /\ fresh = Run(off, f.off + Len(f.data) - off)
               /\ fresh \in Seq(Nat) /\ Len(fresh) = f.off + Len(f.data) - off
               /\ off + Len(fresh) <= sendEnd[s]
               /\ DataFrame(off, fresh) \in SoundFrames(s)
<1> DEFINE k == off - f.off
           n == Len(f.data)
           fresh == DropFirst(f.data, k)
<1>1. f.off \in Nat /\ f.data \in Seq(Nat) /\ n \in Nat /\ f.data = Run(f.off, n) /\ f.off + n <= sendEnd[s]
  BY FrameFields DEF SoundFrames
<1>2. k \in 0..n /\ f.off + k = off /\ n - k \in Nat /\ n - k = f.off + n - off
  BY <1>1
<1>3. DropFirst(Run(f.off, n), k) = Run(f.off + k, n - k)
  <2> HIDE DEF n, k
  <2> QED BY <1>1, <1>2, DropFromRun
<1>4. fresh = Run(off, n - k)
  BY <1>1, <1>2, <1>3
<1>5. Run(off, n - k) \in Seq(Nat) /\ Len(Run(off, n - k)) = n - k
  <2> HIDE DEF n, k
  <2> QED BY <1>2, RunIsSeq
<1>6. fresh \in Seq(Nat) /\ Len(fresh) = n - k
  BY <1>4, <1>5
<1>7. off + (n - k) <= sendEnd[s]
  BY <1>1, <1>2
<1>8. DataFrame(off, fresh) \in SoundFrames(s)
  <2> HIDE DEF n, k, fresh
  <2>1. DataFrame(off, fresh) \in Frame
    BY <1>6, FrameTypes
  <2> QED BY <1>4, <1>6, <1>7, <2>1 DEF SoundFrames, DataFrame
<1> QED BY <1>2, <1>4, <1>6, <1>7, <1>8

\* What an acknowledgement leaves of the replay buffer.
LEMMA AckedBuffer ==
    ASSUME NEW base \in Nat, NEW end \in Nat, NEW off \in Nat, base <= off, off <= end
    PROVE  LET kept == DropFirst(Run(base, end - base), off - base)
           IN  kept = Run(off, end - off) /\ kept \in Seq(Nat)
<1>1. end - base \in Nat /\ off - base \in 0..(end - base)
  OBVIOUS
<1>2. base + (off - base) = off /\ (end - base) - (off - base) = end - off /\ end - off \in Nat
  OBVIOUS
<1>3. DropFirst(Run(base, end - base), off - base)
        = Run(base + (off - base), (end - base) - (off - base))
  BY <1>1, DropFromRun
<1> QED BY <1>2, <1>3, RunIsSeq

LEMMA TypeReader ==
    ASSUME SendInv, NEW s \in Sides, NEW p \in Paths, ReadTransport(s, p)
    PROVE  TypeOK'
<1> USE DEF netVars, sendVars, recvVars, endVars
<1>1. TypeOK /\ SendSound /\ WireSound
  BY DEF SendInv
<1>2. Peer[s] \in Sides
  BY ConstantTypes
<1>3. /\ wire \in [Paths -> [Sides -> Seq(Frame)]] /\ ws \in [Sides -> 0..MaxPath]
      /\ recvBuffer \in [Sides -> Seq(Nat)] /\ recvOffset \in [Sides -> Nat]
      /\ sendBuffer \in [Sides -> Seq(Nat)] /\ sendBase \in [Sides -> Nat]
      /\ sendEnd \in [Sides -> Nat]
  BY <1>1 DEF TypeOK
<1>4. DroppedWs(s, p) \in [Sides -> 0..MaxPath]
  BY <1>1, DroppedWsType
<1>5. ASSUME wire[p][Peer[s]] # <<>>
      PROVE  /\ Head(wire[p][Peer[s]]) \in Frame
             /\ [wire EXCEPT ![p][Peer[s]] = Tail(wire[p][Peer[s]])]
                  \in [Paths -> [Sides -> Seq(Frame)]]
  <2>1. wire[p][Peer[s]] \in Seq(Frame)
    BY <1>2, <1>3
  <2>2. Head(wire[p][Peer[s]]) \in Frame /\ Tail(wire[p][Peer[s]]) \in Seq(Frame)
    BY <1>5, <2>1
  <2> QED BY <1>2, <1>3, <2>2
<1>6. CASE ReadFrame(s, p)
  <2>1. reader' \in [Sides -> [Paths -> Reader]]
    BY <1>1, <1>5, <1>6, ReaderStep DEF ReadFrame, ReaderStates
  <2>2. wire' \in [Paths -> [Sides -> Seq(Frame)]]
    BY <1>5, <1>6 DEF ReadFrame
  <2> QED BY <1>1, <1>6, <2>1, <2>2 DEF ReadFrame, TypeOK
<1>7. CASE ReadClose(s, p)
  <2>1. reader' \in [Sides -> [Paths -> Reader]]
    BY <1>1, <1>7, ReaderStep DEF ReadClose
  <2>2. ws' \in [Sides -> 0..MaxPath]
    <3>1. 0 \in 0..MaxPath
      BY SizeAssumption
    <3> QED BY <1>3, <1>7, <3>1 DEF ReadClose
  <2>3. closed' \in [Sides -> BOOLEAN] /\ terminal' \in [Sides -> Terminals]
    BY <1>1, <1>7 DEF ReadClose, Terminals, TypeOK
  <2> QED BY <1>1, <1>7, <2>1, <2>2, <2>3 DEF ReadClose, TypeOK
<1>8. CASE ReadError(s, p)
  <2>1. reader' \in [Sides -> [Paths -> Reader]]
    BY <1>1, <1>8, ReaderStep DEF ReadError, GiveUp
  <2>2. ws' \in [Sides -> 0..MaxPath]
    BY <1>4, <1>8 DEF ReadError, GiveUp
  <2> QED BY <1>1, <1>8, <2>1, <2>2 DEF ReadError, TypeOK
<1>9. CASE ApplyAck(s, p)
  <2> DEFINE off == reader[s][p].frame.off
  <2>1. reader' \in [Sides -> [Paths -> Reader]]
    BY <1>1, <1>9, ReaderStep DEF ApplyAck, GiveUp
  <2>2. ws' \in [Sides -> 0..MaxPath]
    BY <1>3, <1>4, <1>9 DEF ApplyAck, GiveUp
  <2>3. off \in Nat
    BY HeldFrame
  <2>4. CASE sendBase[s] <= off /\ off <= sendEnd[s]
    <3>1. sendBuffer[s] = Run(sendBase[s], sendEnd[s] - sendBase[s])
      BY <1>1 DEF SendSound
    <3>2. DropFirst(sendBuffer[s], off - sendBase[s]) \in Seq(Nat)
      BY <1>3, <2>3, <2>4, <3>1, AckedBuffer
    <3>3. /\ sendBuffer' = [sendBuffer EXCEPT ![s] = DropFirst(sendBuffer[s], off - sendBase[s])]
          /\ sendBase' = [sendBase EXCEPT ![s] = off]
      BY <1>9, <2>4 DEF ApplyAck, Kept
    <3>4. sendBuffer' \in [Sides -> Seq(Nat)] /\ sendBase' \in [Sides -> Nat]
      <4> HIDE DEF off
      <4> QED BY <1>3, <2>3, <3>2, <3>3
    <3> QED BY <1>1, <1>9, <2>1, <2>2, <3>4 DEF ApplyAck, TypeOK
  <2>5. CASE ~(sendBase[s] <= off /\ off <= sendEnd[s])
    <3>1. UNCHANGED <<sendBuffer, sendBase>>
      BY <1>9, <2>5 DEF ApplyAck
    <3> QED BY <1>1, <1>9, <2>1, <2>2, <3>1 DEF ApplyAck, TypeOK
  <2> QED BY <2>4, <2>5
<1>10. ASSUME NEW data \in Seq(Nat), Accept(s, p, data)
       PROVE  /\ reader' \in [Sides -> [Paths -> Reader]]
              /\ recvBuffer' \in [Sides -> Seq(Nat)] /\ recvOffset' \in [Sides -> Nat]
  <2>1. recvBuffer[s] \o data \in Seq(Nat) /\ recvOffset[s] + Len(data) \in Nat
    BY <1>3, JoinSeqs
  <2>2. reader' \in [Sides -> [Paths -> Reader]]
    BY <1>1, <1>10, <2>1, FrameTypes, ReaderStep DEF Accept, ReaderStates
  <2> QED BY <1>3, <1>10, <2>1, <2>2 DEF Accept
<1>11. CASE ApplyData(s, p)
  <2> DEFINE f == reader[s][p].frame
             fresh == DropFirst(f.data, recvOffset[s] - f.off)
  <2>1. f \in Frame /\ f.off \in Nat /\ f.data \in Seq(Nat) /\ recvOffset[s] \in Nat
    BY <1>3, HeldFrame
  <2>2. CASE GiveUp(s, p) /\ UNCHANGED <<recvBuffer, recvOffset>>
    <3>1. reader' \in [Sides -> [Paths -> Reader]] /\ ws' \in [Sides -> 0..MaxPath]
      BY <1>1, <1>4, <2>2, ReaderStep DEF GiveUp
    <3> QED BY <1>1, <1>11, <2>2, <3>1 DEF ApplyData, TypeOK
  <2>3. CASE SetReader(s, p, "ack", AckFrame(recvOffset[s])) /\ UNCHANGED <<ws, recvBuffer, recvOffset>>
    <3>1. reader' \in [Sides -> [Paths -> Reader]]
      BY <1>1, <2>1, <2>3, FrameTypes, ReaderStep DEF ReaderStates
    <3> QED BY <1>1, <1>11, <2>3, <3>1 DEF ApplyData, TypeOK
  <2>4. ASSUME f.off <= recvOffset[s], f.off + Len(f.data) > recvOffset[s], f.type = "data"
        PROVE  fresh \in Seq(Nat)
    <3>1. Peer[s] \in Sides /\ sendEnd[Peer[s]] \in Nat /\ f \in SoundFrames(Peer[s])
      BY <1>2, <1>3, HeldFrame
    <3> HIDE DEF f
    <3>2. recvOffset[s] < f.off + Len(f.data)
      BY <2>1, <2>4
    <3> QED BY <2>1, <2>4, <3>1, <3>2, FreshBytes
  <2>5. CASE /\ f.off <= recvOffset[s] /\ f.off + Len(f.data) > recvOffset[s] /\ f.type = "data"
             /\ Accept(s, p, fresh) /\ UNCHANGED ws
    <3>1. fresh \in Seq(Nat)
      BY <2>4, <2>5
    <3>2. /\ reader' \in [Sides -> [Paths -> Reader]]
          /\ recvBuffer' \in [Sides -> Seq(Nat)] /\ recvOffset' \in [Sides -> Nat]
      BY <1>10, <2>5, <3>1
    <3> QED BY <1>1, <1>11, <2>5, <3>2 DEF ApplyData, TypeOK
  <2>6. CASE /\ f.off <= recvOffset[s] /\ f.off + Len(f.data) > recvOffset[s] /\ f.type = "data"
             /\ SetReader(s, p, "parked", DataFrame(recvOffset[s], fresh))
             /\ UNCHANGED <<ws, recvBuffer, recvOffset>>
    <3>1. fresh \in Seq(Nat)
      BY <2>4, <2>6
    <3>2. DataFrame(recvOffset[s], fresh) \in Frame /\ "parked" \in ReaderStates
      BY <2>1, <3>1, FrameTypes DEF ReaderStates
    <3>3. reader' \in [Sides -> [Paths -> Reader]]
      BY <1>1, <2>6, <3>2, ReaderStep
    <3> QED BY <1>1, <1>11, <2>6, <3>3 DEF ApplyData, TypeOK
  <2> QED BY <1>11, <2>2, <2>3, <2>5, <2>6 DEF ApplyData, Fresh, Room
<1>12. CASE Unpark(s, p)
  <2>1. reader[s][p].frame.data \in Seq(Nat)
    BY HeldFrame
  <2>2. CASE GiveUp(s, p) /\ UNCHANGED <<recvBuffer, recvOffset>>
    <3>1. reader' \in [Sides -> [Paths -> Reader]] /\ ws' \in [Sides -> 0..MaxPath]
      BY <1>1, <1>4, <2>2, ReaderStep DEF GiveUp
    <3> QED BY <1>1, <1>12, <2>2, <3>1 DEF Unpark, TypeOK
  <2>3. CASE Accept(s, p, reader[s][p].frame.data) /\ UNCHANGED ws
    <3>1. /\ reader' \in [Sides -> [Paths -> Reader]]
          /\ recvBuffer' \in [Sides -> Seq(Nat)] /\ recvOffset' \in [Sides -> Nat]
      BY <1>10, <2>1, <2>3
    <3> QED BY <1>1, <1>12, <2>3, <3>1 DEF Unpark, TypeOK
  <2> QED BY <1>12, <2>2, <2>3 DEF Unpark
<1>13. CASE WriteAck(s, p)
  <2>1. reader' \in [Sides -> [Paths -> Reader]]
    BY <1>1, <1>13, ReaderStep DEF WriteAck, GiveUp
  <2>2. ws' \in [Sides -> 0..MaxPath]
    BY <1>3, <1>4, <1>13 DEF WriteAck, GiveUp
  <2>3. wire' \in [Paths -> [Sides -> Seq(Frame)]]
    <3>1. wire[p][s] \in Seq(Frame) /\ reader[s][p].frame \in Frame
      BY <1>3, HeldFrame
    <3>2. Append(wire[p][s], reader[s][p].frame) \in Seq(Frame)
      BY <3>1, SeqOps
    <3>3. \/ wire' = wire
          \/ wire' = [wire EXCEPT ![p][s] = Append(wire[p][s], reader[s][p].frame)]
      BY <1>13 DEF WriteAck, WriteSucceeds, WriteFails, Put
    <3>4. CASE wire' = [wire EXCEPT ![p][s] = Append(wire[p][s], reader[s][p].frame)]
      BY <1>3, <3>2, <3>4
    <3> QED BY <1>3, <3>3, <3>4
  <2> QED BY <1>1, <1>13, <2>1, <2>2, <2>3 DEF WriteAck, TypeOK
<1> QED BY <1>6, <1>7, <1>8, <1>9, <1>11, <1>12, <1>13 DEF ReadTransport

\* The relay's resume: both wires are cut and their ends perhaps carried over.
LEMMA ResumeWires ==
    ASSUME TypeOK, Resume, NEW F \in [Sides -> SUBSET Frame], OnWires(F)
    PROVE  /\ path' \in Paths /\ path + 1 \in Paths
           /\ wire' \in [Paths -> [Sides -> Seq(Frame)]]
           /\ \A s \in Sides, p \in Paths : wire'[p][s] \in Seq(F[s])
<1>2. path \in Paths /\ path + 1 \in Paths /\ path' = path + 1
  BY SizeAssumption DEF Resume, TypeOK, Paths
<1> DEFINE Cuts == 0..Len(wire[path][Agent]) + Len(wire[path][Client])
<1>3. PICK k, i, j \in [Sides -> Cuts] :
        /\ \A s \in Sides : Carried(wire[path][s], k[s], i[s], j[s])
        /\ wire' = [wire EXCEPT
                     ![path] = [s \in Sides |-> TakeFirst(wire[path][s], k[s])],
                     ![path + 1] = [s \in Sides |-> SubSeq(wire[path][s], i[s] + 1, j[s])]]
  BY <1>2 DEF Resume
<1>4. ASSUME NEW s \in Sides
      PROVE  /\ TakeFirst(wire[path][s], k[s]) \in Seq(Frame)
             /\ TakeFirst(wire[path][s], k[s]) \in Seq(F[s])
             /\ SubSeq(wire[path][s], i[s] + 1, j[s]) \in Seq(Frame)
             /\ SubSeq(wire[path][s], i[s] + 1, j[s]) \in Seq(F[s])
  <2>1. k[s] \in Nat /\ i[s] \in Nat /\ j[s] \in Nat
    <3>1. Cuts \subseteq Nat
      <4>1. wire[path][Agent] \in Seq(Frame) /\ wire[path][Client] \in Seq(Frame)
        BY <1>2, ConstantTypes DEF TypeOK
      <4>2. ASSUME NEW q \in Seq(Frame), NEW r \in Seq(Frame)
            PROVE  0..Len(q) + Len(r) \subseteq Nat
        OBVIOUS
      <4> QED BY <4>1, <4>2
    <3> QED BY <1>3, <3>1
  <2>2. wire[path][s] \in Seq(Frame) /\ wire[path][s] \in Seq(F[s])
    BY <1>2 DEF TypeOK, OnWires
  <2>3. Carried(wire[path][s], k[s], i[s], j[s])
    BY <1>3
  <2>4. k[s] <= Len(wire[path][s]) /\ j[s] <= Len(wire[path][s])
    BY <2>1, <2>2, <2>3 DEF Carried
  <2>5. 0 \in Nat /\ 0 + 1 = 1
    OBVIOUS
  <2> QED BY <2>1, <2>2, <2>4, <2>5, SubSeqType DEF TakeFirst
<1>5. wire' \in [Paths -> [Sides -> Seq(Frame)]]
  BY <1>2, <1>3, <1>4 DEF TypeOK
<1>6. ASSUME NEW s \in Sides, NEW p \in Paths
      PROVE  wire'[p][s] \in Seq(F[s])
  <2>1. CASE p = path
    BY <1>2, <1>3, <1>4, <2>1 DEF TypeOK
  <2>2. CASE p = path + 1
    BY <1>2, <1>3, <1>4, <2>2 DEF TypeOK
  <2>3. CASE p # path /\ p # path + 1
    BY <1>2, <1>3, <2>3 DEF TypeOK, OnWires
  <2> QED BY <2>1, <2>2, <2>3
<1> QED BY <1>2, <1>5, <1>6

LEMMA TypeNetwork ==
    ASSUME SendInv, LosePath \/ Barrier \/ Resume
    PROVE  TypeOK'
<1> USE DEF netVars, sendVars, recvVars, endVars
<1>1. TypeOK
  BY DEF SendInv
<1>2. CASE LosePath
  BY <1>1, <1>2 DEF LosePath, TypeOK
<1>3. CASE Barrier
  BY <1>1, <1>3 DEF Barrier, TypeOK
<1>4. CASE Resume
  <2>1. path' \in Paths /\ path + 1 \in 0..MaxPath /\ wire' \in [Paths -> [Sides -> Seq(Frame)]]
    <3> DEFINE F == [s \in Sides |-> Frame]
    <3>1. F \in [Sides -> SUBSET Frame] /\ OnWires(F)
      BY <1>1 DEF OnWires, TypeOK
    <3> HIDE DEF F
    <3> QED BY <1>1, <1>4, <3>1, ResumeWires, SizeAssumption DEF Paths
  <2>2. offer' \in [Sides -> 0..MaxPath] /\ up' \in BOOLEAN
    BY <1>4, <2>1 DEF Resume
  <2> QED BY <1>1, <1>4, <2>1, <2>2 DEF Resume, TypeOK
<1> QED BY <1>2, <1>3, <1>4

LEMMA TypeStep == SendInv /\ [Next]_vars => TypeOK'
<1> SUFFICES ASSUME SendInv, [Next]_vars PROVE TypeOK'
  OBVIOUS
<1>1. CASE UNCHANGED vars
  BY <1>1 DEF SendInv, TypeOK, vars
<1>2. CASE LosePath \/ Barrier \/ Resume
  BY <1>2, TypeNetwork
<1>3. ASSUME NEW s \in Sides, Side(s) PROVE TypeOK'
  BY <1>3, TypeApplication, TypeConnection, TypeReader DEF Side
<1> QED BY <1>1, <1>2, <1>3 DEF Next

-----------------------------------------------------------------------------
(* Which steps touch which part of the state.                              *)

LEMMA WhoSends ==
    ASSUME [Next]_vars
    PROVE  \/ UNCHANGED sendVars
           \/ \E s \in Sides : Write(s)
           \/ UNCHANGED sendEnd /\ \E s \in Sides, p \in Paths : ApplyAck(s, p)
<1> USE DEF netVars, sendVars, recvVars, endVars
<1>1. CASE UNCHANGED vars
  BY <1>1 DEF vars
<1>2. CASE LosePath \/ Barrier \/ Resume
  BY <1>2 DEF LosePath, Barrier, Resume
<1>3. ASSUME NEW s \in Sides,
             \/ SendChunk(s) \/ Read(s) \/ Close(s) \/ AttachTransport(s) \/ ReplayChunk(s)
             \/ AttachDone(s) \/ Expire(s) \/ Drop(s)
      PROVE  UNCHANGED sendVars
  BY <1>3 DEF SendChunk, Read, Close, AttachTransport, ReplayChunk, AttachDone, Expire, Drop
<1>4. ASSUME NEW s \in Sides, NEW p \in Paths, ReadTransport(s, p)
      PROVE  UNCHANGED sendVars \/ (ApplyAck(s, p) /\ UNCHANGED sendEnd)
  BY <1>4 DEF ReadTransport, ReadFrame, ReadClose, ReadError, ApplyAck, ApplyData, Unpark, WriteAck
<1> QED BY <1>1, <1>2, <1>3, <1>4 DEF Next, Side

LEMMA WhoReplays ==
    ASSUME [Next]_vars
    PROVE  \/ UNCHANGED attach
           \/ \E s \in Sides : AttachTransport(s) \/ ReplayChunk(s) \/ AttachDone(s)
<1> USE DEF netVars, sendVars, recvVars, endVars
<1>1. CASE UNCHANGED vars
  BY <1>1 DEF vars
<1>2. CASE LosePath \/ Barrier \/ Resume
  BY <1>2 DEF LosePath, Barrier, Resume
<1>3. ASSUME NEW s \in Sides,
             Write(s) \/ SendChunk(s) \/ Read(s) \/ Close(s) \/ Expire(s) \/ Drop(s)
      PROVE  UNCHANGED attach
  BY <1>3 DEF Write, SendChunk, Read, Close, Expire, Drop
<1>4. ASSUME NEW s \in Sides, NEW p \in Paths, ReadTransport(s, p)
      PROVE  UNCHANGED attach
  BY <1>4 DEF ReadTransport, ReadFrame, ReadClose, ReadError, ApplyAck, ApplyData, Unpark, WriteAck
<1> QED BY <1>1, <1>2, <1>3, <1>4 DEF Next, Side

\* sendEnd only grows, so what is sound stays sound.
LEMMA SoundStays ==
    ASSUME SendInv, [Next]_vars, NEW s \in Sides
    PROVE  sendEnd[s] <= sendEnd'[s] /\ SoundFrames(s) \subseteq SoundFrames(s)'
<1>1. TypeOK /\ TypeOK'
  BY TypeStep DEF SendInv
<1>2. sendEnd[s] <= sendEnd'[s]
  <2>1. sendEnd \in [Sides -> Nat]
    BY <1>1 DEF TypeOK
  <2>2. CASE UNCHANGED sendEnd
    BY <2>1, <2>2
  <2>3. ASSUME NEW t \in Sides, Write(t) PROVE sendEnd[s] <= sendEnd'[s]
    <3>1. PICK n \in 1..ChunkSize : sendEnd' = [sendEnd EXCEPT ![t] = @ + n]
      BY <2>3 DEF Write
    <3> QED BY <2>1, <3>1
  <2> QED BY <2>2, <2>3, WhoSends DEF sendVars
<1> QED BY <1>1, <1>2, SoundMono

LEMMA SendNumbers ==
    ASSUME SendInv, NEW s \in Sides
    PROVE  /\ sendEnd[s] \in Nat /\ sendBase[s] \in Nat /\ sendEnd[s] - sendBase[s] \in Nat
           /\ sendBuffer[s] = Run(sendBase[s], sendEnd[s] - sendBase[s])
           /\ Len(sendBuffer[s]) = sendEnd[s] - sendBase[s]
<1>1. /\ sendEnd[s] \in Nat /\ sendBase[s] \in Nat /\ sendEnd[s] - sendBase[s] \in Nat
      /\ sendBuffer[s] = Run(sendBase[s], sendEnd[s] - sendBase[s])
  BY DEF SendInv, TypeOK, SendSound
<1>2. Len(Run(sendBase[s], sendEnd[s] - sendBase[s])) = sendEnd[s] - sendBase[s]
  BY <1>1, RunIsSeq
<1> QED BY <1>1, <1>2

LEMMA CopyNumbers ==
    ASSUME SendInv, NEW s \in Sides
    PROVE  attach[s].off \in Nat /\ attach[s].data \in Seq(Nat) /\ Len(attach[s].data) \in Nat
<1>1. attach[s] \in [path : 0..MaxPath, off : Nat, data : Seq(Nat)]
  BY DEF SendInv, TypeOK
<1> QED BY <1>1

LEMMA SendSoundStep ==
    ASSUME SendInv, [Next]_vars
    PROVE  SendSound'
<1>1. TypeOK /\ SendSound
  BY DEF SendInv
<1>2. ASSUME NEW s \in Sides
      PROVE  sendEnd[s] \in Nat /\ sendBase[s] \in Nat /\ sendEnd[s] - sendBase[s] \in Nat
  BY SendNumbers
<1>3. CASE UNCHANGED sendVars
  BY <1>1, <1>3 DEF SendSound, sendVars
<1>4. ASSUME NEW s \in Sides, Write(s) PROVE SendSound'
  <2>1. PICK n \in 1..ChunkSize :
          /\ sendEnd[s] + n <= Budget[s]
          /\ sendEnd' = [sendEnd EXCEPT ![s] = @ + n]
          /\ sendBuffer' = [sendBuffer EXCEPT ![s] = @ \o Run(sendEnd[s], n)]
          /\ sendBase' = sendBase
    BY <1>4 DEF Write
  <2>2. n \in Nat
    BY SizeAssumption
  <2>3. sendBuffer[s] \o Run(sendEnd[s], n) = Run(sendBase[s], (sendEnd[s] - sendBase[s]) + n)
    <3>1. sendBuffer[s] = Run(sendBase[s], sendEnd[s] - sendBase[s])
      BY <1>1 DEF SendSound
    <3>2. sendBase[s] + (sendEnd[s] - sendBase[s]) = sendEnd[s]
      BY <1>2
    <3>3. Run(sendBase[s], sendEnd[s] - sendBase[s])
              \o Run(sendBase[s] + (sendEnd[s] - sendBase[s]), n)
            = Run(sendBase[s], (sendEnd[s] - sendBase[s]) + n)
      BY <1>2, <2>2, JoinRuns
    <3> QED BY <3>1, <3>2, <3>3
  <2>4. (sendEnd[s] - sendBase[s]) + n = (sendEnd[s] + n) - sendBase[s]
    BY <1>2, <2>2
  <2>5. sendBuffer'[s] = Run(sendBase'[s], sendEnd'[s] - sendBase'[s])
    BY <1>1, <2>1, <2>3, <2>4 DEF TypeOK
  <2>6. sendBase'[s] <= sendEnd'[s] /\ sendEnd'[s] <= Budget[s]
    <3>1. sendEnd'[s] = sendEnd[s] + n
      BY <1>1, <2>1 DEF TypeOK
    <3>2. sendBase[s] <= sendEnd[s]
      BY <1>1 DEF SendSound
    <3> QED BY <1>2, <2>1, <2>2, <3>1, <3>2
  <2>7. ASSUME NEW t \in Sides, t # s
        PROVE  sendBase'[t] = sendBase[t] /\ sendEnd'[t] = sendEnd[t] /\ sendBuffer'[t] = sendBuffer[t]
    BY <1>1, <2>1, <2>7 DEF TypeOK
  <2> QED BY <1>1, <2>5, <2>6, <2>7 DEF SendSound
<1>5. ASSUME NEW s \in Sides, NEW p \in Paths, ApplyAck(s, p), UNCHANGED sendEnd PROVE SendSound'
  <2> DEFINE off == reader[s][p].frame.off
  <2>1. off \in Nat
    BY HeldFrame
  <2>2. CASE UNCHANGED sendVars
    BY <1>3, <2>2
  <2>3. CASE /\ sendBase[s] <= off /\ off <= sendEnd[s]
             /\ sendBuffer' = [sendBuffer EXCEPT ![s] = DropFirst(sendBuffer[s], off - sendBase[s])]
             /\ sendBase' = [sendBase EXCEPT ![s] = off]
    <3> HIDE DEF off
    <3>1. sendBuffer[s] = Run(sendBase[s], sendEnd[s] - sendBase[s])
      BY <1>1 DEF SendSound
    <3>2. DropFirst(sendBuffer[s], off - sendBase[s]) = Run(off, sendEnd[s] - off)
      <4>1. DropFirst(Run(sendBase[s], sendEnd[s] - sendBase[s]), off - sendBase[s])
              = Run(off, sendEnd[s] - off)
        BY <1>2, <2>1, <2>3, AckedBuffer
      <4> QED BY <3>1, <4>1
    <3>3. sendBase'[s] = off /\ sendBuffer'[s] = Run(off, sendEnd[s] - off) /\ sendEnd' = sendEnd
      BY <1>1, <1>5, <2>3, <3>2 DEF TypeOK
    <3>4. ASSUME NEW t \in Sides, t # s
          PROVE  sendBase'[t] = sendBase[t] /\ sendBuffer'[t] = sendBuffer[t]
      BY <1>1, <2>3, <3>4 DEF TypeOK
    <3> QED BY <1>1, <2>3, <3>3, <3>4 DEF SendSound
  <2>4. \/ UNCHANGED <<sendBuffer, sendBase>>
        \/ /\ sendBase[s] <= off /\ off <= sendEnd[s]
           /\ sendBuffer' = [sendBuffer EXCEPT ![s] = DropFirst(sendBuffer[s], off - sendBase[s])]
           /\ sendBase' = [sendBase EXCEPT ![s] = off]
    BY <1>5 DEF ApplyAck, Kept
  <2> QED BY <1>5, <2>2, <2>3, <2>4 DEF sendVars
<1> QED BY <1>3, <1>4, <1>5, WhoSends

LEMMA AttachSoundStep ==
    ASSUME SendInv, [Next]_vars
    PROVE  AttachSound'
<1>1. TypeOK /\ TypeOK' /\ SendSound /\ AttachSound
  BY TypeStep DEF SendInv
<1>2. ASSUME NEW s \in Sides
      PROVE  /\ sendEnd[s] \in Nat /\ sendEnd'[s] \in Nat /\ sendEnd[s] <= sendEnd'[s]
             /\ attach[s].off \in Nat /\ attach[s].data \in Seq(Nat) /\ Len(attach[s].data) \in Nat
  BY <1>1, SoundStays, SendNumbers, CopyNumbers DEF TypeOK
<1>3. ASSUME NEW s \in Sides, attach'[s] = attach[s]
      PROVE  /\ attach'[s].data = Run(attach'[s].off, Len(attach'[s].data))
             /\ attach'[s].off + Len(attach'[s].data) <= sendEnd'[s]
  BY <1>1, <1>2, <1>3 DEF AttachSound
<1>4. ASSUME NEW s \in Sides, attach'[s] = NotAttaching
      PROVE  /\ attach'[s].data = Run(attach'[s].off, Len(attach'[s].data))
             /\ attach'[s].off + Len(attach'[s].data) <= sendEnd'[s]
  BY <1>2, <1>4, EmptyRun DEF NotAttaching
<1>5. ASSUME NEW s \in Sides, AttachTransport(s)
      PROVE  \A t \in Sides :
               /\ attach'[t].data = Run(attach'[t].off, Len(attach'[t].data))
               /\ attach'[t].off + Len(attach'[t].data) <= sendEnd'[t]
  <2>1. CASE UNCHANGED attach
    BY <1>3, <2>1
  <2>2. CASE attach' = [attach EXCEPT ![s] =
                          [path |-> offer[s], off |-> sendBase[s], data |-> sendBuffer[s]]]
    <3>1. attach'[s].off = sendBase[s] /\ attach'[s].data = sendBuffer[s]
      BY <1>1, <2>2 DEF TypeOK
    <3>2. /\ sendBase[s] \in Nat /\ sendEnd[s] - sendBase[s] \in Nat
          /\ sendBuffer[s] = Run(sendBase[s], sendEnd[s] - sendBase[s])
      BY SendNumbers
    <3>3. Len(sendBuffer[s]) = sendEnd[s] - sendBase[s]
      BY SendNumbers
    <3>4. sendBase[s] + Len(sendBuffer[s]) <= sendEnd'[s]
      BY <1>2, <3>2, <3>3
    <3>5. ASSUME NEW t \in Sides, t # s PROVE attach'[t] = attach[t]
      BY <1>1, <2>2, <3>5 DEF TypeOK
    <3> QED BY <1>3, <3>1, <3>2, <3>3, <3>4, <3>5
  <2> QED BY <1>5, <2>1, <2>2 DEF AttachTransport
<1>6. ASSUME NEW s \in Sides, ReplayChunk(s)
      PROVE  \A t \in Sides :
               /\ attach'[t].data = Run(attach'[t].off, Len(attach'[t].data))
               /\ attach'[t].off + Len(attach'[t].data) <= sendEnd'[t]
  <2> DEFINE a == attach[s]
             n == Smaller(ChunkSize, Len(a.data))
  <2>1. \/ attach' = [attach EXCEPT ![s] = NotAttaching]
        \/ attach' = [attach EXCEPT ![s] =
                        [path |-> a.path, off |-> a.off + n, data |-> DropFirst(a.data, n)]]
    BY <1>6 DEF ReplayChunk
  <2>2. ASSUME NEW t \in Sides, t # s PROVE attach'[t] = attach[t]
    BY <1>1, <2>1, <2>2 DEF TypeOK
  <2>3. CASE attach' = [attach EXCEPT ![s] = NotAttaching]
    <3>1. attach'[s] = NotAttaching
      BY <1>1, <2>3 DEF TypeOK
    <3> QED BY <1>3, <1>4, <2>2, <3>1
  <2>4. CASE attach' = [attach EXCEPT ![s] =
                          [path |-> a.path, off |-> a.off + n, data |-> DropFirst(a.data, n)]]
    <3>1. n \in 0..Len(a.data) /\ n \in Nat
      BY <1>2, SizeAssumption DEF Smaller
    <3>2. attach'[s].off = a.off + n /\ attach'[s].data = DropFirst(a.data, n)
      <4> HIDE DEF n
      <4> QED BY <1>1, <2>4 DEF TypeOK
    <3>3. a.data = Run(a.off, Len(a.data)) /\ a.off + Len(a.data) <= sendEnd[s]
      BY <1>1 DEF AttachSound
    <3>4. DropFirst(a.data, n) = Run(a.off + n, Len(a.data) - n)
      <4> HIDE DEF n, a
      <4>1. a.off \in Nat /\ Len(a.data) \in Nat
        BY <1>2 DEF a
      <4> QED BY <3>1, <3>3, <4>1, DropFromRun
    <3>5. Len(Run(a.off + n, Len(a.data) - n)) = Len(a.data) - n
      <4>1. a.off + n \in Nat /\ Len(a.data) - n \in Nat
        <5> HIDE DEF n
        <5> QED BY <1>2, <3>1
      <4> HIDE DEF n, a
      <4> QED BY <4>1, RunIsSeq
    <3>6. (a.off + n) + (Len(a.data) - n) <= sendEnd'[s]
      <4>1. a.off \in Nat /\ Len(a.data) \in Nat /\ sendEnd[s] \in Nat /\ sendEnd'[s] \in Nat
        BY <1>2
      <4>2. sendEnd[s] <= sendEnd'[s]
        BY <1>2
      <4> HIDE DEF n, a
      <4> QED BY <3>1, <3>3, <4>1, <4>2
    <3> HIDE DEF n, a
    <3> QED BY <1>3, <2>2, <3>2, <3>4, <3>5, <3>6
  <2> QED BY <2>1, <2>3, <2>4
<1>7. ASSUME NEW s \in Sides, AttachDone(s)
      PROVE  \A t \in Sides :
               /\ attach'[t].data = Run(attach'[t].off, Len(attach'[t].data))
               /\ attach'[t].off + Len(attach'[t].data) <= sendEnd'[t]
  <2>1. attach' = [attach EXCEPT ![s] = NotAttaching]
    BY <1>7 DEF AttachDone
  <2>2. \A t \in Sides : attach'[t] = attach[t] \/ attach'[t] = NotAttaching
    BY <1>1, <2>1 DEF TypeOK
  <2> QED BY <1>3, <1>4, <2>2
<1>8. CASE UNCHANGED attach
  BY <1>3, <1>8 DEF AttachSound
<1> QED BY <1>5, <1>6, <1>7, <1>8, WhoReplays DEF AttachSound

\* Control frames, and an empty chunk, carry nothing that could be wrong.
LEMMA ControlSound ==
    ASSUME NEW s \in Sides, sendEnd[s] \in Nat
    PROVE  /\ CloseFrame \in SoundFrames(s) /\ NoChunk \in SoundFrames(s)
           /\ \A off \in Nat : AckFrame(off) \in SoundFrames(s)
<1>1. NoChunk.data = Run(0, 0) /\ NoChunk.off = 0 /\ Len(NoChunk.data) = 0
  BY EmptyRun DEF NoChunk, DataFrame
<1> QED BY <1>1, FrameTypes DEF SoundFrames, CloseFrame, AckFrame

LEMMA ChunkSoundStep ==
    ASSUME SendInv, [Next]_vars
    PROVE  ChunkSound'
<1> USE DEF netVars, sendVars, recvVars, endVars
<1>1. TypeOK /\ TypeOK' /\ ChunkSound
  BY TypeStep DEF SendInv
<1>2. CASE UNCHANGED chunk
  BY <1>1, <1>2, SoundStays DEF ChunkSound
<1>3. ASSUME NEW s \in Sides, Write(s) PROVE ChunkSound'
  <2>1. PICK n \in 1..ChunkSize :
          /\ chunk' = [chunk EXCEPT ![s] = DataFrame(sendEnd[s], Run(sendEnd[s], n))]
          /\ sendEnd' = [sendEnd EXCEPT ![s] = @ + n]
    BY <1>3 DEF Write
  <2>2. n \in Nat /\ sendEnd[s] \in Nat /\ sendEnd'[s] = sendEnd[s] + n
    BY <1>1, <2>1, SizeAssumption DEF TypeOK
  <2>3. Run(sendEnd[s], n) \in Seq(Nat) /\ Len(Run(sendEnd[s], n)) = n
    BY <2>2, RunIsSeq
  <2>4. DataFrame(sendEnd[s], Run(sendEnd[s], n)) \in Frame
    BY <2>2, <2>3, FrameTypes
  <2>5. DataFrame(sendEnd[s], Run(sendEnd[s], n)) \in SoundFrames(s)'
    BY <2>2, <2>3, <2>4 DEF SoundFrames, DataFrame
  <2>6. chunk'[s] \in SoundFrames(s)'
    BY <1>1, <2>1, <2>5 DEF TypeOK
  <2>7. ASSUME NEW t \in Sides, t # s PROVE chunk'[t] \in SoundFrames(t)'
    BY <1>1, <2>1, <2>7, SoundStays DEF TypeOK, ChunkSound
  <2> QED BY <2>6, <2>7 DEF ChunkSound
<1>4. ASSUME NEW s \in Sides, SendChunk(s) PROVE ChunkSound'
  <2>1. chunk' = chunk \/ chunk' = [chunk EXCEPT ![s] = NoChunk]
    BY <1>4 DEF SendChunk
  <2>2. ASSUME NEW t \in Sides PROVE chunk'[t] \in SoundFrames(t)'
    <3>1. chunk'[t] = chunk[t] \/ chunk'[t] = NoChunk
      BY <1>1, <2>1 DEF TypeOK
    <3>2. sendEnd[t] \in Nat
      BY <1>1 DEF TypeOK
    <3>3. NoChunk \in SoundFrames(t) /\ chunk[t] \in SoundFrames(t)
      BY <1>1, <3>2, ControlSound DEF ChunkSound
    <3> QED BY <3>1, <3>3, SoundStays
  <2> QED BY <2>2 DEF ChunkSound
<1>5. CASE UNCHANGED vars
  BY <1>2, <1>5 DEF vars
<1>6. CASE LosePath \/ Barrier \/ Resume
  BY <1>2, <1>6 DEF LosePath, Barrier, Resume
<1>7. ASSUME NEW s \in Sides,
             \/ Read(s) \/ Close(s) \/ AttachTransport(s) \/ ReplayChunk(s)
             \/ AttachDone(s) \/ Expire(s) \/ Drop(s)
      PROVE  ChunkSound'
  BY <1>2, <1>7 DEF Read, Close, AttachTransport, ReplayChunk, AttachDone, Expire, Drop
<1>8. ASSUME NEW s \in Sides, NEW p \in Paths, ReadTransport(s, p) PROVE ChunkSound'
  BY <1>2, <1>8 DEF ReadTransport, ReadFrame, ReadClose, ReadError, ApplyAck, ApplyData, Unpark, WriteAck
<1> QED BY <1>3, <1>4, <1>5, <1>6, <1>7, <1>8 DEF Next, Side

\* Whatever step is taken, the frames on the wires have what the frames that
\* the two ends send have.
LEMMA WiresStay ==
    ASSUME TypeOK, [Next]_vars, NEW F \in [Sides -> SUBSET Frame], OnWires(F),
           \A s \in Sides :
             chunk[s] \in F[s] /\ CloseFrame \in F[s] /\ AckFrame(recvOffset[s]) \in F[s],
           \A s \in Sides : \A n \in 0..Len(attach[s].data) :
             DataFrame(attach[s].off, TakeFirst(attach[s].data, n)) \in F[s],
           \A s \in Sides, p \in Paths :
             reader[s][p].pc = "ack" => reader[s][p].frame \in F[s]
    PROVE  \A s \in Sides, p \in Paths : wire'[p][s] \in Seq(F[s])
<1> USE DEF netVars, sendVars, recvVars, endVars
<1> DEFINE Good == \A s \in Sides, p \in Paths : wire'[p][s] \in Seq(F[s])
<1>1. CASE UNCHANGED wire
  BY <1>1 DEF OnWires
<1>2. ASSUME NEW s \in Sides, NEW p \in Paths, NEW f \in F[s], wire' = Put(s, p, f)
      PROVE  Good
  BY <1>2, PutIn
<1>3. ASSUME NEW s \in Sides, SendChunk(s) PROVE Good
  <2>1. ws[s] \in Paths
    BY <1>3, WsPath DEF SendChunk
  <2> QED BY <1>1, <1>2, <1>3, <2>1 DEF SendChunk, WriteSucceeds, WriteFails
<1>4. ASSUME NEW s \in Sides, Close(s) PROVE Good
  <2>1. ws[s] # 0 => ws[s] \in Paths
    BY WsPath
  <2> QED BY <1>1, <1>2, <1>4, <2>1 DEF Close
<1>5. ASSUME NEW s \in Sides, AttachTransport(s) PROVE Good
  <2>1. offer[s] \in Paths
    BY <1>5, SizeAssumption DEF AttachTransport, TypeOK, Paths
  <2> QED BY <1>1, <1>2, <1>5, <2>1 DEF AttachTransport, AttachAck
<1>6. ASSUME NEW s \in Sides, ReplayChunk(s) PROVE Good
  <2> DEFINE a == attach[s]
             n == Smaller(ChunkSize, Len(a.data))
             f == DataFrame(a.off, TakeFirst(a.data, n))
  <2>1. a.path \in Paths
    BY <1>6, SizeAssumption DEF ReplayChunk, TypeOK, Paths
  <2>2. Len(a.data) \in Nat
    BY DEF TypeOK
  <2>3. n \in 0..Len(a.data)
    BY <2>2, SizeAssumption DEF Smaller
  <2>4. f \in F[s]
    <3> HIDE DEF n
    <3> QED BY <2>3
  <2>5. wire' = wire \/ wire' = Put(s, a.path, f)
    BY <1>6 DEF ReplayChunk, WriteSucceeds, WriteFails
  <2> HIDE DEF a, f
  <2> QED BY <1>1, <1>2, <2>1, <2>4, <2>5
<1>7. ASSUME NEW s \in Sides, NEW p \in Paths, WriteAck(s, p) PROVE Good
  BY <1>1, <1>2, <1>7 DEF WriteAck, WriteSucceeds, WriteFails
<1>8. ASSUME NEW s \in Sides, NEW p \in Paths, ReadFrame(s, p) PROVE Good
  <2>1. Peer[s] \in Sides /\ wire[p][Peer[s]] # <<>>
    BY <1>8, ConstantTypes DEF ReadFrame
  <2>2. Tail(wire[p][Peer[s]]) \in Seq(F[Peer[s]])
    BY <2>1, SeqOps DEF OnWires
  <2>3. wire' = [wire EXCEPT ![p][Peer[s]] = Tail(wire[p][Peer[s]])]
    BY <1>8 DEF ReadFrame
  <2> QED BY <2>1, <2>2, <2>3 DEF TypeOK, OnWires
<1>9. CASE Resume
  BY <1>9, ResumeWires
<1>10. CASE LosePath \/ Barrier \/ UNCHANGED vars
  BY <1>1, <1>10 DEF LosePath, Barrier, vars
<1>11. ASSUME NEW s \in Sides, Write(s) \/ Read(s) \/ AttachDone(s) \/ Expire(s) \/ Drop(s)
       PROVE  Good
  BY <1>1, <1>11 DEF Write, Read, AttachDone, Expire, Drop
<1>12. ASSUME NEW s \in Sides, NEW p \in Paths,
              \/ ReadClose(s, p) \/ ReadError(s, p)
              \/ ApplyAck(s, p) \/ ApplyData(s, p) \/ Unpark(s, p)
       PROVE  Good
  BY <1>1, <1>12 DEF ReadClose, ReadError, ApplyAck, ApplyData, Unpark
<1> QED
  BY <1>3, <1>4, <1>5, <1>6, <1>7, <1>8, <1>9, <1>10, <1>11, <1>12 DEF Next, Side, ReadTransport

LEMMA WireSoundStep ==
    ASSUME SendInv, [Next]_vars
    PROVE  WireSound'
<1> DEFINE F == [s \in Sides |-> SoundFrames(s)]
<1>1. TypeOK /\ WireSound /\ ChunkSound /\ AttachSound /\ ReaderSound
  BY DEF SendInv
<1>2. F \in [Sides -> SUBSET Frame] /\ (\A s \in Sides : F[s] = SoundFrames(s)) /\ OnWires(F)
  BY <1>1 DEF SoundFrames, WireSound, OnWires
<1>3. ASSUME NEW s \in Sides
      PROVE  /\ chunk[s] \in SoundFrames(s) /\ CloseFrame \in SoundFrames(s)
             /\ AckFrame(recvOffset[s]) \in SoundFrames(s)
  BY <1>1, ControlSound DEF TypeOK, ChunkSound
<1>4. ASSUME NEW s \in Sides, NEW n \in 0..Len(attach[s].data)
      PROVE  DataFrame(attach[s].off, TakeFirst(attach[s].data, n)) \in SoundFrames(s)
  <2>1. sendEnd[s] \in Nat /\ attach[s].off \in Nat /\ attach[s].data \in Seq(Nat)
    BY <1>1, CopyNumbers DEF TypeOK
  <2>2. /\ attach[s].data = Run(attach[s].off, Len(attach[s].data))
        /\ attach[s].off + Len(attach[s].data) <= sendEnd[s]
    BY <1>1 DEF AttachSound
  <2> QED BY <2>1, <2>2, ReplayedChunk
<1>5. ASSUME NEW s \in Sides, NEW p \in Paths, reader[s][p].pc = "ack"
      PROVE  reader[s][p].frame \in SoundFrames(s)
  <2>1. reader[s][p].frame \in Frame /\ reader[s][p].frame.type = "ack"
    BY <1>1, <1>5, HeldFrame DEF ReaderSound
  <2> QED BY <2>1 DEF SoundFrames
<1>6. \A s \in Sides, p \in Paths : wire'[p][s] \in Seq(F[s])
  <2> HIDE DEF F
  <2> QED BY <1>1, <1>2, <1>3, <1>4, <1>5, WiresStay
<1>7. ASSUME NEW s \in Sides, NEW p \in Paths PROVE wire'[p][s] \in Seq(SoundFrames(s)')
  BY <1>2, <1>6, SoundStays, SeqMono
<1> QED BY <1>7 DEF WireSound

LEMMA WhoReads ==
    ASSUME [Next]_vars
    PROVE  \/ UNCHANGED reader
           \/ \E s \in Sides : AttachDone(s)
           \/ \E s \in Sides, p \in Paths : ReadTransport(s, p)
<1> USE DEF netVars, sendVars, recvVars, endVars
<1>1. CASE UNCHANGED vars
  BY <1>1 DEF vars
<1>2. CASE LosePath \/ Barrier \/ Resume
  BY <1>2 DEF LosePath, Barrier, Resume
<1>3. ASSUME NEW s \in Sides,
             \/ Write(s) \/ SendChunk(s) \/ Read(s) \/ Close(s) \/ AttachTransport(s)
             \/ ReplayChunk(s) \/ Expire(s) \/ Drop(s)
      PROVE  UNCHANGED reader
  BY <1>3 DEF Write, SendChunk, Read, Close, AttachTransport, ReplayChunk, Expire, Drop
<1> QED BY <1>1, <1>2, <1>3 DEF Next, Side

\* A reader that takes up a sound frame leaves every reader sound.
LEMMA SetReaderSound ==
    ASSUME SendInv, [Next]_vars, NEW s \in Sides, NEW p \in Paths, NEW r \in Reader,
           reader' = [reader EXCEPT ![s][p] = r],
           r.frame \in SoundFrames(Peer[s]), r.pc = "ack" => r.frame.type = "ack"
    PROVE  ReaderSound'
<1>1. reader \in [Sides -> [Paths -> Reader]] /\ ReaderSound
  BY DEF SendInv, TypeOK
<1>2. ASSUME NEW t \in Sides, NEW q \in Paths
      PROVE  /\ reader'[t][q].frame \in SoundFrames(Peer[t])'
             /\ reader'[t][q].pc = "ack" => reader'[t][q].frame.type = "ack"
  <2>1. Peer[t] \in Sides
    BY ConstantTypes
  <2>2. SoundFrames(Peer[t]) \subseteq SoundFrames(Peer[t])'
    BY <2>1, SoundStays
  <2>3. (reader'[t][q] = r /\ t = s) \/ reader'[t][q] = reader[t][q]
    BY <1>1
  <2> QED BY <1>1, <2>2, <2>3 DEF ReaderSound
<1> QED BY <1>2 DEF ReaderSound

LEMMA ReaderSoundStep ==
    ASSUME SendInv, [Next]_vars
    PROVE  ReaderSound'
<1> USE DEF netVars, sendVars, recvVars, endVars
<1>1. TypeOK /\ WireSound /\ ReaderSound
  BY DEF SendInv
<1>2. ASSUME NEW s \in Sides PROVE Peer[s] \in Sides /\ sendEnd[Peer[s]] \in Nat /\ recvOffset[s] \in Nat
  BY <1>1, ConstantTypes DEF TypeOK
<1>3. CASE UNCHANGED reader
  BY <1>1, <1>2, <1>3, SoundStays DEF ReaderSound
<1>4. ASSUME NEW s \in Sides, NEW p \in Paths,
             \/ reader' = [reader EXCEPT ![s][p] = ReaderOff]
             \/ reader' = [reader EXCEPT ![s][p] = ReaderIdle]
      PROVE  ReaderSound'
  <2>1. CloseFrame \in SoundFrames(Peer[s])
    BY <1>2, ControlSound
  <2>2. ReaderOff \in Reader /\ ReaderIdle \in Reader
    BY ReaderTypes
  <2>3. /\ ReaderOff.frame = CloseFrame /\ ReaderOff.pc # "ack"
        /\ ReaderIdle.frame = CloseFrame /\ ReaderIdle.pc # "ack"
    BY DEF ReaderOff, ReaderIdle
  <2> QED BY <1>4, <2>1, <2>2, <2>3, SetReaderSound
<1>5. ASSUME NEW s \in Sides, NEW p \in Paths, NEW pc \in ReaderStates,
             NEW f \in SoundFrames(Peer[s]), pc = "ack" => f.type = "ack", SetReader(s, p, pc, f)
      PROVE  ReaderSound'
  <2>1. [pc |-> pc, frame |-> f] \in Reader
    BY ReaderTypes DEF SoundFrames
  <2> QED BY <1>5, <2>1, SetReaderSound DEF SetReader
<1>6. ASSUME NEW s \in Sides, NEW p \in Paths, NEW off \in Nat, SetReader(s, p, "ack", AckFrame(off))
      PROVE  ReaderSound'
  <2>1. AckFrame(off) \in SoundFrames(Peer[s]) /\ AckFrame(off).type = "ack"
    BY <1>2, ControlSound DEF AckFrame
  <2> QED BY <1>5, <1>6, <2>1 DEF ReaderStates
<1>7. ASSUME NEW s \in Sides, AttachDone(s) PROVE ReaderSound'
  <2>1. attach[s].path \in Paths
    BY <1>1, <1>7, SizeAssumption DEF AttachDone, TypeOK, Paths
  <2> QED BY <1>4, <1>7, <2>1 DEF AttachDone
<1>8. ASSUME NEW s \in Sides, NEW p \in Paths, ReadFrame(s, p) PROVE ReaderSound'
  <2>1. wire[p][Peer[s]] \in Seq(SoundFrames(Peer[s])) /\ wire[p][Peer[s]] # <<>>
    BY <1>1, <1>2, <1>8 DEF WireSound, ReadFrame
  <2>2. Head(wire[p][Peer[s]]) \in SoundFrames(Peer[s])
    BY <2>1, SeqOps
  <2> QED BY <1>5, <1>8, <2>2 DEF ReadFrame, ReaderStates
<1>9. ASSUME NEW s \in Sides, NEW p \in Paths, ApplyData(s, p) PROVE ReaderSound'
  <2> DEFINE f == reader[s][p].frame
             fresh == DropFirst(f.data, recvOffset[s] - f.off)
  <2>1. CASE GiveUp(s, p) \/ SetReader(s, p, "ack", AckFrame(recvOffset[s]))
    BY <1>2, <1>4, <1>6, <2>1 DEF GiveUp
  <2>2. CASE /\ f.off <= recvOffset[s] /\ f.off + Len(f.data) > recvOffset[s]
             /\ \/ Accept(s, p, fresh)
                \/ SetReader(s, p, "parked", DataFrame(recvOffset[s], fresh))
    <3>1. f.type = "data" /\ f \in SoundFrames(Peer[s])
      BY <1>1, <1>9 DEF ApplyData, ReaderSound
    <3>2. f.off \in Nat /\ Len(f.data) \in Nat
      <4>1. f.off \in Nat /\ f.data \in Seq(Nat)
        BY HeldFrame
      <4> HIDE DEF f
      <4> QED BY <4>1
    <3>3. recvOffset[s] < f.off + Len(f.data)
      BY <1>2, <2>2, <3>2
    <3>4. /\ fresh \in Seq(Nat) /\ Len(fresh) = f.off + Len(f.data) - recvOffset[s]
          /\ DataFrame(recvOffset[s], fresh) \in SoundFrames(Peer[s])
      <4> HIDE DEF f
      <4> QED BY <1>2, <2>2, <3>1, <3>3, FreshBytes
    <3>5. CASE Accept(s, p, fresh)
      <4>1. recvOffset[s] + Len(fresh) \in Nat
        <5> HIDE DEF f, fresh
        <5> QED BY <1>2, <3>4
      <4> QED BY <1>6, <3>5, <4>1 DEF Accept
    <3>6. CASE SetReader(s, p, "parked", DataFrame(recvOffset[s], fresh))
      BY <1>5, <3>4, <3>6 DEF ReaderStates
    <3> QED BY <2>2, <3>5, <3>6
  <2> QED BY <1>9, <2>1, <2>2 DEF ApplyData, Fresh, Room
<1>10. ASSUME NEW s \in Sides, NEW p \in Paths, Unpark(s, p) PROVE ReaderSound'
  <2>1. reader[s][p].frame.data \in Seq(Nat)
    BY HeldFrame
  <2>2. recvOffset[s] + Len(reader[s][p].frame.data) \in Nat
    BY <1>2, <2>1
  <2> QED BY <1>4, <1>6, <1>10, <2>2 DEF Unpark, GiveUp, Accept
<1>11. ASSUME NEW s \in Sides, NEW p \in Paths,
              ReadClose(s, p) \/ ReadError(s, p) \/ ApplyAck(s, p) \/ WriteAck(s, p)
       PROVE  ReaderSound'
  BY <1>4, <1>11 DEF ReadClose, ReadError, ApplyAck, WriteAck, GiveUp
<1> QED BY <1>3, <1>7, <1>8, <1>9, <1>10, <1>11, WhoReads DEF ReadTransport

\* The sending half is inductive.
LEMMA SendInvStep == SendInv /\ [Next]_vars => SendInv'
BY TypeStep, SendSoundStep, AttachSoundStep, ChunkSoundStep, WireSoundStep, ReaderSoundStep DEF SendInv

LEMMA SendInvHolds == Spec => []SendInv
BY InitSendInv, SendInvStep, PTL DEF Spec

\* Every variable of the two ends, the relay and the network keeps its type.
THEOREM TypeCorrect == Spec => []TypeOK
<1>1. SendInv => TypeOK
  BY DEF SendInv
<1> QED BY <1>1, SendInvHolds, PTL
=============================================================================
