------------------------- MODULE ResumableStreamAcks -------------------------
(***************************************************************************)
(* Theorems about the acknowledgements of ResumableStream: on a current    *)
(* transport they arrive in order, so that applyAck never refuses one as   *)
(* long as no reader waits for room.                                       *)
(***************************************************************************)
EXTENDS ResumableStreamReceiving

\* The acknowledgements that are on their way to s, in their places: on path p
\* the one that its reader holds comes first, then those on the wire.
HeldBy(s, p, i) == IF i = 0 THEN reader[s][p].frame ELSE wire[p][Peer[s]][i]

Pending(s, p, i) ==
    /\ i \in 0..Len(wire[p][Peer[s]])
    /\ i = 0 => reader[s][p].pc = "apply"
    /\ HeldBy(s, p, i).type = "ack"

Before(p, i, q, j) == p < q \/ (p = q /\ i < j)

\* Only the newest path is in use, and it has been offered once.
NewestPath ==
    \A s \in Sides :
      /\ ws[s] \in {0, path} /\ offer[s] \in {0, path} /\ attach[s].path \in {0, path}
      /\ offer[s] # 0 => attach[s].path = 0 /\ reader[s][path].pc = "off"
      /\ \A p \in Paths : p > path => reader[s][p].pc = "off" /\ wire[p][s] = <<>>

\* Acknowledgements arrive in the order of their offsets.
InOrder ==
    \A s \in Sides : \A p, q \in Paths, i, j \in Nat :
      Pending(s, p, i) /\ Pending(s, q, j) /\ Before(p, i, q, j)
        => HeldBy(s, p, i).off <= HeldBy(s, q, j).off

\* Those of the newest path, and the one that is about to be written to it,
\* are not behind what has been acknowledged.
NotBehind ==
    \A s \in Sides, p \in Paths : p = path =>
      /\ \A i \in Nat : Pending(s, p, i) => sendBase[s] <= HeldBy(s, p, i).off
      /\ reader[Peer[s]][p].pc = "ack" =>
           /\ sendBase[s] <= reader[Peer[s]][p].frame.off
           /\ \A q \in Paths, i \in Nat : Pending(s, q, i) =>
                HeldBy(s, q, i).off <= reader[Peer[s]][p].frame.off

OrderInv == NewestPath /\ InOrder /\ NotBehind

-----------------------------------------------------------------------------
(* NewestPath.                                                             *)

LEMMA PathTypes ==
    ASSUME TypeOK
    PROVE  /\ path \in Paths /\ path \in Nat /\ path # 0
           /\ reader \in [Sides -> [Paths -> Reader]]
           /\ wire \in [Paths -> [Sides -> Seq(Frame)]]
           /\ ws \in [Sides -> 0..MaxPath] /\ offer \in [Sides -> 0..MaxPath]
           /\ attach \in [Sides -> [path : 0..MaxPath, off : Nat, data : Seq(Nat)]]
<1>1. path \in Paths
  BY DEF TypeOK
<1>2. path \in Nat /\ path # 0
  BY <1>1, SizeAssumption DEF Paths
<1> QED BY <1>1, <1>2 DEF TypeOK

LEMMA InitOrderInv == Init => OrderInv
<1> SUFFICES ASSUME Init PROVE OrderInv
  OBVIOUS
<1>1. \A s \in Sides : Peer[s] \in Sides
  BY ConstantTypes
<1>2. \A s \in Sides, p \in Paths : reader[s][p].pc = "off" /\ wire[p][s] = <<>>
  BY DEF Init, ReaderOff
<1>3. path = 1 /\ path \in Paths
  BY ConstantTypes DEF Init
<1>4. NewestPath
  BY <1>2, <1>3 DEF Init, NewestPath, NotAttaching
<1>5. \A s \in Sides, p \in Paths, i \in Nat : ~Pending(s, p, i)
  <2> TAKE s \in Sides, p \in Paths, i \in Nat
  <2>1. Len(wire[p][Peer[s]]) = 0
    BY <1>1, <1>2
  <2> QED BY <1>2, <2>1 DEF Pending
<1> QED BY <1>1, <1>2, <1>3, <1>4, <1>5 DEF OrderInv, InOrder, NotBehind

\* Only the newest path carries what is written.
LEMMA PutIsNewest ==
    ASSUME NEW s, NEW p, NEW f
    PROVE  Put(s, p, f) = wire \/ (p = path /\ Put(s, p, f) = [wire EXCEPT ![path][s] = Append(@, f)])
BY DEF Put, Live

LEMMA PutElsewhere ==
    ASSUME TypeOK, NEW s \in Sides, NEW p, NEW f, NEW t \in Sides, NEW q \in Paths, q > path
    PROVE  Put(s, p, f)[q][t] = wire[q][t]
<1>1. q # path /\ wire \in [Paths -> [Sides -> Seq(Frame)]]
  BY PathTypes
<1>2. [wire EXCEPT ![path][s] = Append(@, f)][q] = wire[q]
  BY <1>1
<1>3. CASE Put(s, p, f) = wire
  BY <1>3
<1>4. CASE Put(s, p, f) = [wire EXCEPT ![path][s] = Append(@, f)]
  BY <1>2, <1>4
<1> QED BY <1>3, <1>4, PutIsNewest

\* Readers of paths that are still to come do nothing.
LEMMA ReaderIsOn ==
    ASSUME NewestPath, TypeOK, NEW s \in Sides, NEW p \in Paths, reader[s][p].pc # "off"
    PROVE  ~(p > path) /\ (p = path => offer[s] = 0)
BY DEF NewestPath

\* Which steps write, and what.
LEMMA WhoWrites ==
    ASSUME [Next]_vars
    PROVE  \/ UNCHANGED wire
           \/ \E s \in Sides :
                /\ SendChunk(s) \/ Close(s) \/ ReplayChunk(s) \/ AttachTransport(s)
                     \/ \E p \in Paths : WriteAck(s, p)
                /\ \E p, f : wire' = Put(s, p, f)
           \/ Resume
           \/ \E s \in Sides, p \in Paths : ReadFrame(s, p)
<1> USE DEF netVars, sendVars, recvVars, endVars
<1>1. CASE LosePath \/ Barrier \/ Resume \/ UNCHANGED vars
  BY <1>1 DEF LosePath, Barrier, vars
<1>2. ASSUME NEW s \in Sides, SendChunk(s) \/ Close(s) \/ ReplayChunk(s) \/ AttachTransport(s)
      PROVE  UNCHANGED wire \/ \E p, f : wire' = Put(s, p, f)
  BY <1>2 DEF SendChunk, Close, ReplayChunk, AttachTransport, WriteSucceeds, WriteFails
<1>3. ASSUME NEW s \in Sides, NEW p \in Paths, WriteAck(s, p)
      PROVE  UNCHANGED wire \/ \E q, f : wire' = Put(s, q, f)
  BY <1>3 DEF WriteAck, WriteSucceeds, WriteFails
<1>4. ASSUME NEW s \in Sides, Write(s) \/ Read(s) \/ AttachDone(s) \/ Expire(s) \/ Drop(s)
      PROVE  UNCHANGED wire
  BY <1>4 DEF Write, Read, AttachDone, Expire, Drop
<1>5. ASSUME NEW s \in Sides, NEW p \in Paths,
             \/ ReadClose(s, p) \/ ReadError(s, p)
             \/ ApplyAck(s, p) \/ ApplyData(s, p) \/ Unpark(s, p)
      PROVE  UNCHANGED wire
  BY <1>5 DEF ReadClose, ReadError, ApplyAck, ApplyData, Unpark
<1> QED BY <1>1, <1>2, <1>3, <1>4, <1>5 DEF Next, Side, ReadTransport

LEMMA NewestReader ==
    ASSUME TypeOK, NewestPath, NEW s \in Sides, NEW p \in Paths, ReadTransport(s, p)
    PROVE  NewestPath'
<1> USE DEF netVars, sendVars, recvVars, endVars
<1>0. reader \in [Sides -> [Paths -> Reader]] /\ wire \in [Paths -> [Sides -> Seq(Frame)]]
      /\ ws \in [Sides -> 0..MaxPath]
  BY PathTypes
<1>1. UNCHANGED <<path, offer, attach>>
  BY DEF ReadTransport, ReadFrame, ReadClose, ReadError, ApplyAck, ApplyData, Unpark, WriteAck
<1>2. reader[s][p].pc # "off"
  BY DEF ReadTransport, ReadFrame, ReadClose, ReadError, ApplyAck, ApplyData, Unpark, WriteAck
<1>3. ~(p > path) /\ (p = path => offer[s] = 0)
  BY <1>2, ReaderIsOn
<1>4. UNCHANGED reader \/ \E r : reader' = [reader EXCEPT ![s][p] = r]
  BY DEF ReadTransport, ReadFrame, ReadClose, ReadError, ApplyAck, ApplyData, Unpark, WriteAck,
         GiveUp, Accept, SetReader
<1>5. \A t \in Sides, q \in Paths : reader'[t][q] = reader[t][q] \/ (t = s /\ q = p)
  BY <1>0, <1>4
<1>6. ws' = ws \/ ws' = [ws EXCEPT ![s] = 0]
  BY DEF ReadTransport, ReadFrame, ReadClose, ReadError, ApplyAck, ApplyData, Unpark, WriteAck,
         GiveUp, DroppedWs
<1>7. \A t \in Sides : ws'[t] \in {0, ws[t]}
  BY <1>0, <1>6
<1>8. \A t \in Sides, q \in Paths : q > path => wire'[q][t] = wire[q][t]
  <2>1. \/ wire' = wire \/ wire' = [wire EXCEPT ![p][Peer[s]] = Tail(wire[p][Peer[s]])]
        \/ \E f : wire' = Put(s, p, f)
    BY DEF ReadTransport, ReadFrame, ReadClose, ReadError, ApplyAck, ApplyData, Unpark, WriteAck,
           WriteSucceeds, WriteFails
  <2>3. ASSUME NEW f, wire' = Put(s, p, f), NEW t \in Sides, NEW q \in Paths, q > path
        PROVE  wire'[q][t] = wire[q][t]
    BY <2>3, PutElsewhere
  <2>4. ASSUME wire' = [wire EXCEPT ![p][Peer[s]] = Tail(wire[p][Peer[s]])],
               NEW t \in Sides, NEW q \in Paths, q > path
        PROVE  wire'[q][t] = wire[q][t]
    <3>1. q # p
      BY <1>3, <2>4
    <3> QED BY <1>0, <2>4, <3>1
  <2> QED BY <2>1, <2>3, <2>4
<1> SUFFICES ASSUME NEW t \in Sides
             PROVE  /\ ws'[t] \in {0, path'} /\ offer'[t] \in {0, path'} /\ attach'[t].path \in {0, path'}
                    /\ offer'[t] # 0 => attach'[t].path = 0 /\ reader'[t][path'].pc = "off"
                    /\ \A q \in Paths : q > path' => reader'[t][q].pc = "off" /\ wire'[q][t] = <<>>
  BY DEF NewestPath
<1>9. /\ ws[t] \in {0, path} /\ offer[t] \in {0, path} /\ attach[t].path \in {0, path}
      /\ offer[t] # 0 => attach[t].path = 0 /\ reader[t][path].pc = "off"
      /\ \A q \in Paths : q > path => reader[t][q].pc = "off" /\ wire[q][t] = <<>>
  BY DEF NewestPath
<1>10. offer[t] # 0 => reader'[t][path].pc = "off"
  BY <1>3, <1>5, <1>9, PathTypes
<1>11. \A q \in Paths : q > path => reader'[t][q].pc = "off" /\ wire'[q][t] = <<>>
  BY <1>3, <1>5, <1>8, <1>9
<1> QED BY <1>1, <1>7, <1>9, <1>10, <1>11

LEMMA NewestSide ==
    ASSUME TypeOK, NewestPath, NEW s \in Sides,
           \/ Write(s) \/ SendChunk(s) \/ Read(s) \/ Close(s) \/ AttachTransport(s)
           \/ ReplayChunk(s) \/ AttachDone(s) \/ Expire(s) \/ Drop(s)
    PROVE  NewestPath'
<1> USE DEF netVars, sendVars, recvVars, endVars
<1>0. /\ reader \in [Sides -> [Paths -> Reader]] /\ wire \in [Paths -> [Sides -> Seq(Frame)]]
      /\ ws \in [Sides -> 0..MaxPath] /\ offer \in [Sides -> 0..MaxPath]
      /\ attach \in [Sides -> [path : 0..MaxPath, off : Nat, data : Seq(Nat)]]
      /\ path \in Paths /\ path \in Nat /\ path # 0
  BY PathTypes
<1>1. path' = path
  BY DEF Write, SendChunk, Read, Close, AttachTransport, ReplayChunk, AttachDone, Expire, Drop
<1>2. \A t \in Sides, q \in Paths : q > path => wire'[q][t] = wire[q][t]
  <2>1. wire' = wire \/ \E p, f : wire' = Put(s, p, f)
    BY DEF Write, SendChunk, Read, Close, AttachTransport, ReplayChunk, AttachDone, Expire, Drop,
           WriteSucceeds, WriteFails
  <2>3. ASSUME NEW p, NEW f, wire' = Put(s, p, f), NEW t \in Sides, NEW q \in Paths, q > path
        PROVE  wire'[q][t] = wire[q][t]
    BY <2>3, PutElsewhere
  <2> QED BY <2>1, <2>3
<1>3. ASSUME NEW t \in Sides
      PROVE  /\ ws[t] \in {0, path} /\ offer[t] \in {0, path} /\ attach[t].path \in {0, path}
             /\ offer[t] # 0 => attach[t].path = 0 /\ reader[t][path].pc = "off"
             /\ \A q \in Paths : q > path => reader[t][q].pc = "off" /\ wire[q][t] = <<>>
  BY DEF NewestPath
<1>4. \A t \in Sides : ws'[t] \in {0, path}
  <2>1. ws' = ws \/ ws' = [ws EXCEPT ![s] = 0] \/ (ws' = [ws EXCEPT ![s] = offer[s]])
    BY DEF Write, SendChunk, Read, Close, AttachTransport, ReplayChunk, AttachDone, Expire, Drop,
           DroppedWs, WriteSucceeds
  <2> QED BY <1>0, <1>3, <2>1
<1>5. \/ UNCHANGED offer
      \/ AttachTransport(s) /\ offer' = [offer EXCEPT ![s] = 0]
  BY DEF Write, SendChunk, Read, Close, AttachTransport, ReplayChunk, AttachDone, Expire, Drop
<1>6. \A t \in Sides : offer'[t] \in {0, offer[t]}
  BY <1>0, <1>5
<1>7. \A t \in Sides :
        /\ attach'[t].path \in {0, path}
        /\ offer'[t] # 0 => attach'[t].path = 0
  <2>1. \/ attach' = attach
        \/ attach' = [attach EXCEPT ![s] = NotAttaching]
        \/ /\ AttachTransport(s)
           /\ attach' = [attach EXCEPT ![s] =
                           [path |-> offer[s], off |-> sendBase[s], data |-> sendBuffer[s]]]
        \/ \E n, d : attach' = [attach EXCEPT ![s] = [path |-> attach[s].path, off |-> n, data |-> d]]
    BY DEF Write, SendChunk, Read, Close, AttachTransport, ReplayChunk, AttachDone, Expire, Drop
  <2> TAKE t \in Sides
  <2>2. CASE attach'[t] = attach[t]
    BY <1>3, <1>6, <2>2
  <2>3. CASE t = s /\ attach'[t].path = 0
    BY <2>3
  <2>4. CASE t = s /\ AttachTransport(s) /\ attach'[t].path = offer[s]
    <3>1. offer'[t] = 0
      BY <1>0, <2>4 DEF AttachTransport
    <3> QED BY <1>3, <2>4, <3>1
  <2>5. CASE t = s /\ attach'[t].path = attach[t].path
    BY <1>3, <1>6, <2>5
  <2> QED BY <1>0, <2>1, <2>2, <2>3, <2>4, <2>5 DEF NotAttaching
<1>8. \A t \in Sides, q \in Paths :
        \/ reader'[t][q] = reader[t][q]
        \/ offer[t] = 0 /\ q = path
  <2>1. UNCHANGED reader \/ AttachDone(s)
    BY DEF Write, SendChunk, Read, Close, AttachTransport, ReplayChunk, AttachDone, Expire, Drop
  <2>2. ASSUME AttachDone(s), NEW t \in Sides, NEW q \in Paths
        PROVE  reader'[t][q] = reader[t][q] \/ (offer[t] = 0 /\ q = path)
    <3>1. attach[s].path = path /\ offer[s] = 0
      BY <1>3, <2>2 DEF AttachDone
    <3>2. reader' = [reader EXCEPT ![s][path] = ReaderIdle]
      BY <2>2, <3>1 DEF AttachDone
    <3> QED BY <1>0, <3>1, <3>2
  <2> QED BY <2>1, <2>2
<1>9. \A t \in Sides : offer'[t] # 0 => reader'[t][path].pc = "off"
  BY <1>0, <1>3, <1>6, <1>8
<1>10. \A t \in Sides, q \in Paths : q > path => reader'[t][q].pc = "off" /\ wire'[q][t] = <<>>
  <2> TAKE t \in Sides, q \in Paths
  <2>1. q > path => q # path
    BY <1>0
  <2> QED BY <1>2, <1>3, <1>8, <2>1
<1>11. \A t \in Sides : offer'[t] \in {0, path}
  BY <1>3, <1>6
<1> QED BY <1>1, <1>4, <1>7, <1>9, <1>10, <1>11 DEF NewestPath

\* What Resume makes of a wire.
LEMMA ResumedWire ==
    ASSUME TypeOK, Resume, NEW s \in Sides
    PROVE  /\ path + 1 \in Paths /\ path' = path + 1
           /\ \E k, i, j \in Nat :
                /\ k <= i /\ i <= j /\ j <= Len(wire[path][s])
                /\ wire'[path][s] = SubSeq(wire[path][s], 1, k)
                /\ wire'[path + 1][s] = SubSeq(wire[path][s], i + 1, j)
           /\ \A p \in Paths : p # path /\ p # path + 1 => wire'[p][s] = wire[p][s]
<1>1. path \in Paths /\ path + 1 \in Paths /\ path' = path + 1 /\ path # path + 1
  BY SizeAssumption DEF Resume, TypeOK, Paths
<1> DEFINE Cuts == 0..Len(wire[path][Agent]) + Len(wire[path][Client])
<1>2. PICK k, i, j \in [Sides -> Cuts] :
        /\ \A t \in Sides : Carried(wire[path][t], k[t], i[t], j[t])
        /\ wire' = [wire EXCEPT
                     ![path] = [t \in Sides |-> TakeFirst(wire[path][t], k[t])],
                     ![path + 1] = [t \in Sides |-> SubSeq(wire[path][t], i[t] + 1, j[t])]]
  BY <1>1 DEF Resume
<1>3. Cuts \subseteq Nat
  <2>1. wire[path][Agent] \in Seq(Frame) /\ wire[path][Client] \in Seq(Frame)
    BY <1>1, ConstantTypes DEF TypeOK
  <2>2. ASSUME NEW q \in Seq(Frame), NEW r \in Seq(Frame) PROVE 0..Len(q) + Len(r) \subseteq Nat
    OBVIOUS
  <2> QED BY <2>1, <2>2
<1>4. k[s] \in Nat /\ i[s] \in Nat /\ j[s] \in Nat
  BY <1>2, <1>3
<1>5. k[s] <= i[s] /\ i[s] <= j[s] /\ j[s] <= Len(wire[path][s])
  BY <1>2 DEF Carried
<1>6. wire \in [Paths -> [Sides -> Seq(Frame)]]
  BY PathTypes
<1>7. /\ wire'[path][s] = SubSeq(wire[path][s], 1, k[s])
      /\ wire'[path + 1][s] = SubSeq(wire[path][s], i[s] + 1, j[s])
      /\ \A p \in Paths : p # path /\ p # path + 1 => wire'[p][s] = wire[p][s]
  <2> HIDE DEF Cuts
  <2> QED BY <1>1, <1>2, <1>6 DEF TakeFirst
<1> QED BY <1>1, <1>4, <1>5, <1>7

LEMMA NewestResume ==
    ASSUME TypeOK, NewestPath, Resume
    PROVE  NewestPath'
<1>1. path \in Nat /\ path + 1 \in Paths /\ path' = path + 1 /\ path + 1 # 0
  <2>1. path \in Nat
    BY PathTypes
  <2> QED BY <2>1, ConstantTypes, ResumedWire
<1>2. UNCHANGED <<ws, attach, reader>> /\ offer' = [s \in Sides |-> path + 1]
      /\ \A s \in Sides : ws[s] = 0 /\ attach[s].path = 0
  BY DEF Resume
<1> SUFFICES ASSUME NEW t \in Sides
             PROVE  /\ reader'[t][path + 1].pc = "off"
                    /\ \A q \in Paths : q > path + 1 => reader'[t][q].pc = "off" /\ wire'[q][t] = <<>>
  BY <1>1, <1>2 DEF NewestPath
<1>3. path + 1 > path
  BY <1>1
<1>4. \A q \in Paths : q > path + 1 => q > path /\ q # path /\ q # path + 1
  BY <1>1 DEF Paths
<1>5. \A q \in Paths : q > path => reader[t][q].pc = "off" /\ wire[q][t] = <<>>
  BY DEF NewestPath
<1> QED BY <1>1, <1>2, <1>3, <1>4, <1>5, ResumedWire

LEMMA NewestStep == TypeOK /\ NewestPath /\ [Next]_vars => NewestPath'
<1> SUFFICES ASSUME TypeOK, NewestPath, [Next]_vars PROVE NewestPath'
  OBVIOUS
<1>1. CASE LosePath \/ Barrier \/ UNCHANGED vars
  <2>1. UNCHANGED <<path, ws, offer, attach, reader, wire>>
    BY <1>1 DEF LosePath, Barrier, vars, netVars
  <2> QED BY <2>1 DEF NewestPath
<1>2. ASSUME NEW s \in Sides, Side(s) PROVE NewestPath'
  BY <1>2, NewestReader, NewestSide DEF Side
<1> QED BY <1>1, <1>2, NewestResume DEF Next

-----------------------------------------------------------------------------
(* Where the acknowledgements of the next state come from.                 *)

LEMMA PendingTypes ==
    ASSUME TypeOK, NEW s \in Sides, NEW p \in Paths, NEW i \in Nat, Pending(s, p, i)
    PROVE  HeldBy(s, p, i) \in Frame /\ HeldBy(s, p, i).off \in Nat
<1>1. Peer[s] \in Sides
  BY ConstantTypes
<1>2. reader[s][p] \in Reader /\ wire[p][Peer[s]] \in Seq(Frame)
  BY <1>1, PathTypes
<1>3. CASE i = 0
  BY <1>2, <1>3, FrameFields DEF HeldBy, Reader
<1>4. CASE i # 0
  <2>1. i \in 1..Len(wire[p][Peer[s]])
    BY <1>4 DEF Pending
  <2>2. wire[p][Peer[s]][i] \in Frame
    BY <1>2, <2>1
  <2> QED BY <1>4, <2>2, FrameFields DEF HeldBy
<1> QED BY <1>3, <1>4

\* No acknowledgement is on its way on a path that is still to come.
LEMMA PendingIsNow ==
    ASSUME TypeOK, NewestPath, NEW s \in Sides, NEW p \in Paths, NEW i \in Nat, Pending(s, p, i)
    PROVE  ~(p > path)
<1>1. SUFFICES ASSUME p > path PROVE FALSE
  OBVIOUS
<1>2. Peer[s] \in Sides
  BY ConstantTypes
<1>3. reader[s][p].pc = "off" /\ wire[p][Peer[s]] = <<>>
  BY <1>1, <1>2 DEF NewestPath
<1> QED BY <1>3 DEF Pending

\* Acknowledgements are about the past.
LEMMA PendingIsPast ==
    ASSUME SendInv, AckInv, NEW s \in Sides, NEW p \in Paths, NEW i \in Nat, Pending(s, p, i)
    PROVE  HeldBy(s, p, i).off <= recvOffset[Peer[s]]
<1>1. Peer[s] \in Sides
  BY ConstantTypes
<1>2. HeldBy(s, p, i).type = "ack"
  BY DEF Pending
<1>3. CASE i = 0
  BY <1>2, <1>3 DEF HeldBy, Pending, AckInv, PastAcks
<1>4. CASE i # 0
  <2>1. i \in 1..Len(wire[p][Peer[s]]) /\ wire[p][Peer[s]] \in Seq(PastAcks(Peer[s]))
    BY <1>1, <1>4 DEF Pending, AckInv
  <2>2. wire[p][Peer[s]][i] \in PastAcks(Peer[s])
    BY <2>1
  <2> QED BY <1>2, <1>4, <2>2 DEF HeldBy, PastAcks
<1> QED BY <1>3, <1>4

\* Nothing is written or taken from a wire, and no reader takes up a frame.
Quiet ==
    /\ wire' = wire
    /\ \A s \in Sides, p \in Paths : reader'[s][p].pc = "apply" => reader'[s][p] = reader[s][p]

LEMMA QuietPending ==
    ASSUME Quiet, NEW s \in Sides, NEW p \in Paths, NEW i \in Nat, Pending(s, p, i)'
    PROVE  Pending(s, p, i) /\ HeldBy(s, p, i)' = HeldBy(s, p, i)
<1>1. CASE i = 0
  BY <1>1 DEF Quiet, Pending, HeldBy
<1>2. CASE i # 0
  BY <1>2 DEF Quiet, Pending, HeldBy
<1> QED BY <1>1, <1>2

\* t writes f on the newest path.
Sends(t, f) ==
    /\ wire' = [wire EXCEPT ![path][t] = Append(@, f)]
    /\ \A s \in Sides, p \in Paths : reader'[s][p].pc = "apply" => reader'[s][p] = reader[s][p]

LEMMA SentPending ==
    ASSUME TypeOK, NEW t \in Sides, NEW f \in Frame, Sends(t, f),
           NEW s \in Sides, NEW p \in Paths, NEW i \in Nat, Pending(s, p, i)'
    PROVE  \/ Pending(s, p, i) /\ HeldBy(s, p, i)' = HeldBy(s, p, i)
           \/ /\ s = Peer[t] /\ p = path /\ i = Len(wire[path][t]) + 1
              /\ f.type = "ack" /\ HeldBy(s, p, i)' = f
<1>1. Peer[s] \in Sides /\ Peer[Peer[s]] = s
  BY ConstantTypes
<1>2. wire \in [Paths -> [Sides -> Seq(Frame)]] /\ path \in Paths
  BY PathTypes
<1>3. wire[p][Peer[s]] \in Seq(Frame)
  BY <1>1, <1>2
<1>4. CASE p = path /\ Peer[s] = t
  <2>1. wire'[p][Peer[s]] = Append(wire[p][Peer[s]], f)
    BY <1>1, <1>2, <1>4 DEF Sends
  <2>2. /\ Len(wire'[p][Peer[s]]) = Len(wire[p][Peer[s]]) + 1
        /\ \A j \in 1..Len(wire[p][Peer[s]]) : wire'[p][Peer[s]][j] = wire[p][Peer[s]][j]
        /\ wire'[p][Peer[s]][Len(wire[p][Peer[s]]) + 1] = f
        /\ Len(wire[p][Peer[s]]) \in Nat
    BY <1>3, <2>1
  <2>3. CASE i = 0
    BY <2>2, <2>3 DEF Sends, Pending, HeldBy
  <2>4. CASE i = Len(wire[p][Peer[s]]) + 1
    <3>1. i # 0
      BY <2>2, <2>4
    <3> QED BY <1>1, <1>4, <2>2, <2>4, <3>1 DEF Pending, HeldBy
  <2>5. CASE i \in 1..Len(wire[p][Peer[s]])
    <3>1. i # 0 /\ i \in 0..Len(wire[p][Peer[s]])
      BY <2>2, <2>5
    <3> QED BY <2>2, <2>5, <3>1 DEF Pending, HeldBy
  <2>6. i \in 0..(Len(wire[p][Peer[s]]) + 1)
    BY <2>2 DEF Pending
  <2> QED BY <2>2, <2>3, <2>4, <2>5, <2>6
<1>5. CASE ~(p = path /\ Peer[s] = t)
  <2>1. wire'[p][Peer[s]] = wire[p][Peer[s]]
    BY <1>1, <1>2, <1>5 DEF Sends
  <2>2. CASE i = 0
    BY <2>1, <2>2 DEF Sends, Pending, HeldBy
  <2>3. CASE i # 0
    BY <2>1, <2>3 DEF Pending, HeldBy
  <2> QED BY <2>2, <2>3
<1> QED BY <1>4, <1>5

\* A reader takes the first frame of its wire: those behind it move up.
LEMMA ReadPending ==
    ASSUME TypeOK, NEW t \in Sides, NEW q \in Paths, ReadFrame(t, q),
           NEW s \in Sides, NEW p \in Paths, NEW i \in Nat, Pending(s, p, i)'
    PROVE  IF s = t /\ p = q
           THEN Pending(s, p, i + 1) /\ HeldBy(s, p, i)' = HeldBy(s, p, i + 1)
           ELSE Pending(s, p, i) /\ HeldBy(s, p, i)' = HeldBy(s, p, i)
<1>1. /\ Peer[s] \in Sides /\ Peer[t] \in Sides
      /\ Peer[Peer[s]] = s /\ Peer[Peer[t]] = t
  BY ConstantTypes
<1>2. /\ wire \in [Paths -> [Sides -> Seq(Frame)]]
      /\ reader \in [Sides -> [Paths -> Reader]]
  BY PathTypes
<1>3. wire[q][Peer[t]] # <<>> /\ wire' = [wire EXCEPT ![q][Peer[t]] = Tail(wire[q][Peer[t]])]
      /\ reader' = [reader EXCEPT ![t][q] = [pc |-> "apply", frame |-> Head(wire[q][Peer[t]])]]
  BY DEF ReadFrame, SetReader
<1>4. CASE s = t /\ p = q
  <2>1. wire'[p][Peer[s]] = Tail(wire[p][Peer[s]]) /\ reader'[s][p].frame = Head(wire[p][Peer[s]])
    BY <1>1, <1>2, <1>3, <1>4
  <2>2. /\ wire[p][Peer[s]] \in Seq(Frame) /\ wire[p][Peer[s]] # <<>>
    BY <1>1, <1>2, <1>3, <1>4
  <2>3. /\ Len(Tail(wire[p][Peer[s]])) = Len(wire[p][Peer[s]]) - 1
        /\ \A j \in 1..Len(Tail(wire[p][Peer[s]])) :
             Tail(wire[p][Peer[s]])[j] = wire[p][Peer[s]][j + 1]
        /\ Head(wire[p][Peer[s]]) = wire[p][Peer[s]][1]
        /\ Len(wire[p][Peer[s]]) \in Nat
    BY <2>2
  <2>4. i \in 0..Len(Tail(wire[p][Peer[s]]))
    BY <2>1 DEF Pending
  <2>5. i + 1 \in 0..Len(wire[p][Peer[s]]) /\ i + 1 # 0
    BY <2>3, <2>4
  <2>6. HeldBy(s, p, i)' = wire[p][Peer[s]][i + 1]
    <3>1. CASE i = 0
      BY <2>1, <2>3, <3>1 DEF HeldBy
    <3>2. CASE i # 0
      <4>1. i \in 1..Len(Tail(wire[p][Peer[s]]))
        BY <2>3, <2>4, <3>2
      <4> QED BY <2>1, <2>3, <3>2, <4>1 DEF HeldBy
    <3> QED BY <3>1, <3>2
  <2>7. HeldBy(s, p, i + 1) = wire[p][Peer[s]][i + 1]
    BY <2>5 DEF HeldBy
  <2>8. HeldBy(s, p, i)'.type = "ack"
    BY DEF Pending
  <2> QED BY <1>4, <2>5, <2>6, <2>7, <2>8 DEF Pending
<1>5. CASE ~(s = t /\ p = q)
  <2>1. ~(p = q /\ Peer[s] = Peer[t])
    BY <1>1, <1>5
  <2>2. wire'[p][Peer[s]] = wire[p][Peer[s]] /\ reader'[s][p] = reader[s][p]
    BY <1>1, <1>2, <1>3, <1>5, <2>1
  <2>3. Pending(s, p, i) /\ HeldBy(s, p, i)' = HeldBy(s, p, i)
    BY <2>2 DEF Pending, HeldBy
  <2> QED BY <1>5, <2>3
<1> QED BY <1>4, <1>5

\* Resume: what is left on the old path stays in its place, what is carried
\* over to the new one was behind it.
LEMMA ResumedPending ==
    ASSUME TypeOK, NewestPath, Resume, NEW s \in Sides
    PROVE  \E k, m \in Nat :
             /\ k <= m
             /\ \A p \in Paths, i \in Nat : Pending(s, p, i)' =>
                  IF p = path + 1
                  THEN /\ i > 0 /\ Pending(s, path, m + i)
                       /\ HeldBy(s, p, i)' = HeldBy(s, path, m + i)
                  ELSE /\ Pending(s, p, i) /\ HeldBy(s, p, i)' = HeldBy(s, p, i)
                       /\ p = path => i <= k
<1> DEFINE t == Peer[s]
           w == wire[path][t]
<1>1. t \in Sides
  BY ConstantTypes
<1>2. PICK k, m, j \in Nat :
        /\ k <= m /\ m <= j /\ j <= Len(w)
        /\ wire'[path][t] = SubSeq(w, 1, k)
        /\ wire'[path + 1][t] = SubSeq(w, m + 1, j)
  BY <1>1, ResumedWire
<1>3. \A p \in Paths : p # path /\ p # path + 1 => wire'[p][t] = wire[p][t]
  BY <1>1, ResumedWire
<1>4. path \in Paths /\ path + 1 \in Paths /\ path \in Nat /\ w \in Seq(Frame) /\ reader' = reader
  <2>1. path \in Paths /\ path \in Nat /\ w \in Seq(Frame)
    BY <1>1, PathTypes
  <2>2. path + 1 \in Paths
    BY <1>1, ResumedWire
  <2> QED BY <2>1, <2>2 DEF Resume
<1>5. reader[s][path + 1].pc = "off"
  <2>1. path + 1 > path
    BY <1>4
  <2> QED BY <1>4, <2>1 DEF NewestPath
<1>6. /\ Len(SubSeq(w, 1, k)) = k
      /\ \A x \in 1..k : SubSeq(w, 1, k)[x] = w[x]
      /\ Len(SubSeq(w, m + 1, j)) = j - m
      /\ \A x \in 1..(j - m) : SubSeq(w, m + 1, j)[x] = w[m + x]
      /\ Len(w) \in Nat
  BY <1>2, <1>4
<1> HIDE DEF t, w
<1>7. ASSUME NEW p \in Paths, p = path + 1, NEW i \in Nat, Pending(s, p, i)'
      PROVE  /\ i > 0 /\ Pending(s, path, m + i)
             /\ HeldBy(s, p, i)' = HeldBy(s, path, m + i)
  <2>1. i # 0
    BY <1>4, <1>5, <1>7 DEF Pending
  <2>2. i \in 0..Len(SubSeq(w, m + 1, j))
    BY <1>2, <1>7 DEF Pending, t
  <2>3. i \in 1..(j - m) /\ m + i \in 0..Len(w) /\ m + i # 0
    BY <1>2, <1>6, <2>1, <2>2
  <2>4. HeldBy(s, p, i)' = w[m + i]
    BY <1>2, <1>6, <1>7, <2>1, <2>3 DEF HeldBy, t
  <2>5. HeldBy(s, path, m + i) = w[m + i]
    BY <2>3 DEF HeldBy, t, w
  <2>6. HeldBy(s, p, i)'.type = "ack"
    BY <1>7 DEF Pending
  <2>7. m + i \in 0..Len(wire[path][Peer[s]])
    BY <2>3 DEF t, w
  <2> QED BY <2>1, <2>3, <2>4, <2>5, <2>6, <2>7 DEF Pending
<1>8. ASSUME NEW p \in Paths, p = path, NEW i \in Nat, Pending(s, p, i)'
      PROVE  /\ Pending(s, p, i) /\ HeldBy(s, p, i)' = HeldBy(s, p, i) /\ i <= k
  <2>1. i \in 0..Len(SubSeq(w, 1, k))
    BY <1>2, <1>8 DEF Pending, t
  <2>2. i <= k /\ i \in 0..Len(w)
    BY <1>2, <1>6, <2>1
  <2>3. i \in 0..Len(wire[p][Peer[s]])
    BY <1>8, <2>2 DEF t, w
  <2>4. CASE i = 0
    BY <1>4, <1>8, <2>2, <2>3, <2>4 DEF Pending, HeldBy
  <2>5. CASE i # 0
    <3>1. i \in 1..k
      BY <2>2, <2>5
    <3>2. wire'[p][Peer[s]][i] = wire[p][Peer[s]][i]
      BY <1>2, <1>6, <1>8, <3>1 DEF t, w
    <3> QED BY <1>8, <2>2, <2>3, <2>5, <3>2 DEF Pending, HeldBy
  <2> QED BY <2>4, <2>5
<1>9. ASSUME NEW p \in Paths, NEW i \in Nat, p # path, p # path + 1, Pending(s, p, i)'
      PROVE  Pending(s, p, i) /\ HeldBy(s, p, i)' = HeldBy(s, p, i)
  <2>1. wire'[p][Peer[s]] = wire[p][Peer[s]] /\ reader'[s][p] = reader[s][p]
    BY <1>3, <1>4, <1>9 DEF t
  <2> QED BY <1>9, <2>1 DEF Pending, HeldBy
<1>10. \A p \in Paths, i \in Nat : Pending(s, p, i)' =>
         IF p = path + 1
         THEN /\ i > 0 /\ Pending(s, path, m + i)
              /\ HeldBy(s, p, i)' = HeldBy(s, path, m + i)
         ELSE /\ Pending(s, p, i) /\ HeldBy(s, p, i)' = HeldBy(s, p, i)
              /\ p = path => i <= k
  BY <1>7, <1>8, <1>9
<1> QED BY <1>2, <1>10

-----------------------------------------------------------------------------
(* The kinds of steps.                                                     *)

\* A reader takes up a frame in no other way than ReadFrame.
LEMMA ApplyStays ==
    ASSUME TypeOK, [Next]_vars, \A s \in Sides, p \in Paths : ~ReadFrame(s, p),
           NEW s \in Sides, NEW p \in Paths, reader'[s][p].pc = "apply"
    PROVE  reader'[s][p] = reader[s][p]
<1>1. reader \in [Sides -> [Paths -> Reader]]
  BY PathTypes
<1>2. ASSUME NEW t \in Sides, NEW q, NEW r, reader' = [reader EXCEPT ![t][q] = r], r.pc # "apply"
      PROVE  reader'[s][p] = reader[s][p]
  BY <1>1, <1>2
<1>3. ASSUME NEW t \in Sides, NEW q,
             \/ reader' = [reader EXCEPT ![t][q] = ReaderOff]
             \/ reader' = [reader EXCEPT ![t][q] = ReaderIdle]
             \/ \E pc, f : pc # "apply" /\ SetReader(t, q, pc, f)
      PROVE  reader'[s][p] = reader[s][p]
  <2>1. ReaderOff.pc # "apply" /\ ReaderIdle.pc # "apply"
    BY DEF ReaderOff, ReaderIdle
  <2>2. ASSUME NEW pc, NEW f, pc # "apply", SetReader(t, q, pc, f)
        PROVE  reader'[s][p] = reader[s][p]
    <3> DEFINE r == [pc |-> pc, frame |-> f]
    <3>1. r.pc # "apply" /\ reader' = [reader EXCEPT ![t][q] = r]
      BY <2>2 DEF SetReader
    <3> HIDE DEF r
    <3> QED BY <1>2, <3>1
  <2> QED BY <1>2, <1>3, <2>1, <2>2
<1>4. ASSUME NEW t \in Sides, AttachDone(t) PROVE reader'[s][p] = reader[s][p]
  BY <1>3, <1>4 DEF AttachDone
<1>5. ASSUME NEW t \in Sides, NEW q \in Paths, ReadTransport(t, q)
      PROVE  reader'[s][p] = reader[s][p]
  BY <1>3, <1>5
  DEF ReadTransport, ReadClose, ReadError, ApplyAck, ApplyData, Unpark, WriteAck, GiveUp, Accept
<1>6. CASE UNCHANGED reader
  BY <1>6
<1> QED BY <1>4, <1>5, <1>6, WhoReads

\* Acknowledgements are written as the first frame of a transport and as the
\* answer of a reader.
AcksFirst(t, f) ==
    /\ f.off = recvOffset[t] /\ reader[t][path].pc = "off" /\ UNCHANGED reader

AcksData(t, f) ==
    /\ f = reader[t][path].frame /\ reader[t][path].pc = "ack"
    /\ reader'[t][path].pc # "ack"

LEMMA WhatIsSent ==
    ASSUME SendInv, AckInv, NewestPath, NEW t \in Sides,
           \/ SendChunk(t) \/ Close(t) \/ ReplayChunk(t) \/ AttachTransport(t)
           \/ \E p \in Paths : WriteAck(t, p)
    PROVE  \/ UNCHANGED wire
           \/ \E f \in Frame :
                /\ wire' = [wire EXCEPT ![path][t] = Append(@, f)]
                /\ f.type # "ack" \/ AcksFirst(t, f) \/ AcksData(t, f)
<1>0. TypeOK
  BY DEF SendInv
<1>1. CASE SendChunk(t)
  <2>1. chunk[t] \in Frame /\ chunk[t].type = "data"
    BY <1>0 DEF AckInv, TypeOK
  <2> QED BY <1>1, <2>1, PutIsNewest DEF SendChunk, WriteSucceeds, WriteFails
<1>2. CASE Close(t)
  <2>1. CloseFrame \in Frame /\ CloseFrame.type # "ack"
    BY FrameTypes DEF CloseFrame
  <2> QED BY <1>2, <2>1, PutIsNewest DEF Close
<1>3. CASE ReplayChunk(t)
  <2> DEFINE n == Smaller(ChunkSize, Len(attach[t].data))
             f == DataFrame(attach[t].off, TakeFirst(attach[t].data, n))
  <2>1. f.type = "data"
    BY DEF DataFrame
  <2>2. f \in Frame
    <3>1. attach[t].off \in Nat /\ attach[t].data \in Seq(Nat)
      BY <1>0, PathTypes
    <3>2. n \in 0..Len(attach[t].data)
      BY <3>1, ConstantTypes DEF Smaller
    <3>3. TakeFirst(attach[t].data, n) \in Seq(Nat)
      BY <3>1, <3>2, SubSeqType DEF TakeFirst
    <3> HIDE DEF n
    <3> QED BY <3>1, <3>3, FrameTypes
  <2>3. UNCHANGED wire \/ wire' = Put(t, attach[t].path, f)
    BY <1>3 DEF ReplayChunk, WriteSucceeds, WriteFails
  <2> HIDE DEF f
  <2> QED BY <2>1, <2>2, <2>3, PutIsNewest
<1>4. CASE AttachTransport(t)
  <2> DEFINE f == AckFrame(recvOffset[t])
  <2>1. recvOffset[t] \in Nat
    BY <1>0 DEF TypeOK
  <2>2. f \in Frame /\ f.off = recvOffset[t]
    BY <2>1, FrameTypes DEF AckFrame
  <2>3. reader[t][path].pc = "off" /\ UNCHANGED reader
    BY <1>4 DEF AttachTransport, NewestPath
  <2>4. UNCHANGED wire \/ wire' = Put(t, offer[t], f)
    BY <1>4 DEF AttachTransport, AttachAck
  <2> HIDE DEF f
  <2> QED BY <2>2, <2>3, <2>4, PutIsNewest DEF AcksFirst
<1>5. ASSUME NEW p \in Paths, WriteAck(t, p)
      PROVE  \/ UNCHANGED wire
             \/ \E f \in Frame :
                  /\ wire' = [wire EXCEPT ![path][t] = Append(@, f)]
                  /\ AcksData(t, f)
  <2>1. \/ UNCHANGED wire
        \/ /\ wire' = Put(t, p, reader[t][p].frame) /\ reader[t][p].pc = "ack"
           /\ reader' = [reader EXCEPT ![t][p] = ReaderIdle]
    BY <1>5 DEF WriteAck, WriteSucceeds, WriteFails
  <2>2. reader[t][p].frame \in Frame
    BY HeldFrame
  <2>3. reader \in [Sides -> [Paths -> Reader]] /\ ReaderIdle.pc # "ack"
    BY <1>0, PathTypes DEF ReaderIdle
  <2>4. CASE p = path /\ wire' = [wire EXCEPT ![path][t] = Append(@, reader[t][p].frame)]
             /\ reader[t][p].pc = "ack" /\ reader' = [reader EXCEPT ![t][p] = ReaderIdle]
    <3>1. reader'[t][p].pc # "ack"
      BY <2>3, <2>4
    <3> QED BY <2>2, <2>4, <3>1 DEF AcksData
  <2> QED BY <2>1, <2>4, PutIsNewest
<1> QED BY <1>1, <1>2, <1>3, <1>4, <1>5

\* Every step is of one of four kinds.
LEMMA StepKinds ==
    ASSUME SendInv, AckInv, NewestPath, [Next]_vars
    PROVE  \/ Quiet
           \/ \E t \in Sides, f \in Frame :
                Sends(t, f) /\ (f.type # "ack" \/ AcksFirst(t, f) \/ AcksData(t, f))
           \/ \E t \in Sides, q \in Paths : ReadFrame(t, q)
           \/ Resume
<1>1. TypeOK
  BY DEF SendInv
<1>2. SUFFICES ASSUME \A t \in Sides, q \in Paths : ~ReadFrame(t, q)
               PROVE  \/ Quiet
                      \/ \E t \in Sides, f \in Frame :
                           Sends(t, f) /\ (f.type # "ack" \/ AcksFirst(t, f) \/ AcksData(t, f))
                      \/ Resume
  OBVIOUS
<1>3. \A s \in Sides, p \in Paths : reader'[s][p].pc = "apply" => reader'[s][p] = reader[s][p]
  BY <1>1, <1>2, ApplyStays
<1>4. CASE UNCHANGED wire
  BY <1>3, <1>4 DEF Quiet
<1>5. ASSUME NEW t \in Sides,
             SendChunk(t) \/ Close(t) \/ ReplayChunk(t) \/ AttachTransport(t)
               \/ \E p \in Paths : WriteAck(t, p)
      PROVE  \/ UNCHANGED wire
             \/ \E f \in Frame :
                  Sends(t, f) /\ (f.type # "ack" \/ AcksFirst(t, f) \/ AcksData(t, f))
  BY <1>3, <1>5, WhatIsSent DEF Sends
<1> QED BY <1>2, <1>4, <1>5, WhoWrites

-----------------------------------------------------------------------------
(* InOrder.                                                                *)

\* An acknowledgement that is written now is not behind any on its way.
LEMMA SentIsLast ==
    ASSUME SendInv, AckInv, NotBehind, NEW t \in Sides, NEW f \in Frame,
           AcksFirst(t, f) \/ AcksData(t, f),
           NEW s \in Sides, s = Peer[t], NEW p \in Paths, NEW i \in Nat, Pending(s, p, i)
    PROVE  HeldBy(s, p, i).off <= f.off
<1>1. Peer[s] = t /\ path \in Paths
  BY ConstantTypes, PathTypes DEF SendInv
<1>2. CASE AcksFirst(t, f)
  BY <1>1, <1>2, PendingIsPast DEF AcksFirst
<1>3. CASE AcksData(t, f)
  BY <1>1, <1>3 DEF AcksData, NotBehind
<1> QED BY <1>2, <1>3

LEMMA InOrderStep == SendInv /\ AckInv /\ OrderInv /\ [Next]_vars => InOrder'
<1> SUFFICES ASSUME SendInv, AckInv, OrderInv, [Next]_vars,
                    NEW s \in Sides, NEW p \in Paths, NEW q \in Paths, NEW i \in Nat, NEW j \in Nat,
                    Pending(s, p, i)', Pending(s, q, j)', Before(p, i, q, j)
             PROVE  HeldBy(s, p, i)'.off <= HeldBy(s, q, j)'.off
  BY DEF InOrder, Before
<1>1. TypeOK /\ NewestPath /\ InOrder /\ NotBehind
  BY DEF SendInv, OrderInv
<1>2. path \in Nat /\ p \in Nat /\ q \in Nat
  BY <1>1, PathTypes DEF Paths
<1>3. CASE Quiet
  <2>1. /\ Pending(s, p, i) /\ HeldBy(s, p, i)' = HeldBy(s, p, i)
        /\ Pending(s, q, j) /\ HeldBy(s, q, j)' = HeldBy(s, q, j)
    BY <1>3, QuietPending
  <2> QED BY <1>1, <2>1 DEF InOrder
<1>4. ASSUME NEW t \in Sides, NEW f \in Frame, Sends(t, f),
             f.type # "ack" \/ AcksFirst(t, f) \/ AcksData(t, f)
      PROVE  HeldBy(s, p, i)'.off <= HeldBy(s, q, j)'.off
  <2> DEFINE n == Len(wire[path][t]) + 1
             Old(r, k) == Pending(s, r, k) /\ HeldBy(s, r, k)' = HeldBy(s, r, k)
             New(r, k) == /\ s = Peer[t] /\ r = path /\ k = n
                          /\ f.type = "ack" /\ HeldBy(s, r, k)' = f
  <2>1. (Old(p, i) \/ New(p, i)) /\ (Old(q, j) \/ New(q, j))
    BY <1>1, <1>4, SentPending
  <2>2. CASE Old(p, i) /\ Old(q, j)
    BY <1>1, <2>2 DEF InOrder
  <2>3. CASE Old(p, i) /\ New(q, j)
    BY <1>1, <1>4, <2>3, SentIsLast
  <2>4. CASE New(p, i) /\ Old(q, j)
    <3>1. ~(q > path)
      BY <1>1, <2>4, PendingIsNow
    <3>2. Peer[s] = t /\ wire[path][t] \in Seq(Frame)
      BY <1>1, <2>4, ConstantTypes, PathTypes
    <3>3. q = path /\ i < j
      BY <1>2, <2>4, <3>1 DEF Before
    <3>4. j <= Len(wire[path][t])
      BY <2>4, <3>2, <3>3 DEF Pending
    <3>5. Len(wire[path][t]) \in Nat
      BY <3>2
    <3> QED BY <2>4, <3>3, <3>4, <3>5
  <2>5. CASE New(p, i) /\ New(q, j)
    <3>1. wire[path][t] \in Seq(Frame)
      BY <1>1, PathTypes
    <3>2. n \in Nat
      BY <3>1
    <3> QED BY <1>2, <2>5, <3>2 DEF Before
  <2> HIDE DEF Old, New
  <2> QED BY <2>1, <2>2, <2>3, <2>4, <2>5
<1>5. ASSUME NEW t \in Sides, NEW r \in Paths, ReadFrame(t, r)
      PROVE  HeldBy(s, p, i)'.off <= HeldBy(s, q, j)'.off
  <2> DEFINE Shift(x) == IF s = t /\ x = r THEN 1 ELSE 0
  <2>1. /\ Pending(s, p, i + Shift(p)) /\ HeldBy(s, p, i)' = HeldBy(s, p, i + Shift(p))
        /\ Pending(s, q, j + Shift(q)) /\ HeldBy(s, q, j)' = HeldBy(s, q, j + Shift(q))
    BY <1>1, <1>5, ReadPending
  <2>2. i + Shift(p) \in Nat /\ j + Shift(q) \in Nat /\ Before(p, i + Shift(p), q, j + Shift(q))
    BY <1>2 DEF Before
  <2> HIDE DEF Shift
  <2> QED BY <1>1, <2>1, <2>2 DEF InOrder
<1>6. CASE Resume
  <2>1. PICK k, m \in Nat :
          /\ k <= m
          /\ \A r \in Paths, x \in Nat : Pending(s, r, x)' =>
               IF r = path + 1
               THEN /\ x > 0 /\ Pending(s, path, m + x)
                    /\ HeldBy(s, r, x)' = HeldBy(s, path, m + x)
               ELSE /\ Pending(s, r, x) /\ HeldBy(s, r, x)' = HeldBy(s, r, x)
                    /\ r = path => x <= k
    BY <1>1, <1>6, ResumedPending
  <2>2. path \in Paths
    BY <1>1, PathTypes
  <2>3. CASE p # path + 1 /\ q # path + 1
    <3>1. /\ Pending(s, p, i) /\ HeldBy(s, p, i)' = HeldBy(s, p, i)
          /\ Pending(s, q, j) /\ HeldBy(s, q, j)' = HeldBy(s, q, j)
      BY <2>1, <2>3
    <3> QED BY <1>1, <3>1 DEF InOrder
  <2>4. CASE p = path + 1 /\ q = path + 1
    <3>1. /\ Pending(s, path, m + i) /\ HeldBy(s, p, i)' = HeldBy(s, path, m + i)
          /\ Pending(s, path, m + j) /\ HeldBy(s, q, j)' = HeldBy(s, path, m + j)
      BY <2>1, <2>4
    <3>2. m + i \in Nat /\ m + j \in Nat /\ Before(path, m + i, path, m + j)
      BY <1>2, <2>4 DEF Before
    <3> QED BY <1>1, <2>2, <3>1, <3>2 DEF InOrder
  <2>5. CASE p # path + 1 /\ q = path + 1
    <3>1. /\ Pending(s, p, i) /\ HeldBy(s, p, i)' = HeldBy(s, p, i) /\ (p = path => i <= k)
          /\ Pending(s, path, m + j) /\ HeldBy(s, q, j)' = HeldBy(s, path, m + j) /\ j > 0
      BY <2>1, <2>5
    <3>2. m + j \in Nat /\ Before(p, i, path, m + j)
      BY <1>2, <2>1, <2>5, <3>1 DEF Before
    <3> QED BY <1>1, <2>2, <3>1, <3>2 DEF InOrder
  <2>6. CASE p = path + 1 /\ q # path + 1
    <3>1. Pending(s, q, j) /\ q > path
      BY <1>2, <2>1, <2>6 DEF Before
    <3> QED BY <1>1, <3>1, PendingIsNow
  <2> QED BY <2>3, <2>4, <2>5, <2>6
<1> QED BY <1>1, <1>3, <1>4, <1>5, <1>6, StepKinds

-----------------------------------------------------------------------------
(* NotBehind.                                                              *)

AcksArePast ==
    \A s \in Sides, p \in Paths, i \in Nat :
      Pending(s, p, i) => HeldBy(s, p, i).off <= recvOffset[Peer[s]]

LEMMA AllPast == SendInv /\ AckInv => AcksArePast
BY PendingIsPast DEF AcksArePast

\* applyAck is the only one to move what has been acknowledged.
LEMMA BaseMoves ==
    ASSUME SendInv, [Next]_vars, NEW s \in Sides
    PROVE  \/ sendBase'[s] = sendBase[s]
           \/ /\ Quiet
              /\ \E q \in Paths : /\ Pending(s, q, 0) /\ reader'[s][q].pc # "apply"
                                  /\ sendBase'[s] = HeldBy(s, q, 0).off
<1> USE DEF netVars, sendVars, recvVars, endVars
<1>0. /\ sendBase \in [Sides -> Nat] /\ reader \in [Sides -> [Paths -> Reader]]
      /\ wire \in [Paths -> [Sides -> Seq(Frame)]]
  BY PathTypes DEF SendInv, TypeOK
<1>1. CASE LosePath \/ Barrier \/ Resume \/ UNCHANGED vars
  BY <1>1 DEF LosePath, Barrier, Resume, vars
<1>2. ASSUME NEW t \in Sides,
             \/ Write(t) \/ SendChunk(t) \/ Read(t) \/ Close(t) \/ AttachTransport(t)
             \/ ReplayChunk(t) \/ AttachDone(t) \/ Expire(t) \/ Drop(t)
      PROVE  UNCHANGED sendBase
  BY <1>2
  DEF Write, SendChunk, Read, Close, AttachTransport, ReplayChunk, AttachDone, Expire, Drop
<1>3. ASSUME NEW t \in Sides, NEW q \in Paths,
             \/ ReadFrame(t, q) \/ ReadClose(t, q) \/ ReadError(t, q)
             \/ ApplyData(t, q) \/ Unpark(t, q) \/ WriteAck(t, q)
      PROVE  UNCHANGED sendBase
  BY <1>3 DEF ReadFrame, ReadClose, ReadError, ApplyData, Unpark, WriteAck
<1>4. ASSUME NEW t \in Sides, NEW q \in Paths, ApplyAck(t, q), sendBase'[s] # sendBase[s]
      PROVE  /\ Quiet
             /\ Pending(s, q, 0) /\ reader'[s][q].pc # "apply"
             /\ sendBase'[s] = HeldBy(s, q, 0).off
  <2>1. t = s /\ sendBase'[s] = reader[s][q].frame.off
    BY <1>0, <1>4 DEF ApplyAck
  <2>2. reader[s][q].pc = "apply" /\ reader[s][q].frame.type = "ack" /\ wire' = wire
    BY <1>4, <2>1 DEF ApplyAck
  <2>3. /\ ReaderOff.pc # "apply" /\ ReaderIdle.pc # "apply"
        /\ \/ reader' = [reader EXCEPT ![s][q] = ReaderOff]
           \/ reader' = [reader EXCEPT ![s][q] = ReaderIdle]
    BY <1>4, <2>1 DEF ApplyAck, GiveUp, ReaderOff, ReaderIdle
  <2>4. reader'[s][q].pc # "apply"
        /\ \A u \in Sides, p \in Paths :
             reader'[u][p].pc = "apply" => reader'[u][p] = reader[u][p]
    <3>1. PICK r : reader' = [reader EXCEPT ![s][q] = r] /\ r.pc # "apply"
      BY <2>3
    <3>2. reader'[s][q] = r
      BY <1>0, <3>1
    <3>3. \A u \in Sides, p \in Paths : reader'[u][p] = r \/ reader'[u][p] = reader[u][p]
      BY <1>0, <3>1
    <3> QED BY <3>1, <3>2, <3>3
  <2>5. Len(wire[q][Peer[s]]) \in Nat
    <3>1. wire[q][Peer[s]] \in Seq(Frame)
      BY <1>0, ConstantTypes
    <3> QED BY <3>1
  <2>6. 0 \in 0..Len(wire[q][Peer[s]])
    BY <2>5
  <2> QED BY <2>1, <2>2, <2>4, <2>6 DEF Quiet, Pending, HeldBy
<1> QED BY <1>1, <1>2, <1>3, <1>4 DEF Next, Side, ReadTransport

\* An answer is about all that has been received by then.
LEMMA AnswerIsNew ==
    ASSUME SendInv, [Next]_vars, NEW s \in Sides, NEW p \in Paths, reader'[s][p].pc = "ack"
    PROVE  reader'[s][p] = reader[s][p] \/ reader'[s][p].frame.off = recvOffset'[s]
<1>1. reader \in [Sides -> [Paths -> Reader]] /\ recvOffset \in [Sides -> Nat]
  BY DEF SendInv, TypeOK
<1>2. ASSUME NEW t \in Sides, NEW q, NEW r, reader' = [reader EXCEPT ![t][q] = r],
             r.pc = "ack" => r.frame.off = recvOffset'[t]
      PROVE  reader'[s][p] = reader[s][p] \/ reader'[s][p].frame.off = recvOffset'[s]
  <2>1. reader'[s][p] = reader[s][p] \/ (t = s /\ reader'[s][p] = r)
    BY <1>1, <1>2
  <2> QED BY <1>2, <2>1
<1>3. ASSUME NEW t \in Sides, NEW q,
             \/ reader' = [reader EXCEPT ![t][q] = ReaderOff]
             \/ reader' = [reader EXCEPT ![t][q] = ReaderIdle]
             \/ \E pc, f : pc # "ack" /\ SetReader(t, q, pc, f)
             \/ SetReader(t, q, "ack", AckFrame(recvOffset'[t]))
      PROVE  reader'[s][p] = reader[s][p] \/ reader'[s][p].frame.off = recvOffset'[s]
  <2>1. ReaderOff.pc # "ack" /\ ReaderIdle.pc # "ack"
    BY DEF ReaderOff, ReaderIdle
  <2>2. ASSUME NEW pc, NEW f, SetReader(t, q, pc, f), pc = "ack" => f.off = recvOffset'[t]
        PROVE  reader'[s][p] = reader[s][p] \/ reader'[s][p].frame.off = recvOffset'[s]
    <3> DEFINE r == [pc |-> pc, frame |-> f]
    <3>1. reader' = [reader EXCEPT ![t][q] = r] /\ (r.pc = "ack" => r.frame.off = recvOffset'[t])
      BY <2>2 DEF SetReader
    <3> HIDE DEF r
    <3> QED BY <1>2, <3>1
  <2>3. AckFrame(recvOffset'[t]).off = recvOffset'[t]
    BY DEF AckFrame
  <2>4. ASSUME \/ reader' = [reader EXCEPT ![t][q] = ReaderOff]
               \/ reader' = [reader EXCEPT ![t][q] = ReaderIdle]
        PROVE  reader'[s][p] = reader[s][p] \/ reader'[s][p].frame.off = recvOffset'[s]
    BY <1>2, <2>1, <2>4
  <2> QED BY <1>3, <2>2, <2>3, <2>4
<1>4. ASSUME NEW t \in Sides, NEW q, NEW data, Accept(t, q, data)
      PROVE  SetReader(t, q, "ack", AckFrame(recvOffset'[t]))
  BY <1>1, <1>4 DEF Accept
<1>5. ASSUME NEW t \in Sides, AttachDone(t)
      PROVE  \E q : reader' = [reader EXCEPT ![t][q] = ReaderIdle]
  BY <1>5 DEF AttachDone
<1>6. ASSUME NEW t \in Sides, NEW q \in Paths, ReadTransport(t, q)
      PROVE  \/ reader' = [reader EXCEPT ![t][q] = ReaderOff]
             \/ reader' = [reader EXCEPT ![t][q] = ReaderIdle]
             \/ \E pc, f : pc # "ack" /\ SetReader(t, q, pc, f)
             \/ SetReader(t, q, "ack", AckFrame(recvOffset'[t]))
  <2>1. CASE ApplyData(t, q)
    BY <1>4, <2>1 DEF ApplyData, GiveUp
  <2>2. CASE Unpark(t, q)
    BY <1>4, <2>2 DEF Unpark, GiveUp
  <2>3. CASE ReadFrame(t, q) \/ ReadClose(t, q) \/ ReadError(t, q) \/ ApplyAck(t, q) \/ WriteAck(t, q)
    BY <2>3 DEF ReadFrame, ReadClose, ReadError, ApplyAck, WriteAck, GiveUp
  <2> QED BY <1>6, <2>1, <2>2, <2>3 DEF ReadTransport
<1>7. CASE UNCHANGED reader
  BY <1>7
<1> QED BY <1>3, <1>5, <1>6, <1>7, WhoReads

LEMMA PathStays == ASSUME [Next]_vars PROVE Resume \/ path' = path
<1> USE DEF netVars
<1>1. CASE LosePath \/ Barrier \/ UNCHANGED vars
  BY <1>1 DEF LosePath, Barrier, vars
<1>2. ASSUME NEW t \in Sides,
             \/ Write(t) \/ SendChunk(t) \/ Read(t) \/ Close(t) \/ AttachTransport(t)
             \/ ReplayChunk(t) \/ AttachDone(t) \/ Expire(t) \/ Drop(t)
      PROVE  path' = path
  BY <1>2
  DEF Write, SendChunk, Read, Close, AttachTransport, ReplayChunk, AttachDone, Expire, Drop
<1>3. ASSUME NEW t \in Sides, NEW q \in Paths, ReadTransport(t, q) PROVE path' = path
  BY <1>3
  DEF ReadTransport, ReadFrame, ReadClose, ReadError, ApplyAck, ApplyData, Unpark, WriteAck
<1> QED BY <1>1, <1>2, <1>3 DEF Next, Side

\* Without Resume, what is on its way was so before, or has just been written.
LEMMA PendingBefore ==
    ASSUME SendInv, AckInv, NewestPath, [Next]_vars, ~Resume,
           NEW s \in Sides, NEW p \in Paths, NEW i \in Nat, Pending(s, p, i)'
    PROVE  \/ \E j \in Nat : Pending(s, p, j) /\ HeldBy(s, p, i)' = HeldBy(s, p, j)
           \/ \E f \in Frame :
                /\ p = path /\ HeldBy(s, p, i)' = f
                /\ AcksFirst(Peer[s], f) \/ AcksData(Peer[s], f)
<1>1. TypeOK
  BY DEF SendInv
<1>2. CASE Quiet
  BY <1>2, QuietPending
<1>3. ASSUME NEW t \in Sides, NEW f \in Frame, Sends(t, f),
             f.type # "ack" \/ AcksFirst(t, f) \/ AcksData(t, f)
      PROVE  \/ Pending(s, p, i) /\ HeldBy(s, p, i)' = HeldBy(s, p, i)
             \/ /\ p = path /\ HeldBy(s, p, i)' = f
                /\ AcksFirst(Peer[s], f) \/ AcksData(Peer[s], f)
  <2>1. Peer[Peer[t]] = t
    BY ConstantTypes
  <2> QED BY <1>1, <1>3, <2>1, SentPending
<1>4. ASSUME NEW t \in Sides, NEW q \in Paths, ReadFrame(t, q)
      PROVE  \E j \in Nat : Pending(s, p, j) /\ HeldBy(s, p, i)' = HeldBy(s, p, j)
  <2>1. i + 1 \in Nat
    OBVIOUS
  <2> QED BY <1>1, <1>4, <2>1, ReadPending
<1> QED BY <1>2, <1>3, <1>4, StepKinds

LEMMA NotBehindStep ==
    SendInv /\ AckInv /\ OrderInv /\ [Next]_vars /\ AckInv' /\ AcksArePast' => NotBehind'
<1> SUFFICES ASSUME SendInv, AckInv, OrderInv, [Next]_vars, AckInv', AcksArePast',
                    NEW s \in Sides, NEW p \in Paths, p = path'
             PROVE  /\ \A i \in Nat : Pending(s, p, i)' => sendBase'[s] <= HeldBy(s, p, i)'.off
                    /\ reader'[Peer[s]][p].pc = "ack" =>
                         /\ sendBase'[s] <= reader'[Peer[s]][p].frame.off
                         /\ \A q \in Paths, i \in Nat : Pending(s, q, i)' =>
                              HeldBy(s, q, i)'.off <= reader'[Peer[s]][p].frame.off
  BY DEF NotBehind
<1>1. TypeOK /\ NewestPath /\ InOrder /\ NotBehind
  BY DEF SendInv, OrderInv
<1>2. Peer[s] \in Sides /\ path \in Paths /\ path \in Nat
  BY <1>1, ConstantTypes, PathTypes
<1>3. \A q \in Paths, i \in Nat : Pending(s, q, i)' => HeldBy(s, q, i)'.off <= recvOffset'[Peer[s]]
  BY DEF AcksArePast
<1>4. CASE Resume
  <2>1. /\ p = path + 1 /\ UNCHANGED <<reader, sendBase>> /\ p > path
    BY <1>2, <1>4 DEF Resume, sendVars
  <2>2. reader[Peer[s]][p].pc = "off"
    BY <1>1, <1>2, <2>1 DEF NewestPath
  <2>3. ASSUME NEW i \in Nat, Pending(s, p, i)' PROVE sendBase'[s] <= HeldBy(s, p, i)'.off
    <3>1. PICK m \in Nat : /\ Pending(s, path, m + i)
                           /\ HeldBy(s, p, i)' = HeldBy(s, path, m + i)
      BY <1>1, <1>4, <2>1, <2>3, ResumedPending
    <3>2. m + i \in Nat
      OBVIOUS
    <3> QED BY <1>1, <1>2, <2>1, <3>1, <3>2 DEF NotBehind
  <2> QED BY <2>1, <2>2, <2>3
<1>5. CASE ~Resume
  <2>1. p = path
    BY <1>5, PathStays
  <2>2. sendBase[s] <= recvOffset[Peer[s]] /\ sendBase'[s] <= recvOffset'[Peer[s]]
    BY <1>2 DEF AckInv
  <2>3. ASSUME NEW i \in Nat, Pending(s, p, i)' PROVE sendBase'[s] <= HeldBy(s, p, i)'.off
    <3>1. CASE sendBase'[s] = sendBase[s]
      <4>1. ASSUME NEW j \in Nat, Pending(s, p, j), HeldBy(s, p, i)' = HeldBy(s, p, j)
            PROVE  sendBase'[s] <= HeldBy(s, p, i)'.off
        BY <1>1, <2>1, <3>1, <4>1 DEF NotBehind
      <4>2. ASSUME NEW f, HeldBy(s, p, i)' = f, AcksFirst(Peer[s], f)
            PROVE  sendBase'[s] <= HeldBy(s, p, i)'.off
        BY <2>2, <3>1, <4>2 DEF AcksFirst
      <4>3. ASSUME NEW f, HeldBy(s, p, i)' = f, AcksData(Peer[s], f)
            PROVE  sendBase'[s] <= HeldBy(s, p, i)'.off
        BY <1>1, <2>1, <3>1, <4>3 DEF AcksData, NotBehind
      <4> QED BY <1>1, <1>5, <2>3, <4>1, <4>2, <4>3, PendingBefore
    <3>2. ASSUME Quiet, NEW q \in Paths, Pending(s, q, 0), reader'[s][q].pc # "apply",
                 sendBase'[s] = HeldBy(s, q, 0).off
          PROVE  sendBase'[s] <= HeldBy(s, p, i)'.off
      <4>1. Pending(s, p, i) /\ HeldBy(s, p, i)' = HeldBy(s, p, i)
        BY <2>3, <3>2, QuietPending
      <4>2. ~(q > path)
        BY <1>1, <3>2, PendingIsNow
      <4>3. ~(q = path /\ i = 0)
        BY <2>1, <2>3, <3>2 DEF Pending
      <4>4. Before(q, 0, p, i)
        BY <1>2, <2>1, <4>2, <4>3 DEF Before, Paths
      <4> QED BY <1>1, <3>2, <4>1, <4>4 DEF InOrder
    <3> QED BY <3>1, <3>2, BaseMoves
  <2>4. ASSUME reader'[Peer[s]][p].pc = "ack"
        PROVE  /\ sendBase'[s] <= reader'[Peer[s]][p].frame.off
               /\ \A q \in Paths, i \in Nat : Pending(s, q, i)' =>
                    HeldBy(s, q, i)'.off <= reader'[Peer[s]][p].frame.off
    <3>1. CASE reader'[Peer[s]][p].frame.off = recvOffset'[Peer[s]]
      BY <1>3, <2>2, <3>1
    <3>2. CASE reader'[Peer[s]][p] = reader[Peer[s]][p]
      <4>1. /\ sendBase[s] <= reader[Peer[s]][p].frame.off
            /\ \A q \in Paths, i \in Nat : Pending(s, q, i) =>
                 HeldBy(s, q, i).off <= reader[Peer[s]][p].frame.off
        BY <1>1, <2>1, <2>4, <3>2 DEF NotBehind
      <4>2. sendBase'[s] <= reader[Peer[s]][p].frame.off
        BY <4>1, BaseMoves
      <4>3. \A f : ~AcksFirst(Peer[s], f) /\ ~AcksData(Peer[s], f)
        BY <2>1, <2>4, <3>2 DEF AcksFirst, AcksData
      <4>4. ASSUME NEW q \in Paths, NEW i \in Nat, Pending(s, q, i)'
            PROVE  HeldBy(s, q, i)'.off <= reader[Peer[s]][p].frame.off
        BY <1>1, <1>5, <4>1, <4>3, <4>4, PendingBefore
      <4> QED BY <3>2, <4>2, <4>4
    <3> QED BY <1>2, <2>4, <3>1, <3>2, AnswerIsNew
  <2> QED BY <2>3, <2>4
<1> QED BY <1>4, <1>5

LEMMA OrderInvStep ==
    SendInv /\ AckInv /\ OrderInv /\ [Next]_vars /\ AckInv' /\ AcksArePast' => OrderInv'
BY NewestStep, InOrderStep, NotBehindStep DEF OrderInv, SendInv

LEMMA OrderInvHolds == Spec => [](SendInv /\ AckInv /\ OrderInv)
BY InitSendInv, InitAckInv, InitOrderInv, SendInvStep, AckInvStep, OrderInvStep, AllPast, PTL DEF Spec

-----------------------------------------------------------------------------
(* What applyAck is handed.                                                *)

LEMMA AckIsAccepted == SendInv /\ AckInv /\ OrderInv /\ DeliveryInv => AckNeverRefused
<1> SUFFICES ASSUME SendInv, AckInv, OrderInv, DeliveryInv,
                    NEW s \in Sides, NEW p \in Paths,
                    ws[s] = p, reader[s][p].pc = "apply", reader[s][p].frame.type = "ack"
             PROVE  /\ sendBase[s] <= reader[s][p].frame.off
                    /\ reader[s][p].frame.off <= sendEnd[s]
  BY DEF AckNeverRefused
<1>1. TypeOK /\ NewestPath /\ NotBehind
  BY DEF SendInv, OrderInv
<1>2. Peer[s] \in Sides /\ Peer[Peer[s]] = s
  BY ConstantTypes
<1>3. p = path
  BY <1>1, SizeAssumption DEF NewestPath, Paths
<1>4. Pending(s, p, 0) /\ HeldBy(s, p, 0) = reader[s][p].frame
  <2>1. wire[p][Peer[s]] \in Seq(Frame)
    BY <1>1, <1>2, PathTypes
  <2>2. 0 \in 0..Len(wire[p][Peer[s]])
    BY <2>1
  <2> QED BY <2>2 DEF Pending, HeldBy
<1>5. sendBase[s] <= reader[s][p].frame.off
  BY <1>1, <1>3, <1>4 DEF NotBehind
<1>6. reader[s][p].frame.off <= recvOffset[Peer[s]] /\ recvOffset[Peer[s]] <= sendEnd[s]
  BY <1>2, <1>4, PendingIsPast DEF DeliveryInv
<1>7. recvOffset[Peer[s]] \in Nat /\ sendEnd[s] \in Nat /\ reader[s][p].frame.off \in Nat
  BY <1>1, <1>2, HeldFrame DEF TypeOK
<1> QED BY <1>5, <1>6, <1>7

\* In every behaviour in which no reader ever waits in applyData for room,
\* applyAck refuses no acknowledgement of a current transport: none is behind
\* what has been acknowledged, whatever pumps carried over and old readers
\* answered late, and none is ahead of what has been written.
THEOREM AcksAcceptedUnlessFull == Spec /\ []NobodyWaits => []AckNeverRefused
<1>1. Spec /\ []NobodyWaits => []DeliveryInv
  BY SendInvHolds, InitDeliveryInv, DeliveryInvStep, PTL DEF Spec
<1> QED BY <1>1, OrderInvHolds, AckIsAccepted, PTL

\* So it is in every session that writes no more than a receive buffer holds.
THEOREM SmallStreamsAcksAccepted ==
    ASSUME RecvCap >= AgentBytes, RecvCap >= ClientBytes
    PROVE  Spec => []AckNeverRefused
<1>1. Init => NobodyWaits
  BY DEF Init, NobodyWaits, ReaderOff
<1>2. SendInv /\ DeliveryInv /\ NobodyWaits /\ [Next]_vars => NobodyWaits'
  BY NobodyWaitsStep
<1>3. Spec => [](SendInv /\ DeliveryInv)
  BY <1>1, <1>2, SendInvHolds, InitDeliveryInv, DeliveryInvStep, PTL DEF Spec
<1> QED BY <1>3, OrderInvHolds, AckIsAccepted, PTL
============================================================================
