------------------------ MODULE HTTPStreamProofs ------------------------
(***************************************************************************)
(* Theorems about HTTPStream: what its requests carry is what was written, *)
(* for every limit and every plan, so that the two users see a message     *)
(* channel until the relay has lost the stream.                            *)
(***************************************************************************)
EXTENDS HTTPStream, FiniteSetTheorems, WellFoundedInduction, TLAPS

\* The types, with what they rest on: held records are finitely many, a stray
\* download has been lost, and an answer that is being read has a record left.
Shape ==
    /\ TypeOK
    /\ \A e \in Ends : IsFiniteSet(recvAhead[e])
    /\ stray <= losses
    /\ \A i \in Downloads : Fetched(i) => download[i].todo # <<>>

\* A record that e has sent: one of its messages, or an acknowledgement of no
\* more than it has received.
SoundFrom(e) ==
    {r \in RecordType :
       \/ r.kind = "ack" /\ r.seq < recvNext[e]
       \/ r.kind # "ack" /\ r.seq \in 1..(nextSend[e] - 1) /\ r = Record(e, r.seq)}
MessagesFrom(e) == {r \in SoundFrom(e) : r.kind # "ack"}

\* Wherever a record is, it is sound.
CarriedSound ==
    /\ \A k \in Uploads : upload[k].todo \in Seq(SoundFrom(Client))
    /\ \A i \in Downloads : download[i].todo \in Seq(SoundFrom(Relay))
    /\ \A e \in Ends : recvAhead[e] \subseteq MessagesFrom(Peer[e])

\* What has been received is what was sent, up to recvNext.
ReceivedSound ==
    \A e \in Ends : /\ recvNext[e] <= nextSend[Peer[e]]
                    /\ got[e] = Records(Peer[e], 1, recvNext[e] - 1)
                    /\ taken[e] < recvNext[e] /\ sendBase[e] <= recvNext[Peer[e]]

\* The close record is the last one.
CloseIsLast ==
    \A e \in Ends : IF closeSeq[e] = 0 THEN nextSend[e] <= plan.write[e] + 1
                    ELSE nextSend[e] = closeSeq[e] + 1 /\ closeSeq[e] <= plan.write[e] + 1

\* Before it is accepted the stream has no relay's end.
Pristine ==
    life = 0 => /\ ~present /\ nextSend[Relay] = 1 /\ closeSeq[Relay] = 0 /\ ~closed[Relay]
                /\ recvNext[Relay] = 1 /\ got[Relay] = <<>> /\ taken[Relay] = 0

FirstLife == CarriedSound /\ ReceivedSound /\ CloseIsLast /\ Pristine
ChannelInv == Shape /\ (life <= 1 => FirstLife)

-----------------------------------------------------------------------------
(* Constants, numbers and sequences.                                       *)

LEMMA ConstantTypes ==
    /\ Client \in Ends /\ Relay \in Ends /\ Client # Relay
    /\ Peer \in [Ends -> Ends] /\ \A e \in Ends : Peer[e] # e /\ Peer[Peer[e]] = e
    /\ \A e \in Ends : e = Client \/ e = Relay
    /\ ReorderLimit \in Nat /\ MaxMessages \in Nat /\ MaxLoss \in Nat /\ MaxLives \in Nat
    /\ MaxLives > 0 /\ UploadPipeline \in Nat /\ UploadPipeline > 0
BY EndsAssumption, LimitsAssumption DEF Ends, Peer

LEMMA PlanTypes ==
    ASSUME Shape
    PROVE  /\ plan.write \in [Ends -> 0..(MaxMessages - 1)] /\ plan.loss \in 0..MaxLoss
           /\ plan.lives \in 1..MaxLives /\ plan.restart \in Nat
<1>1. plan \in PlanType
  BY PlansAssumption DEF Shape, TypeOK
<1> QED BY <1>1 DEF PlanType

\* A set of numbers has a least one.
LEMMA LeastNumber ==
    ASSUME NEW S \in SUBSET Nat, S # {}
    PROVE  Least(S) \in S /\ \A k \in S : Least(S) <= k
<1> DEFINE R == OpToRel(<, Nat)
<1>1. IsWellFoundedOn(R, Nat)
  BY NatLessThanWellFounded
<1>2. \A x, y \in Nat : <<x, y>> \in R <=> x < y
  BY DEF OpToRel
<1> HIDE DEF R
<1>3. PICK n \in S : \A k \in S : <<k, n>> \notin R
  BY <1>1, WFMin
<1>4. S \subseteq Nat
  OBVIOUS
<1>5. ASSUME NEW k \in S PROVE n <= k
  <2>1. n \in Nat /\ k \in Nat /\ ~(k < n)
    BY <1>2, <1>3, <1>4
  <2> QED BY <2>1
<1>6. \E m \in S : \A k \in S : m <= k
  BY <1>5
<1> QED BY <1>6 DEF Least

\* Sequences over a set under what is done with records.
LEMMA SeqOps ==
    ASSUME NEW S, NEW q \in Seq(S)
    PROVE  /\ <<>> \in Seq(S) /\ Len(q) \in Nat /\ \A i \in 1..Len(q) : q[i] \in S
           /\ q # <<>> => Head(q) \in S /\ Tail(q) \in Seq(S)
           /\ Len(q) = 1 => q # <<>>
           /\ Len(q) # 1 /\ q # <<>> => Tail(q) # <<>>
<1>1. <<>> \in Seq(S) /\ Len(q) \in Nat /\ \A i \in 1..Len(q) : q[i] \in S
  OBVIOUS
<1>2. q # <<>> => Head(q) \in S /\ Tail(q) \in Seq(S)
  OBVIOUS
<1>3. Len(q) = 1 => q # <<>>
  OBVIOUS
<1>4. Len(q) # 1 /\ q # <<>> => Tail(q) # <<>>
  <2>1. q # <<>> => Len(Tail(q)) = Len(q) - 1 /\ Len(q) # 0
    OBVIOUS
  <2>2. q # <<>> /\ Len(q) # 1 => Len(Tail(q)) # 0
    BY <1>1, <2>1
  <2>3. Len(<<>>) = 0
    OBVIOUS
  <2>4. Tail(q) = <<>> => Len(Tail(q)) = Len(<<>>)
    OBVIOUS
  <2> QED BY <2>2, <2>3, <2>4
<1> QED BY <1>1, <1>2, <1>3, <1>4

LEMMA SeqMono == ASSUME NEW S, NEW T, S \subseteq T, NEW q \in Seq(S) PROVE q \in Seq(T)
OBVIOUS

\* Records lo..hi, as a sequence.
LEMMA RecordsAre ==
    ASSUME NEW e, NEW S, NEW lo \in Nat, NEW hi \in Nat, \A s \in lo..hi : Record(e, s) \in S
    PROVE  /\ Records(e, lo, hi) \in Seq(S)
           /\ hi + 1 >= lo => /\ Len(Records(e, lo, hi)) = (hi + 1) - lo
                              /\ \A i \in 1..((hi + 1) - lo) :
                                   Records(e, lo, hi)[i] = Record(e, (lo - 1) + i)
<1> DEFINE n == (hi + 1) - lo
           q == [i \in 1..n |-> Record(e, (lo - 1) + i)]
<1>1. Records(e, lo, hi) = q
  BY DEF Records
<1>2. \A i \in 1..n : Record(e, (lo - 1) + i) \in S
  <2> TAKE i \in 1..n
  <2>1. (lo - 1) + i \in lo..hi
    OBVIOUS
  <2> QED BY <2>1
<1>3. CASE n \in Nat
  <2>1. q \in [1..n -> S]
    BY <1>2
  <2>2. q \in Seq(S) /\ Len(q) = n
    BY <1>3, <2>1
  <2> QED BY <1>1, <2>2
<1>4. CASE n \notin Nat
  <2>1. 1..n = 1..0 /\ ~(hi + 1 >= lo)
    BY <1>4
  <2>2. q \in [1..0 -> S]
    BY <1>2, <2>1
  <2>3. q \in Seq(S)
    BY <2>2
  <2> QED BY <1>1, <2>1, <2>3
<1> QED BY <1>3, <1>4

\* The first n records of e.
LEMMA FirstRecords ==
    ASSUME NEW e, NEW n \in Nat, life \in Nat
    PROVE  /\ Records(e, 1, n) \in Seq(RecordType) /\ Len(Records(e, 1, n)) = n
           /\ \A i \in 1..n : Records(e, 1, n)[i] = Record(e, i)
<1> DEFINE q == [i \in 1..n |-> Record(e, i)]
<1>1. \A i \in 1..n : Record(e, i) \in RecordType
  BY DEF Record, RecordType, Kinds
<1>2. Records(e, 1, n) = q
  <2>1. (n + 1) - 1 = n /\ \A i \in 1..n : (1 - 1) + i = i
    OBVIOUS
  <2> QED BY <2>1 DEF Records
<1>3. q \in [1..n -> RecordType]
  BY <1>1
<1>4. q \in Seq(RecordType) /\ Len(q) = n
  BY <1>3
<1> QED BY <1>2, <1>4

LEMMA NoRecords == ASSUME NEW e PROVE Records(e, 1, 0) = <<>>
BY DEF Records

LEMMA BatchIs ==
    ASSUME NEW e, NEW S, NEW lo \in Nat, NEW hi \in Nat, \A s \in lo..hi : Record(e, s) \in S,
           NEW a, AckRecord(a) \in S
    PROVE  Batch(e, a, lo, hi) \in Seq(S) /\ Batch(e, a, lo, hi) # <<>>
<1>1. Records(e, lo, hi) \in Seq(S)
  BY RecordsAre
<1> HIDE DEF Records
<1>2. \A q \in Seq(S) : <<AckRecord(a)>> \o q \in Seq(S) /\ <<AckRecord(a)>> \o q # <<>>
  OBVIOUS
<1> QED BY <1>1, <1>2 DEF Batch

LEMMA RecordTypes ==
    /\ \A a \in Nat : AckRecord(a) \in RecordType /\ AckRecord(a).kind = "ack" /\ AckRecord(a).seq = a
    /\ life \in Nat => \A e, s : s \in Nat => Record(e, s) \in RecordType
    /\ \A e, s : Record(e, s).kind # "ack" /\ Record(e, s).seq = s
    /\ \A r \in RecordType : r.seq \in Nat
BY DEF AckRecord, Record, RecordType, Kinds

-----------------------------------------------------------------------------
(* Receiving.                                                              *)

\* Among one more numbers than there are records one is not that of a record.
LEMMA OneIsMissing ==
    ASSUME NEW H \in SUBSET RecordType, IsFiniteSet(H), NEW a \in Nat
    PROVE  \E n \in a..(a + Cardinality(H)) : \A h \in H : h.seq # n
<1> DEFINE c == Cardinality(H)
           S == a..(a + c)
<1>1. c \in Nat
  BY FS_CardinalityType
<1>2. IsFiniteSet(S) /\ Cardinality(S) = c + 1
  <2>1. a \in Int /\ a + c \in Int /\ ~(a > a + c) /\ (a + c) - a + 1 = c + 1
    BY <1>1
  <2> HIDE DEF c
  <2> QED BY <2>1, FS_Interval
<1>3. SUFFICES ASSUME \A n \in S : \E h \in H : h.seq = n PROVE FALSE
  OBVIOUS
<1> DEFINE f == [n \in S |-> CHOOSE h \in H : h.seq = n]
<1>4. f \in [S -> H] /\ \A n \in S : f[n].seq = n
  BY <1>3
<1>5. Cardinality(H) < Cardinality(S)
  BY <1>1, <1>2
<1> HIDE DEF f, S
<1>6. \E x, y \in S : x # y /\ f[x] = f[y]
  BY <1>2, <1>4, <1>5, FS_PigeonHole
<1> QED BY <1>4, <1>6

\* The records that an arriving one puts in order have its number and those
\* that follow it.
LEMMA SequelIs ==
    ASSUME NEW e, recvAhead[e] \subseteq RecordType, IsFiniteSet(recvAhead[e]),
           NEW r \in RecordType
    PROVE  /\ Sequel(e, r) \in Seq(recvAhead[e] \cup {r})
           /\ \A i \in 1..Len(Sequel(e, r)) : Sequel(e, r)[i].seq = (r.seq - 1) + i
<1> DEFINE H == recvAhead[e] \cup {r}
           S == {n \in r.seq..(r.seq + Cardinality(H)) : \A h \in H : h.seq # n}
           end == Least(S)
<1>1. H \in SUBSET RecordType /\ IsFiniteSet(H) /\ r.seq \in Nat
  BY FS_AddElement, RecordTypes
<1>2. Cardinality(H) \in Nat
  BY <1>1, FS_CardinalityType
<1>3. S # {}
  BY <1>1, OneIsMissing
<1>4. S \in SUBSET Nat
  BY <1>1, <1>2
<1>5. end \in S /\ \A k \in S : end <= k
  BY <1>3, <1>4, LeastNumber
<1>6. end \in r.seq..(r.seq + Cardinality(H))
  BY <1>5
<1>7. end - r.seq \in Nat
  BY <1>1, <1>2, <1>6
<1>8. Sequel(e, r) = [i \in 1..(end - r.seq) |-> CHOOSE h \in H : h.seq = (r.seq - 1) + i]
  BY DEF Sequel
<1>9. \A i \in 1..(end - r.seq) : \E h \in H : h.seq = (r.seq - 1) + i
  <2> TAKE i \in 1..(end - r.seq)
  <2> DEFINE n == (r.seq - 1) + i
  <2>1. n \in r.seq..(r.seq + Cardinality(H)) /\ n < end /\ end \in Nat /\ n \in Nat
    BY <1>1, <1>2, <1>6
  <2>2. n \notin S
    <3> HIDE DEF n, end, S
    <3> QED BY <1>5, <2>1
  <2> QED BY <2>1, <2>2
<1> HIDE DEF H, end
<1>10. Sequel(e, r) \in Seq(H) /\ Len(Sequel(e, r)) = end - r.seq
  <2>1. Sequel(e, r) \in [1..(end - r.seq) -> H]
    BY <1>8, <1>9
  <2> QED BY <1>7, <2>1
<1>11. \A i \in 1..Len(Sequel(e, r)) : Sequel(e, r)[i].seq = (r.seq - 1) + i
  BY <1>8, <1>9, <1>10
<1> QED BY <1>10, <1>11 DEF H

\* What a record that is received leaves is well-formed.
LEMMA ReceiveTypes ==
    ASSUME Shape, NEW e \in Ends, NEW r \in RecordType, Receive(e, r)
    PROVE  /\ recvNext' \in [Ends -> Nat \ {0}] /\ recvAhead' \in [Ends -> SUBSET RecordType]
           /\ got' \in [Ends -> Seq(RecordType)]
           /\ \A d \in Ends : recvNext'[d] >= recvNext[d]
           /\ \A d \in Ends : IsFiniteSet(recvAhead'[d]) /\ Cardinality(recvAhead'[d]) <= ReorderLimit
<1> DEFINE run == Sequel(e, r)
           rest == {h \in recvAhead[e] : h.seq >= r.seq + Len(run)}
<1>1. /\ recvNext \in [Ends -> Nat \ {0}] /\ recvAhead \in [Ends -> SUBSET RecordType]
      /\ got \in [Ends -> Seq(RecordType)] /\ r.seq \in Nat /\ ReorderLimit \in Nat
      /\ \A d \in Ends : IsFiniteSet(recvAhead[d]) /\ Cardinality(recvAhead[d]) <= ReorderLimit
  BY RecordTypes, ConstantTypes DEF Shape, TypeOK
<1>2. CASE Duplicate(e, r)
  BY <1>1, <1>2 DEF Receive, recvVars
<1>3. CASE ~Duplicate(e, r) /\ Early(e, r)
  <2>1. Cardinality(recvAhead[e]) < ReorderLimit
    <3>1. Cardinality(recvAhead[e]) \in Nat
      BY <1>1, FS_CardinalityType
    <3> QED BY <1>1, <1>3, <3>1 DEF Receive, TooFar, Duplicate
  <2>2. /\ IsFiniteSet(recvAhead[e] \cup {r}) /\ Cardinality(recvAhead[e] \cup {r}) <= ReorderLimit
    <3>1. Cardinality(recvAhead[e]) \in Nat
      BY <1>1, FS_CardinalityType
    <3>2. /\ IsFiniteSet(recvAhead[e] \cup {r})
          /\ \/ Cardinality(recvAhead[e] \cup {r}) = Cardinality(recvAhead[e])
             \/ Cardinality(recvAhead[e] \cup {r}) = Cardinality(recvAhead[e]) + 1
      BY <1>1, FS_AddElement
    <3> QED BY <1>1, <2>1, <3>1, <3>2
  <2>3. /\ recvAhead' = [recvAhead EXCEPT ![e] = @ \cup {r}]
        /\ recvNext' = recvNext /\ got' = got
    BY <1>3 DEF Receive
  <2> QED BY <1>1, <2>2, <2>3
<1>4. CASE ~Duplicate(e, r) /\ ~Early(e, r)
  <2>1. /\ got' = [got EXCEPT ![e] = @ \o run] /\ recvNext' = [recvNext EXCEPT ![e] = @ + Len(run)]
        /\ recvAhead' = [recvAhead EXCEPT ![e] = rest]
    BY <1>1, <1>4 DEF Receive
  <2>2. run \in Seq(RecordType)
    <3>1. recvAhead[e] \cup {r} \subseteq RecordType
      BY <1>1
    <3>2. run \in Seq(recvAhead[e] \cup {r})
      BY <1>1, SequelIs
    <3> HIDE DEF run
    <3> QED BY <3>1, <3>2, SeqMono
  <2>3. rest \in SUBSET RecordType /\ IsFiniteSet(rest) /\ Cardinality(rest) <= ReorderLimit
    <3>1. rest \subseteq recvAhead[e]
      OBVIOUS
    <3> HIDE DEF rest
    <3>2. IsFiniteSet(rest) /\ Cardinality(rest) <= Cardinality(recvAhead[e])
      BY <1>1, <3>1, FS_Subset
    <3>3. Cardinality(rest) \in Nat /\ Cardinality(recvAhead[e]) \in Nat
      BY <1>1, <3>2, FS_CardinalityType
    <3> QED BY <1>1, <3>1, <3>2, <3>3
  <2> HIDE DEF run, rest
  <2>4. Len(run) \in Nat /\ got[e] \o run \in Seq(RecordType)
    BY <1>1, <2>2
  <2> QED BY <1>1, <2>1, <2>3, <2>4
<1> QED BY <1>2, <1>3, <1>4

\* In the first life an end has received a first part of what was sent to it,
\* and goes on from there.
LEMMA ReceiveSound ==
    ASSUME Shape, FirstLife, NEW e \in Ends, NEW r \in MessagesFrom(Peer[e]), Receive(e, r)
    PROVE  /\ \A d \in Ends : recvNext'[d] >= recvNext[d] /\ recvNext'[d] <= nextSend[Peer[d]]
           /\ \A d \in Ends : recvAhead'[d] \subseteq MessagesFrom(Peer[d])
           /\ \A d \in Ends : got'[d] = Records(Peer[d], 1, recvNext'[d] - 1)
<1> DEFINE run == Sequel(e, r)
           p == Peer[e]
<1>1. /\ recvNext \in [Ends -> Nat \ {0}] /\ recvAhead \in [Ends -> SUBSET RecordType]
      /\ got \in [Ends -> Seq(RecordType)] /\ nextSend \in [Ends -> Nat \ {0}]
      /\ IsFiniteSet(recvAhead[e])
  BY DEF Shape, TypeOK
<1>l. life \in Nat
  BY ConstantTypes DEF Shape, TypeOK
<1>2. /\ \A d \in Ends : recvNext[d] <= nextSend[Peer[d]]
      /\ \A d \in Ends : recvAhead[d] \subseteq MessagesFrom(Peer[d])
      /\ \A d \in Ends : got[d] = Records(Peer[d], 1, recvNext[d] - 1)
  BY DEF FirstLife, CarriedSound, ReceivedSound
<1>p. p \in Ends
  BY ConstantTypes
<1>3. \A m \in MessagesFrom(p) : m \in RecordType /\ m.seq \in 1..(nextSend[p] - 1) /\ m = Record(p, m.seq)
  BY DEF MessagesFrom, SoundFrom
<1>4. CASE Duplicate(e, r)
  BY <1>1, <1>2, <1>4 DEF Receive, recvVars
<1>5. CASE ~Duplicate(e, r) /\ Early(e, r)
  <2>1. recvAhead' = [recvAhead EXCEPT ![e] = @ \cup {r}] /\ recvNext' = recvNext /\ got' = got
    BY <1>5 DEF Receive
  <2> HIDE DEF Records, MessagesFrom
  <2>2. \A d \in Ends : recvAhead'[d] \subseteq MessagesFrom(Peer[d])
    BY <1>1, <1>2, <2>1
  <2> QED BY <1>1, <1>2, <2>1, <2>2
<1>6. CASE ~Duplicate(e, r) /\ ~Early(e, r)
  <2>1. r.seq = recvNext[e]
    BY <1>1, <1>3, <1>6 DEF Duplicate, Early
  <2>2. /\ got' = [got EXCEPT ![e] = @ \o run] /\ recvNext' = [recvNext EXCEPT ![e] = @ + Len(run)]
        /\ recvAhead' = [recvAhead EXCEPT ![e] = {h \in @ : h.seq >= r.seq + Len(run)}]
    BY <1>1, <1>6 DEF Receive
  <2>3. run \in Seq(MessagesFrom(p)) /\ \A i \in 1..Len(run) : run[i].seq = (recvNext[e] - 1) + i
    <3>1. recvAhead[e] \cup {r} \subseteq MessagesFrom(p) /\ r \in RecordType
      BY <1>1, <1>2, <1>3
    <3>2. run \in Seq(recvAhead[e] \cup {r}) /\ \A i \in 1..Len(run) : run[i].seq = (r.seq - 1) + i
      BY <1>1, <3>1, SequelIs
    <3> HIDE DEF run
    <3> QED BY <2>1, <3>1, <3>2, SeqMono
  <2> HIDE DEF run
  <2>4. Len(run) \in Nat /\ \A i \in 1..Len(run) : run[i] \in MessagesFrom(p)
    BY <2>3
  <2>5. \A i \in 1..Len(run) : /\ run[i] = Record(p, (recvNext[e] - 1) + i)
                               /\ (recvNext[e] - 1) + i <= nextSend[p] - 1
    BY <1>3, <2>3, <2>4
  <2>6. recvNext[e] + Len(run) <= nextSend[p]
    <3>1. CASE Len(run) = 0
      BY <1>1, <1>2, <3>1
    <3>2. CASE Len(run) # 0
      <4>1. Len(run) \in 1..Len(run)
        BY <2>4, <3>2
      <4>2. (recvNext[e] - 1) + Len(run) <= nextSend[p] - 1
        BY <2>5, <4>1
      <4>3. recvNext[e] \in Nat /\ nextSend[p] \in Nat
        BY <1>1, <1>p
      <4> HIDE DEF p
      <4> QED BY <2>4, <4>2, <4>3
    <3> QED BY <3>1, <3>2
  <2>7. got[e] \o run = Records(p, 1, (recvNext[e] + Len(run)) - 1)
    <3> DEFINE a == recvNext[e] - 1
               old == Records(p, 1, a)
               new == Records(p, 1, (recvNext[e] + Len(run)) - 1)
    <3>1. a \in Nat /\ (recvNext[e] + Len(run)) - 1 = a + Len(run)
      BY <1>1, <2>4
    <3>2. \A s \in Nat : Record(p, s) \in RecordType
      BY <1>l, RecordTypes
    <3>b. a + Len(run) \in Nat
      BY <3>1, <2>4
    <3>3. Len(old) = a /\ old \in Seq(RecordType) /\ \A i \in 1..a : old[i] = Record(p, i)
      BY <1>l, <3>1, FirstRecords
    <3>4. /\ Len(new) = a + Len(run) /\ new \in Seq(RecordType)
          /\ \A i \in 1..(a + Len(run)) : new[i] = Record(p, i)
      BY <1>l, <3>1, <3>b, FirstRecords
    <3>5. run \in Seq(RecordType)
      BY <1>3, <2>3, SeqMono
    <3>6. got[e] = old
      BY <1>2
    <3>7. \A i \in 1..Len(run) : run[i] = Record(p, a + i)
      BY <2>5
    <3> HIDE DEF old, new, a
    <3>8. Len(old \o run) = a + Len(run) /\ old \o run \in Seq(RecordType)
      BY <3>1, <3>3, <3>5
    <3>9. \A i \in 1..(a + Len(run)) : (old \o run)[i] = new[i]
      <4> TAKE i \in 1..(a + Len(run))
      <4>1. CASE i <= a
        BY <3>1, <3>3, <3>4, <3>5, <2>4, <4>1
      <4>2. CASE ~(i <= a)
        <5>1. (i - a) \in 1..Len(run) /\ a + (i - a) = i
          BY <3>1, <2>4, <4>2
        <5>2. (old \o run)[i] = run[i - a]
          BY <3>1, <3>3, <3>5, <2>4, <4>2
        <5> QED BY <3>4, <3>7, <5>1, <5>2
      <4> QED BY <4>1, <4>2
    <3>10. old \o run = new
      BY <3>4, <3>8, <3>9, <3>1
    <3> QED BY <3>6, <3>10 DEF new
  <2>8. \A d \in Ends : d # e => recvNext'[d] = recvNext[d] /\ recvAhead'[d] = recvAhead[d] /\ got'[d] = got[d]
    BY <1>1, <2>2
  <2>9. /\ recvNext'[e] = recvNext[e] + Len(run) /\ recvAhead'[e] \subseteq recvAhead[e]
        /\ got'[e] = got[e] \o run
    BY <1>1, <2>2
  <2> HIDE DEF MessagesFrom, Records
  <2>10. \A d \in Ends : recvAhead'[d] \subseteq MessagesFrom(Peer[d])
    BY <1>2, <2>8, <2>9
  <2>11. \A d \in Ends : got'[d] = Records(Peer[d], 1, recvNext'[d] - 1)
    BY <1>2, <2>7, <2>8, <2>9
  <2>12. \A d \in Ends : recvNext'[d] >= recvNext[d] /\ recvNext'[d] <= nextSend[Peer[d]]
    <3>1. \A d \in Ends : recvNext[d] \in Nat
      BY <1>1
    <3>2. recvNext'[e] >= recvNext[e] /\ recvNext'[e] <= nextSend[Peer[e]]
      BY <3>1, <2>4, <2>6, <2>9
    <3>3. ASSUME NEW d \in Ends, d # e
          PROVE  recvNext'[d] >= recvNext[d] /\ recvNext'[d] <= nextSend[Peer[d]]
      BY <1>2, <2>8, <3>1, <3>3
    <3> QED BY <3>2, <3>3
  <2> QED BY <2>10, <2>11, <2>12
<1> QED BY <1>4, <1>5, <1>6

-----------------------------------------------------------------------------
(* Types.  Shape in parts, each with what disturbs it.                     *)

UploadType == [st : UploadStates, first : Nat, todo : Seq(RecordType)]
DownloadType == {d \in [st : DownloadStates, todo : Seq(RecordType)] :
                   d.st = "answered" => d.todo # <<>>}
SendOK ==
    /\ nextSend \in [Ends -> Nat \ {0}] /\ sendBase \in [Ends -> Nat \ {0}]
    /\ \A e \in Ends : sendBase[e] <= nextSend[e]
    /\ closeSeq \in [Ends -> Nat] /\ closed \in [Ends -> BOOLEAN]
RecvOK ==
    /\ recvNext \in [Ends -> Nat \ {0}] /\ recvAhead \in [Ends -> SUBSET RecordType]
    /\ \A e \in Ends : Cardinality(recvAhead[e]) <= ReorderLimit /\ IsFiniteSet(recvAhead[e])
    /\ got \in [Ends -> Seq(RecordType)] /\ taken \in [Ends -> Nat]
UploadOK ==
    /\ upload \in [Uploads -> UploadType]
    /\ nextClaim \in Nat \ {0} /\ warmups \in Nat /\ pipelined \in BOOLEAN
DownloadOK == download \in [Downloads -> DownloadType] /\ confirmed \in BOOLEAN
RelayOK ==
    /\ present \in BOOLEAN /\ resetDone \in BOOLEAN
    /\ life \in 0..MaxLives /\ dispatched \in Nat
FaultOK ==
    /\ stray \in 0..MaxLoss /\ stray <= losses
    /\ losses \in 0..MaxLoss /\ restarts \in Nat /\ plan \in Plans

LEMMA ShapeParts ==
    Shape <=> SendOK /\ RecvOK /\ UploadOK /\ DownloadOK /\ RelayOK /\ FaultOK
BY DEF Shape, TypeOK, SendOK, RecvOK, UploadOK, DownloadOK, RelayOK, FaultOK, UploadType,
       DownloadType, Fetched

LEMMA ShapePartsNext ==
    Shape' <=> SendOK' /\ RecvOK' /\ UploadOK' /\ DownloadOK' /\ RelayOK' /\ FaultOK'
BY DEF Shape, TypeOK, SendOK, RecvOK, UploadOK, DownloadOK, RelayOK, FaultOK, UploadType,
       DownloadType, Fetched

LEMMA PartsUnchanged ==
    /\ SendOK /\ UNCHANGED <<sendVars, closed>> => SendOK'
    /\ RecvOK /\ UNCHANGED <<recvVars, taken>> => RecvOK'
    /\ UploadOK /\ UNCHANGED <<upload, nextClaim, warmups, pipelined>> => UploadOK'
    /\ DownloadOK /\ UNCHANGED <<download, confirmed>> => DownloadOK'
    /\ RelayOK /\ UNCHANGED <<present, resetDone, life, dispatched>> => RelayOK'
    /\ FaultOK /\ UNCHANGED <<stray, faultVars>> => FaultOK'
BY DEF SendOK, RecvOK, UploadOK, DownloadOK, RelayOK, FaultOK, sendVars, recvVars, faultVars

LEMMA TypesAtHand ==
    ASSUME Shape
    PROVE  /\ nextSend \in [Ends -> Nat \ {0}] /\ sendBase \in [Ends -> Nat \ {0}]
           /\ \A e \in Ends : sendBase[e] <= nextSend[e]
           /\ closeSeq \in [Ends -> Nat] /\ closed \in [Ends -> BOOLEAN]
           /\ recvNext \in [Ends -> Nat \ {0}]
           /\ got \in [Ends -> Seq(RecordType)] /\ taken \in [Ends -> Nat]
           /\ upload \in [Uploads -> UploadType] /\ download \in [Downloads -> DownloadType]
           /\ nextClaim \in Nat \ {0} /\ warmups \in Nat /\ dispatched \in Nat
           /\ life \in Nat /\ losses \in 0..MaxLoss
<1>1. /\ nextSend \in [Ends -> Nat \ {0}] /\ sendBase \in [Ends -> Nat \ {0}]
      /\ \A e \in Ends : sendBase[e] <= nextSend[e]
      /\ closeSeq \in [Ends -> Nat] /\ closed \in [Ends -> BOOLEAN]
  BY DEF Shape, TypeOK
<1>2. recvNext \in [Ends -> Nat \ {0}] /\ got \in [Ends -> Seq(RecordType)] /\ taken \in [Ends -> Nat]
  BY DEF Shape, TypeOK
<1>3. upload \in [Uploads -> UploadType]
  BY DEF Shape, TypeOK, UploadType
<1>4. download \in [Downloads -> DownloadType]
  BY DEF Shape, TypeOK, DownloadType, Fetched
<1>5. /\ nextClaim \in Nat \ {0} /\ warmups \in Nat /\ dispatched \in Nat
      /\ life \in Nat /\ losses \in 0..MaxLoss
  BY ConstantTypes DEF Shape, TypeOK
<1> QED BY <1>1, <1>2, <1>3, <1>4, <1>5

LEMMA CounterTypes ==
    ASSUME Shape, NEW e \in Ends
    PROVE  /\ nextSend[e] \in Nat /\ sendBase[e] \in Nat /\ recvNext[e] \in Nat
           /\ nextSend[e] > 0 /\ sendBase[e] > 0 /\ recvNext[e] > 0
           /\ nextSend[e] - 1 \in Nat /\ sendBase[e] - 1 \in Nat /\ recvNext[e] - 1 \in Nat
<1>1. nextSend[e] \in Nat \ {0} /\ sendBase[e] \in Nat \ {0} /\ recvNext[e] \in Nat \ {0}
  BY TypesAtHand
<1> QED BY <1>1

LEMMA NothingTypes ==
    NoUpload \in UploadType /\ NoDownload \in DownloadType /\ <<>> \in Seq(RecordType)
BY DEF NoUpload, NoDownload, UploadType, DownloadType, UploadStates, DownloadStates

\* Counters that start at 1.
LEMMA FreshCounter ==
    ASSUME NEW f \in [Ends -> Nat \ {0}], NEW d
    PROVE  [f EXCEPT ![d] = 1] \in [Ends -> Nat \ {0}]
<1> DEFINE S == Nat \ {0}
<1>1. 1 \in S
  OBVIOUS
<1>2. f \in [Ends -> S]
  OBVIOUS
<1> HIDE DEF S
<1>3. [f EXCEPT ![d] = 1] \in [Ends -> S]
  BY <1>1, <1>2
<1> QED BY <1>3 DEF S

LEMMA TrimSend ==
    ASSUME SendOK, NEW e \in Ends, NEW a \in Nat, Trim(e, a), UNCHANGED <<nextSend, closeSeq, closed>>
    PROVE  SendOK'
BY DEF SendOK, Trim

LEMMA QueueCloseSend ==
    ASSUME SendOK, NEW e \in Ends, QueueClose(e), closed' \in [Ends -> BOOLEAN]
    PROVE  SendOK'
<1>1. nextSend' \in [Ends -> Nat \ {0}] /\ sendBase' \in [Ends -> Nat \ {0}] /\ closeSeq' \in [Ends -> Nat]
  BY DEF SendOK, QueueClose
<1>2. \A d \in Ends : sendBase'[d] <= nextSend'[d]
  <2> TAKE d \in Ends
  <2>1. sendBase'[d] = sendBase[d] /\ (nextSend'[d] = nextSend[d] \/ nextSend'[d] = nextSend[d] + 1)
    BY DEF SendOK, QueueClose
  <2>2. sendBase[d] \in Nat /\ nextSend[d] \in Nat /\ sendBase[d] <= nextSend[d]
    BY DEF SendOK
  <2> QED BY <2>1, <2>2
<1> QED BY <1>1, <1>2 DEF SendOK

LEMMA ReceiveRecv ==
    ASSUME Shape, NEW e \in Ends, NEW r \in RecordType, Receive(e, r), UNCHANGED taken
    PROVE  RecvOK'
<1>1. taken \in [Ends -> Nat]
  BY TypesAtHand
<1> QED BY <1>1, ReceiveTypes DEF RecvOK

LEMMA ArriveParts ==
    ASSUME Shape, NEW a \in Nat, Arrive(a), UNCHANGED faultVars
    PROVE  SendOK' /\ RecvOK' /\ RelayOK' /\ FaultOK'
<1>1. SendOK /\ RecvOK /\ RelayOK /\ FaultOK
  BY ShapeParts
<1>2. CASE present
  <2>1. /\ Trim(Relay, a)
        /\ UNCHANGED <<nextSend, closeSeq, closed, recvVars, taken, relayVars>>
    BY <1>2 DEF Arrive
  <2>2. SendOK'
    BY <1>1, <2>1, ConstantTypes, TrimSend
  <2> QED BY <1>1, <2>1, <2>2, PartsUnchanged DEF relayVars
<1>3. CASE ~present
  <2>f. /\ nextSend' = [nextSend EXCEPT ![Relay] = 1] /\ sendBase' = [sendBase EXCEPT ![Relay] = 1]
        /\ closeSeq' = [closeSeq EXCEPT ![Relay] = 0] /\ closed' = [closed EXCEPT ![Relay] = FALSE]
        /\ recvNext' = [recvNext EXCEPT ![Relay] = 1]
        /\ recvAhead' = [recvAhead EXCEPT ![Relay] = {}]
        /\ got' = [got EXCEPT ![Relay] = <<>>] /\ taken' = [taken EXCEPT ![Relay] = 0]
        /\ present' = TRUE /\ resetDone' = FALSE /\ dispatched' = 0
    BY <1>3 DEF Arrive, Fresh
  <2>1. SendOK'
    <3>1. /\ nextSend' \in [Ends -> Nat \ {0}] /\ sendBase' \in [Ends -> Nat \ {0}]
          /\ closeSeq' \in [Ends -> Nat] /\ closed' \in [Ends -> BOOLEAN]
      <4>1. nextSend' \in [Ends -> Nat \ {0}]
        BY <1>1, <2>f, FreshCounter DEF SendOK
      <4>2. sendBase' \in [Ends -> Nat \ {0}]
        BY <1>1, <2>f, FreshCounter DEF SendOK
      <4>3. closeSeq' \in [Ends -> Nat]
        BY <1>1, <2>f DEF SendOK
      <4>4. closed' \in [Ends -> BOOLEAN]
        BY <1>1, <2>f DEF SendOK
      <4> QED BY <4>1, <4>2, <4>3, <4>4
    <3>2. \A e \in Ends : sendBase'[e] <= nextSend'[e]
      BY <1>1, <2>f DEF SendOK
    <3> QED BY <3>1, <3>2 DEF SendOK
  <2>2. RecvOK'
    <3>1. Cardinality({}) = 0 /\ IsFiniteSet({})
      BY FS_EmptySet
    <3>2. \A e \in Ends : recvAhead'[e] = recvAhead[e] \/ recvAhead'[e] = {}
      BY <1>1, <2>f DEF RecvOK
    <3>3. \A e \in Ends : Cardinality(recvAhead'[e]) <= ReorderLimit /\ IsFiniteSet(recvAhead'[e])
      <4>1. ReorderLimit \in Nat /\ 0 <= ReorderLimit
        BY ConstantTypes
      <4> QED BY <1>1, <3>1, <3>2, <4>1 DEF RecvOK
    <3>4. /\ recvNext' \in [Ends -> Nat \ {0}] /\ recvAhead' \in [Ends -> SUBSET RecordType]
          /\ got' \in [Ends -> Seq(RecordType)] /\ taken' \in [Ends -> Nat]
      <4>1. recvNext' \in [Ends -> Nat \ {0}]
        BY <1>1, <2>f, FreshCounter DEF RecvOK
      <4>2. recvAhead' \in [Ends -> SUBSET RecordType]
        BY <1>1, <2>f DEF RecvOK
      <4>3. got' \in [Ends -> Seq(RecordType)]
        BY <1>1, <2>f, NothingTypes DEF RecvOK
      <4>4. taken' \in [Ends -> Nat]
        BY <1>1, <2>f DEF RecvOK
      <4> QED BY <4>1, <4>2, <4>3, <4>4
    <3> QED BY <3>3, <3>4 DEF RecvOK
  <2>3. RelayOK'
    <3>1. plan.lives \in 1..MaxLives
      BY PlanTypes
    <3>2. life' = life + 1 /\ life < plan.lives /\ life \in 0..MaxLives /\ MaxLives \in Nat
      BY <1>1, <1>3, ConstantTypes DEF Arrive, RelayOK
    <3>3. life' \in 0..MaxLives
      BY <3>1, <3>2
    <3> QED BY <2>f, <3>3 DEF RelayOK
  <2>4. FaultOK'
    BY <1>1, <1>3, ConstantTypes DEF FaultOK, Arrive, faultVars
  <2> QED BY <2>1, <2>2, <2>3, <2>4
<1> QED BY <1>2, <1>3

LEMMA BatchType ==
    ASSUME Shape, NEW e, NEW a \in Nat, NEW lo \in Nat, NEW hi \in Nat
    PROVE  Batch(e, a, lo, hi) \in Seq(RecordType)
<1>1. \A s \in lo..hi : Record(e, s) \in RecordType
  BY TypesAtHand, RecordTypes
<1>2. AckRecord(a) \in RecordType
  BY RecordTypes
<1> QED BY <1>1, <1>2, BatchIs

\* What is left of a request, an answer, or of all that wait.
LEMMA RestTypes ==
    ASSUME Shape
    PROVE  /\ \A k \in Uploads : upload[k].todo # <<>> => UploadTail(k) \in UploadType
           /\ \A k \in Uploads, st \in UploadStates : Stopped(k, st) \in UploadType
           /\ \A i \in Downloads : download[i].todo # <<>> => DownloadTail(i) \in DownloadType
           /\ EndWaiting => download' \in [Downloads -> DownloadType]
<1>1. upload \in [Uploads -> UploadType] /\ download \in [Downloads -> DownloadType]
  BY TypesAtHand
<1>2. ASSUME NEW k \in Uploads, upload[k].todo # <<>> PROVE UploadTail(k) \in UploadType
  <2>1. upload[k] \in UploadType
    BY <1>1
  <2>2. Tail(upload[k].todo) \in Seq(RecordType)
    BY <1>2, <2>1, SeqOps DEF UploadType
  <2> QED BY <2>1, <2>2, NothingTypes DEF UploadTail, UploadType
<1>3. ASSUME NEW k \in Uploads, NEW st \in UploadStates PROVE Stopped(k, st) \in UploadType
  BY <1>1, NothingTypes DEF Stopped, UploadType
<1>4. ASSUME NEW i \in Downloads, download[i].todo # <<>> PROVE DownloadTail(i) \in DownloadType
  <2>1. download[i] \in DownloadType
    BY <1>1
  <2>2. download[i].todo \in Seq(RecordType)
    BY <2>1 DEF DownloadType
  <2>3. /\ Tail(download[i].todo) \in Seq(RecordType)
        /\ Len(download[i].todo) # 1 => Tail(download[i].todo) # <<>>
    BY <1>4, <2>2, SeqOps
  <2> QED BY <2>1, <2>3, NothingTypes DEF DownloadTail, DownloadType
<1>5. ASSUME EndWaiting PROVE download' \in [Downloads -> DownloadType]
  BY <1>1, <1>5, NothingTypes DEF EndWaiting
<1> QED BY <1>2, <1>3, <1>4, <1>5

LEMMA TerminateParts ==
    ASSUME Shape, NEW e \in Ends, Terminate(e)
    PROVE  UploadOK' /\ DownloadOK' /\ closed' \in [Ends -> BOOLEAN]
<1>1. SendOK /\ UploadOK /\ DownloadOK
  BY ShapeParts
<1>2. closed' \in [Ends -> BOOLEAN]
  BY <1>1 DEF SendOK, Terminate
<1>3. CASE e = Client
  <2>1. upload' \in [Uploads -> UploadType]
    <3>1. upload' = [k \in Uploads |-> IF upload[k].st = "idle" THEN NoUpload
                                       ELSE [upload[k] EXCEPT !.st = "late"]]
      BY <1>3 DEF Terminate
    <3>2. \A k \in Uploads : [upload[k] EXCEPT !.st = "late"] \in UploadType
      BY <1>1 DEF UploadOK, UploadType, UploadStates
    <3> QED BY <3>1, <3>2, NothingTypes
  <2>2. download' \in [Downloads -> DownloadType]
    BY <1>3, NothingTypes DEF Terminate
  <2> QED BY <1>1, <1>2, <1>3, <2>1, <2>2 DEF Terminate, UploadOK, DownloadOK
<1>4. CASE e # Client
  <2>1. EndWaiting /\ UNCHANGED <<upload, nextClaim, pipelined, warmups, confirmed>>
    BY <1>4 DEF Terminate
  <2> QED BY <1>1, <1>2, <2>1, RestTypes DEF UploadOK, DownloadOK
<1> QED BY <1>3, <1>4

\* What each kind of step does to the types.
LEMMA UserTypes ==
    ASSUME Shape, NEW e \in Ends, Write(e) \/ Read(e) \/ Close(e) \/ CloseEnds(e) \/ CloseNow(e)
    PROVE  Shape'
<1>p. SendOK /\ RecvOK /\ UploadOK /\ DownloadOK /\ RelayOK /\ FaultOK
  BY ShapeParts
<1>1. CASE Write(e)
  <2>1. UNCHANGED <<sendBase, closeSeq, closed, recvVars, taken, clientVars, relayVars, faultVars>>
    BY <1>1 DEF Write
  <2>2. SendOK'
    <3>1. nextSend' = [nextSend EXCEPT ![e] = @ + 1]
      BY <1>1 DEF Write
    <3>2. nextSend' \in [Ends -> Nat \ {0}]
      BY <1>p, <3>1 DEF SendOK
    <3>3. ASSUME NEW d \in Ends PROVE sendBase'[d] <= nextSend'[d]
      <4>1. sendBase'[d] = sendBase[d] /\ (nextSend'[d] = nextSend[d] \/ nextSend'[d] = nextSend[d] + 1)
        BY <1>p, <2>1, <3>1 DEF SendOK
      <4>2. sendBase[d] \in Nat /\ nextSend[d] \in Nat /\ sendBase[d] <= nextSend[d]
        BY <1>p DEF SendOK
      <4> QED BY <4>1, <4>2
    <3> QED BY <1>p, <2>1, <3>2, <3>3 DEF SendOK
  <2> QED BY <1>p, <2>1, <2>2, PartsUnchanged, ShapePartsNext DEF clientVars, relayVars
<1>2. CASE Read(e)
  <2>1. /\ UNCHANGED <<sendVars, closed, recvVars, clientVars, relayVars, faultVars>>
        /\ taken' = [taken EXCEPT ![e] = @ + 1]
    BY <1>2 DEF Read
  <2>2. RecvOK'
    BY <1>p, <2>1 DEF RecvOK, recvVars
  <2> QED BY <1>p, <2>1, <2>2, PartsUnchanged, ShapePartsNext DEF clientVars, relayVars
<1>3. CASE Close(e)
  <2>1. /\ UNCHANGED <<closed, recvVars, taken, clientVars, relayVars, faultVars>> /\ QueueClose(e)
    BY <1>3 DEF Close
  <2>2. SendOK'
    BY <1>p, <2>1, QueueCloseSend DEF SendOK
  <2> QED BY <1>p, <2>1, <2>2, PartsUnchanged, ShapePartsNext DEF clientVars, relayVars
<1>4. CASE CloseEnds(e)
  <2>1. /\ UNCHANGED <<sendVars, recvVars, taken, relayVars, faultVars>> /\ Terminate(e)
    BY <1>4 DEF CloseEnds
  <2>2. UploadOK' /\ DownloadOK' /\ closed' \in [Ends -> BOOLEAN]
    BY <2>1, TerminateParts
  <2>3. SendOK'
    BY <1>p, <2>1, <2>2 DEF SendOK, sendVars
  <2> QED BY <1>p, <2>1, <2>2, <2>3, PartsUnchanged, ShapePartsNext DEF clientVars, relayVars
<1>5. CASE CloseNow(e)
  <2>1. /\ UNCHANGED <<recvVars, taken, relayVars, faultVars>> /\ Terminate(e)
        /\ QueueClose(e) \/ UNCHANGED sendVars
    BY <1>5 DEF CloseNow
  <2>2. UploadOK' /\ DownloadOK' /\ closed' \in [Ends -> BOOLEAN]
    BY <2>1, TerminateParts
  <2>3. SendOK'
    <3>1. CASE QueueClose(e)
      BY <1>p, <2>2, <3>1, QueueCloseSend
    <3>2. CASE UNCHANGED sendVars
      BY <1>p, <3>2, <2>2 DEF SendOK, sendVars
    <3> QED BY <2>1, <3>1, <3>2
  <2> QED BY <1>p, <2>1, <2>2, <2>3, PartsUnchanged, ShapePartsNext DEF clientVars, relayVars
<1> QED BY <1>1, <1>2, <1>3, <1>4, <1>5

LEMMA PostTypes ==
    ASSUME Shape, NEW k \in Uploads, Post(k)
    PROVE  Shape'
<1>p. SendOK /\ RecvOK /\ UploadOK /\ DownloadOK /\ RelayOK /\ FaultOK
  BY ShapeParts
<1>1. Arrive(0) /\ UNCHANGED <<pipelined, download, confirmed, faultVars>>
  BY DEF Post
<1>2. SendOK' /\ RecvOK' /\ RelayOK' /\ FaultOK'
  BY <1>1, ArriveParts
<1>3. UploadOK'
  <2> DEFINE lo == FirstOf
             hi == LastOf(lo)
             batch == Batch(Client, recvNext[Client] - 1, lo, hi)
  <2>1. lo \in Nat \ {0} /\ hi \in Nat /\ recvNext[Client] - 1 \in Nat
    <3>1. /\ nextSend[Client] \in Nat \ {0} /\ sendBase[Client] \in Nat \ {0}
          /\ recvNext[Client] \in Nat \ {0} /\ nextClaim \in Nat \ {0} /\ BatchRecords \in Nat
      BY <1>p, ConstantTypes, LimitsAssumption DEF SendOK, RecvOK, UploadOK
    <3>2. lo \in Nat \ {0}
      BY <3>1 DEF FirstOf
    <3> HIDE DEF lo
    <3>3. hi \in Nat
      BY <3>1, <3>2 DEF LastOf
    <3> QED BY <3>1, <3>2, <3>3
  <2>2. batch \in Seq(RecordType)
    <3> HIDE DEF lo, hi
    <3> QED BY <2>1, BatchType
  <2>3. /\ nextClaim' \in {hi + 1, nextClaim} /\ warmups' \in Nat
        /\ \E f \in {lo, 0} : upload' = [upload EXCEPT ![k] = [st |-> "sent", first |-> f, todo |-> batch]]
    BY <1>p DEF Post, UploadOK
  <2>4. PICK f \in {lo, 0} : upload' = [upload EXCEPT ![k] = [st |-> "sent", first |-> f, todo |-> batch]]
    BY <2>3
  <2>5. [st |-> "sent", first |-> f, todo |-> batch] \in UploadType
    BY <2>1, <2>2 DEF UploadType, UploadStates
  <2>6. upload' \in [Uploads -> UploadType]
    BY <1>p, <2>4, <2>5 DEF UploadOK
  <2>7. nextClaim' \in Nat \ {0}
    BY <1>p, <2>1, <2>3 DEF UploadOK
  <2> HIDE DEF lo, hi, batch
  <2> QED BY <1>p, <1>1, <2>3, <2>6, <2>7 DEF UploadOK
<1> QED BY <1>p, <1>1, <1>2, <1>3, PartsUnchanged, ShapePartsNext

LEMMA HeadUpload ==
    ASSUME Shape, NEW k \in Uploads, upload[k].todo # <<>>
    PROVE  Head(upload[k].todo) \in RecordType /\ Head(upload[k].todo).seq \in Nat
<1>1. upload[k].todo \in Seq(RecordType)
  BY TypesAtHand DEF UploadType
<1>2. Head(upload[k].todo) \in RecordType
  BY <1>1, SeqOps
<1> QED BY <1>2, RecordTypes

LEMMA HeadDownload ==
    ASSUME Shape, NEW i \in Downloads, download[i].todo # <<>>
    PROVE  Head(download[i].todo) \in RecordType /\ Head(download[i].todo).seq \in Nat
<1>1. download[i].todo \in Seq(RecordType)
  BY TypesAtHand DEF DownloadType
<1>2. Head(download[i].todo) \in RecordType
  BY <1>1, SeqOps
<1> QED BY <1>2, RecordTypes

\* The first record of an answer is read only while there is one.  (Batches are
\* never empty, and a download that has been read is idle again.)
LEMMA UploadTypes ==
    ASSUME Shape, NEW k \in Uploads, Upload(k) \/ LoseUpload(k) \/ TruncateUpload(k)
    PROVE  Shape'
<1>p. SendOK /\ RecvOK /\ UploadOK /\ DownloadOK /\ RelayOK /\ FaultOK
  BY ShapeParts
<1>u. /\ upload \in [Uploads -> UploadType]
      /\ \A v \in UploadType : [upload EXCEPT ![k] = v] \in [Uploads -> UploadType]
  BY <1>p DEF UploadOK
<1>s. \A st \in UploadStates : Stopped(k, st) \in UploadType
  BY RestTypes
<1>a. {"idle", "sent", "failed", "late"} \subseteq UploadStates
  BY DEF UploadStates
<1>1. CASE UploadAck(k)
  <2>1. /\ Trim(Relay, Head(upload[k].todo).seq) /\ upload[k].todo # <<>>
        /\ upload' = [upload EXCEPT ![k] = UploadTail(k)]
        /\ UNCHANGED <<nextSend, closeSeq, closed, recvVars, taken, OtherClient, relayVars, faultVars>>
    BY <1>1 DEF UploadAck, Readable
  <2>2. SendOK'
    BY <1>p, <2>1, HeadUpload, TrimSend, ConstantTypes
  <2>3. UploadOK'
    BY <1>p, <1>u, <2>1, RestTypes DEF UploadOK, OtherClient
  <2> QED BY <1>p, <2>1, <2>2, <2>3, PartsUnchanged, ShapePartsNext DEF OtherClient, relayVars
<1>2. CASE UploadReset(k)
  <2> DEFINE s == Head(upload[k].todo).seq
  <2>1. /\ upload[k].todo # <<>>
        /\ nextSend' = [nextSend EXCEPT ![Relay] = s + 1]
        /\ sendBase' = [sendBase EXCEPT ![Relay] = s + 1]
        /\ upload' = [upload EXCEPT ![k] = Stopped(k, "failed")]
        /\ resetDone' = TRUE
        /\ UNCHANGED <<closeSeq, closed, recvVars, taken, OtherClient, present, life, dispatched,
                       stray, faultVars>>
    BY <1>2 DEF UploadReset, Readable
  <2>2. SendOK'
    <3>1. s \in Nat
      BY <2>1, HeadUpload
    <3> HIDE DEF s
    <3>2. s + 1 \in Nat \ {0}
      BY <3>1
    <3>3. nextSend' \in [Ends -> Nat \ {0}] /\ sendBase' \in [Ends -> Nat \ {0}]
      BY <1>p, <2>1, <3>2 DEF SendOK
    <3>4. \A d \in Ends : sendBase'[d] <= nextSend'[d]
      BY <1>p, <2>1, <3>2 DEF SendOK
    <3> QED BY <1>p, <2>1, <3>3, <3>4 DEF SendOK
  <2>3. UploadOK'
    BY <1>p, <1>u, <1>s, <1>a, <2>1 DEF UploadOK, OtherClient
  <2>4. RelayOK'
    BY <1>p, <2>1 DEF RelayOK
  <2> QED BY <1>p, <2>1, <2>2, <2>3, <2>4, PartsUnchanged, ShapePartsNext DEF OtherClient
<1>3. CASE UploadData(k)
  <2>1. /\ upload[k].todo # <<>> /\ Receive(Relay, Head(upload[k].todo))
        /\ upload' = [upload EXCEPT ![k] = UploadTail(k)]
        /\ UNCHANGED <<sendVars, closed, taken, OtherClient, relayVars, faultVars>>
    BY <1>3 DEF UploadData, Readable
  <2>2. RecvOK'
    BY <2>1, HeadUpload, ReceiveRecv, ConstantTypes
  <2>3. UploadOK'
    BY <1>p, <1>u, <2>1, RestTypes DEF UploadOK, OtherClient
  <2> QED BY <1>p, <2>1, <2>2, <2>3, PartsUnchanged, ShapePartsNext DEF OtherClient, relayVars
<1>4. CASE UploadTooFar(k)
  <2>1. /\ upload' = [upload EXCEPT ![k] = Stopped(k, "sent")] /\ EndWaiting
        /\ closed' = [closed EXCEPT ![Relay] = TRUE]
        /\ UNCHANGED <<sendVars, recvVars, taken, nextClaim, pipelined, warmups, confirmed,
                       relayVars, faultVars>>
    BY <1>4 DEF UploadTooFar
  <2>2. SendOK'
    BY <1>p, <2>1 DEF SendOK, sendVars
  <2>3. UploadOK'
    BY <1>p, <1>u, <1>s, <1>a, <2>1 DEF UploadOK
  <2>4. DownloadOK'
    BY <1>p, <2>1, RestTypes DEF DownloadOK
  <2> QED BY <1>p, <2>1, <2>2, <2>3, <2>4, PartsUnchanged, ShapePartsNext DEF relayVars
<1>5. CASE UploadIgnored(k)
  <2>1. /\ upload' = [upload EXCEPT ![k] = Stopped(k, "sent")]
        /\ UNCHANGED <<sendVars, closed, recvVars, taken, OtherClient, relayVars, faultVars>>
    BY <1>5 DEF UploadIgnored
  <2>2. UploadOK'
    BY <1>p, <1>u, <1>s, <1>a, <2>1 DEF UploadOK, OtherClient
  <2> QED BY <1>p, <2>1, <2>2, PartsUnchanged, ShapePartsNext DEF OtherClient, relayVars
<1>6. CASE UploadSucceeds(k)
  <2>1. /\ upload' = [upload EXCEPT ![k] = NoUpload] /\ pipelined' = TRUE
        /\ warmups' \in {warmups, UploadPipeline - 1}
        /\ UNCHANGED <<sendVars, closed, recvVars, taken, nextClaim, download, confirmed,
                       relayVars, faultVars>>
    BY <1>6 DEF UploadSucceeds
  <2>2. warmups' \in Nat
    BY <1>p, <2>1, ConstantTypes DEF UploadOK
  <2>3. UploadOK'
    BY <1>p, <1>u, <2>1, <2>2, NothingTypes DEF UploadOK
  <2> QED BY <1>p, <2>1, <2>3, PartsUnchanged, ShapePartsNext DEF relayVars
<1>r. ASSUME Rewind(k) PROVE nextClaim' \in Nat \ {0}
  <2>1. upload[k].first \in Nat /\ nextClaim \in Nat \ {0}
    BY <1>p, <1>u DEF UploadOK, UploadType
  <2> QED BY <1>r, <2>1 DEF Rewind
<1>7. CASE UploadFails(k)
  <2>1. /\ upload' = [upload EXCEPT ![k] = NoUpload] /\ Rewind(k)
        /\ UNCHANGED <<sendVars, closed, recvVars, taken, pipelined, warmups, download, confirmed,
                       relayVars, faultVars>>
    BY <1>7 DEF UploadFails
  <2>2. UploadOK'
    BY <1>p, <1>u, <1>r, <2>1, NothingTypes DEF UploadOK
  <2> QED BY <1>p, <2>1, <2>2, PartsUnchanged, ShapePartsNext DEF relayVars
<1>l. ASSUME losses < plan.loss, losses' = losses + 1, UNCHANGED <<stray, restarts, plan>> PROVE FaultOK'
  <2>1. plan.loss \in 0..MaxLoss /\ MaxLoss \in Nat
    BY PlanTypes, ConstantTypes
  <2> QED BY <1>p, <1>l, <2>1 DEF FaultOK
<1>8. CASE LoseUpload(k)
  <2> DEFINE v == IF upload[k].todo = <<>> THEN NoUpload ELSE [upload[k] EXCEPT !.st = "late"]
  <2>1. /\ upload' = [upload EXCEPT ![k] = NoUpload] \/ upload' = [upload EXCEPT ![k] = v]
        /\ Rewind(k) /\ losses < plan.loss /\ losses' = losses + 1
        /\ UNCHANGED <<sendVars, closed, recvVars, taken, pipelined, warmups, download, confirmed,
                       relayVars, restarts, plan>>
    BY <1>8, <1>u DEF LoseUpload
  <2>2. v \in UploadType
    BY <1>u, <1>a, NothingTypes DEF UploadType
  <2> HIDE DEF v
  <2>3. UploadOK'
    BY <1>p, <1>u, <1>r, <2>1, <2>2, NothingTypes DEF UploadOK
  <2>4. FaultOK'
    BY <1>l, <2>1 DEF relayVars
  <2> QED BY <1>p, <2>1, <2>3, <2>4, PartsUnchanged, ShapePartsNext DEF relayVars
<1>9. CASE TruncateUpload(k)
  <2>1. /\ upload' = [upload EXCEPT ![k].todo = <<>>] /\ losses < plan.loss /\ losses' = losses + 1
        /\ UNCHANGED <<sendVars, closed, recvVars, taken, OtherClient, relayVars, restarts, plan>>
    BY <1>9 DEF TruncateUpload
  <2>2. upload' \in [Uploads -> UploadType]
    BY <1>u, <2>1, NothingTypes DEF UploadType
  <2>3. UploadOK'
    BY <1>p, <2>1, <2>2 DEF UploadOK, OtherClient
  <2>4. FaultOK'
    BY <1>l, <2>1 DEF relayVars
  <2> QED BY <1>p, <2>1, <2>3, <2>4, PartsUnchanged, ShapePartsNext DEF OtherClient, relayVars
<1> QED BY <1>1, <1>2, <1>3, <1>4, <1>5, <1>6, <1>7, <1>8, <1>9 DEF Upload

LEMMA AnswerType ==
    ASSUME Shape, NEW lo \in Nat
    PROVE  [st |-> "answered", todo |-> Answer(lo)] \in DownloadType
<1>1. recvNext[Relay] - 1 \in Nat /\ nextSend[Relay] - 1 \in Nat
  BY CounterTypes, ConstantTypes
<1>2. Answer(lo) \in Seq(RecordType)
  BY <1>1, BatchType DEF Answer
<1>3. Answer(lo) # <<>>
  <2>1. \A s \in lo..(nextSend[Relay] - 1) : Record(Relay, s) \in RecordType
    <3> TAKE s \in lo..(nextSend[Relay] - 1)
    <3>1. s \in Nat /\ life \in Nat
      BY <1>1, TypesAtHand
    <3> QED BY <3>1, RecordTypes
  <2>2. AckRecord(recvNext[Relay] - 1) \in RecordType
    BY <1>1, RecordTypes
  <2> QED BY <1>1, <2>1, <2>2, BatchIs DEF Answer
<1> QED BY <1>2, <1>3 DEF DownloadType, DownloadStates

LEMMA ClaimTypes ==
    ASSUME Shape, NEW after \in Nat
    PROVE  /\ ClaimFrom(after) \in Nat
           /\ Claim(after) => dispatched' \in Nat
<1>1. sendBase[Relay] \in Nat /\ nextSend[Relay] \in Nat \ {0} /\ dispatched \in Nat
  BY TypesAtHand, ConstantTypes
<1> QED BY <1>1 DEF ClaimFrom, Claim

LEMMA DownloadTypes ==
    ASSUME Shape, NEW i \in Downloads,
           Get(i) \/ Download(i) \/ ServeResend(i) \/ LoseDownload(i)
    PROVE  Shape'
<1>p. SendOK /\ RecvOK /\ UploadOK /\ DownloadOK /\ RelayOK /\ FaultOK
  BY ShapeParts
<1>d. /\ download \in [Downloads -> DownloadType] /\ NoDownload \in DownloadType
      /\ \A v \in DownloadType : [download EXCEPT ![i] = v] \in [Downloads -> DownloadType]
  BY <1>p, NothingTypes DEF DownloadOK
<1>n. /\ dispatched \in Nat /\ sendBase[Relay] \in Nat /\ sendBase[Relay] - 1 \in Nat
      /\ recvNext[Client] - 1 \in Nat /\ recvNext[Relay] - 1 \in Nat
  BY TypesAtHand, CounterTypes, ConstantTypes
<1>1. CASE Get(i)
  <2>1. /\ download' = [download EXCEPT ![i].st = "waiting"] /\ Arrive(recvNext[Client] - 1)
        /\ UNCHANGED <<OtherUp, faultVars>>
    BY <1>1 DEF Get
  <2>2. SendOK' /\ RecvOK' /\ RelayOK' /\ FaultOK'
    BY <1>n, <2>1, ArriveParts
  <2>3. download' \in [Downloads -> DownloadType]
    <3>1. [download[i] EXCEPT !.st = "waiting"] \in DownloadType
      BY <1>d DEF DownloadType, DownloadStates
    <3>2. download' = [download EXCEPT ![i] = [download[i] EXCEPT !.st = "waiting"]]
      BY <1>d, <2>1 DEF DownloadType
    <3> QED BY <1>d, <3>1, <3>2
  <2>4. DownloadOK'
    BY <1>p, <2>1, <2>3 DEF DownloadOK, OtherUp
  <2> QED BY <1>p, <2>1, <2>2, <2>4, PartsUnchanged, ShapePartsNext DEF OtherUp
<1>2. ASSUME NEW after \in Nat, Claim(after),
             download' = [download EXCEPT ![i] = [st |-> "answered", todo |-> Answer(ClaimFrom(after))]],
             UNCHANGED <<sendVars, closed, recvVars, taken, OtherUp, OtherRelay, stray, faultVars>>
      PROVE  Shape'
  <2>1. [st |-> "answered", todo |-> Answer(ClaimFrom(after))] \in DownloadType
    BY <1>2, ClaimTypes, AnswerType
  <2>2. DownloadOK'
    BY <1>p, <1>d, <1>2, <2>1 DEF DownloadOK, OtherUp
  <2>3. RelayOK'
    BY <1>p, <1>2, ClaimTypes DEF RelayOK, OtherRelay
  <2> QED BY <1>p, <1>2, <2>2, <2>3, PartsUnchanged, ShapePartsNext DEF OtherUp
<1>3. CASE ServeDownload(i)
  BY <1>n, <1>2, <1>3 DEF ServeDownload
<1>4. CASE ServeResend(i)
  BY <1>n, <1>2, <1>4 DEF ServeResend
<1>5. CASE ServeAck(i)
  <2>1. /\ download' = [download EXCEPT ![i] = NoDownload] /\ Trim(Client, recvNext[Relay] - 1)
        /\ confirmed' = TRUE
        /\ UNCHANGED <<nextSend, closeSeq, closed, recvVars, taken, upload, nextClaim, pipelined,
                       warmups, relayVars, faultVars>>
    BY <1>5 DEF ServeAck
  <2>2. SendOK'
    BY <1>p, <1>n, <2>1, TrimSend, ConstantTypes
  <2>3. DownloadOK'
    BY <1>d, <2>1 DEF DownloadOK
  <2> QED BY <1>p, <2>1, <2>2, <2>3, PartsUnchanged, ShapePartsNext DEF relayVars
<1>6. CASE ServeClosed(i)
  <2>1. /\ download' = [download EXCEPT ![i] = [st |-> "answered", todo |-> Remaining]]
        /\ UNCHANGED <<sendVars, closed, recvVars, taken, OtherUp, relayVars, faultVars>>
    BY <1>6 DEF ServeClosed
  <2>2. [st |-> "answered", todo |-> Remaining] \in DownloadType
    BY <1>n, AnswerType DEF Remaining
  <2>3. DownloadOK'
    BY <1>p, <1>d, <2>1, <2>2 DEF DownloadOK, OtherUp
  <2> QED BY <1>p, <2>1, <2>3, PartsUnchanged, ShapePartsNext DEF relayVars, OtherUp
<1>f. Fetched(i) => /\ download[i].todo # <<>> /\ Head(download[i].todo) \in RecordType
                    /\ Head(download[i].todo).seq \in Nat /\ DownloadTail(i) \in DownloadType
  BY HeadDownload, RestTypes DEF Shape
<1>7. CASE DownloadAck(i)
  <2> DEFINE a == Head(download[i].todo).seq
  <2>1. /\ Fetched(i) /\ Trim(Client, a)
        /\ \E v \in {NoDownload, DownloadTail(i)} : download' = [download EXCEPT ![i] = v]
        /\ confirmed' = TRUE
        /\ UNCHANGED <<nextSend, closeSeq, closed, recvVars, taken, upload, nextClaim, pipelined,
                       warmups, relayVars, faultVars>>
    BY <1>7 DEF DownloadAck
  <2>2. SendOK'
    BY <1>p, <1>f, <2>1, TrimSend, ConstantTypes
  <2>3. DownloadOK'
    BY <1>d, <1>f, <2>1 DEF DownloadOK
  <2> QED BY <1>p, <2>1, <2>2, <2>3, PartsUnchanged, ShapePartsNext DEF relayVars
<1>8. CASE DownloadData(i)
  <2>1. /\ Fetched(i) /\ Receive(Client, Head(download[i].todo))
        /\ download' = [download EXCEPT ![i] = DownloadTail(i)]
        /\ UNCHANGED <<sendVars, closed, taken, OtherUp, relayVars, faultVars>>
    BY <1>8 DEF DownloadData
  <2>2. RecvOK'
    BY <1>f, <2>1, ReceiveRecv, ConstantTypes
  <2>3. DownloadOK'
    BY <1>p, <1>d, <1>f, <2>1 DEF DownloadOK, OtherUp
  <2> QED BY <1>p, <2>1, <2>2, <2>3, PartsUnchanged, ShapePartsNext DEF relayVars, OtherUp
<1>9. CASE DownloadTooFar(i)
  <2>1. /\ download' = [download EXCEPT ![i] = NoDownload]
        /\ UNCHANGED <<sendVars, closed, recvVars, taken, OtherUp, relayVars, faultVars>>
    BY <1>9 DEF DownloadTooFar
  <2>2. DownloadOK'
    BY <1>p, <1>d, <2>1 DEF DownloadOK, OtherUp
  <2> QED BY <1>p, <2>1, <2>2, PartsUnchanged, ShapePartsNext DEF relayVars, OtherUp
<1>10. CASE LoseDownload(i)
  <2>1. /\ download' = [download EXCEPT ![i] = NoDownload]
        /\ stray' \in {stray, stray + 1} /\ losses < plan.loss /\ losses' = losses + 1
        /\ UNCHANGED <<sendVars, closed, recvVars, taken, OtherUp, present, life, dispatched,
                       resetDone, restarts, plan>>
    BY <1>10 DEF LoseDownload
  <2>2. DownloadOK'
    BY <1>p, <1>d, <2>1 DEF DownloadOK, OtherUp
  <2>3. FaultOK'
    <3>1. plan.loss \in 0..MaxLoss /\ MaxLoss \in Nat
      BY PlanTypes, ConstantTypes
    <3> QED BY <1>p, <2>1, <3>1 DEF FaultOK
  <2> QED BY <1>p, <2>1, <2>2, <2>3, PartsUnchanged, ShapePartsNext DEF OtherUp
<1> QED BY <1>1, <1>3, <1>4, <1>5, <1>6, <1>7, <1>8, <1>9, <1>10 DEF Download

LEMMA RelayTypes ==
    ASSUME Shape, ResendUnacknowledged \/ ServeStray \/ Sweep \/ Restart
    PROVE  Shape'
<1>p. SendOK /\ RecvOK /\ UploadOK /\ DownloadOK /\ RelayOK /\ FaultOK
  BY ShapeParts
<1>1. CASE ResendUnacknowledged
  <2>1. /\ nextClaim' = sendBase[Client]
        /\ UNCHANGED <<sendVars, closed, recvVars, taken, upload, pipelined, warmups, download,
                       confirmed, relayVars, faultVars>>
    BY <1>1 DEF ResendUnacknowledged
  <2>2. UploadOK'
    BY <1>p, <2>1, ConstantTypes DEF UploadOK, SendOK
  <2> QED BY <1>p, <2>1, <2>2, PartsUnchanged, ShapePartsNext DEF relayVars
<1>2. CASE ServeStray
  <2>1. /\ Claim(dispatched) /\ stray > 0 /\ stray' = stray - 1
        /\ UNCHANGED <<sendVars, closed, recvVars, taken, clientVars, OtherRelay, faultVars>>
    BY <1>2 DEF ServeStray
  <2>2. RelayOK'
    BY <1>p, <2>1, TypesAtHand, ClaimTypes DEF RelayOK, OtherRelay
  <2>3. FaultOK'
    BY <1>p, <2>1, ConstantTypes DEF FaultOK, faultVars
  <2> QED BY <1>p, <2>1, <2>2, <2>3, PartsUnchanged, ShapePartsNext DEF clientVars
<1>3. ASSUME NEW st \in {"sent", "failed"}, Forget(st), UNCHANGED <<losses, plan>>, restarts' \in Nat
      PROVE  Shape'
  <2>1. upload' \in [Uploads -> UploadType]
    <3>1. upload' = [k \in Uploads |->
                       IF upload[k].st = "sent" /\ upload[k].todo # <<>> THEN Stopped(k, st)
                       ELSE IF upload[k].st = "late" THEN NoUpload ELSE upload[k]]
      BY <1>3 DEF Forget
    <3>2. \A k \in Uploads : Stopped(k, st) \in UploadType /\ upload[k] \in UploadType
      BY <1>p, RestTypes DEF UploadOK, UploadStates
    <3> QED BY <3>1, <3>2, NothingTypes
  <2>2. download' \in [Downloads -> DownloadType]
    <3>1. download' = [i \in Downloads |-> IF download[i].st = "waiting" THEN NoDownload
                                           ELSE download[i]]
      BY <1>3 DEF Forget
    <3> QED BY <1>p, <3>1, NothingTypes DEF DownloadOK
  <2>3. /\ present' = FALSE /\ stray' = 0
        /\ UNCHANGED <<sendVars, closed, recvVars, taken, nextClaim, pipelined, warmups, confirmed,
                       life, dispatched, resetDone>>
    BY <1>3 DEF Forget
  <2>4. UploadOK' /\ DownloadOK' /\ RelayOK'
    BY <1>p, <2>1, <2>2, <2>3 DEF UploadOK, DownloadOK, RelayOK
  <2>5. FaultOK'
    BY <1>p, <1>3, <2>3, ConstantTypes DEF FaultOK
  <2> QED BY <1>p, <2>3, <2>4, <2>5, PartsUnchanged, ShapePartsNext
<1>r. restarts \in Nat /\ restarts + 1 \in Nat
  BY <1>p DEF FaultOK
<1>4. CASE Sweep
  BY <1>3, <1>4, <1>r DEF Sweep, faultVars
<1>5. CASE Restart
  BY <1>3, <1>5, <1>r DEF Restart
<1> QED BY <1>1, <1>2, <1>4, <1>5

LEMMA ShapeInit == Init => Shape
<1> SUFFICES ASSUME Init PROVE Shape
  OBVIOUS
<1>1. SendOK
  <2>1. nextSend = [e \in Ends |-> 1] /\ sendBase = [e \in Ends |-> 1]
    BY DEF Init
  <2>2. nextSend \in [Ends -> Nat \ {0}]
    BY <2>1
  <2>3. sendBase \in [Ends -> Nat \ {0}] /\ \A e \in Ends : sendBase[e] <= nextSend[e]
    BY <2>1
  <2>4. closeSeq \in [Ends -> Nat] /\ closed \in [Ends -> BOOLEAN]
    BY DEF Init
  <2> QED BY <2>2, <2>3, <2>4 DEF SendOK
<1>3. UploadOK /\ DownloadOK
  <2>1. upload \in [Uploads -> UploadType] /\ download \in [Downloads -> DownloadType]
    BY NothingTypes DEF Init
  <2>2. nextClaim \in Nat \ {0} /\ warmups \in Nat
    BY DEF Init
  <2>3. pipelined \in BOOLEAN /\ confirmed \in BOOLEAN
    BY DEF Init
  <2> QED BY <2>1, <2>2, <2>3 DEF UploadOK, DownloadOK
<1>4. RelayOK
  <2>1. life \in 0..MaxLives /\ dispatched \in Nat
    BY ConstantTypes DEF Init
  <2>2. present \in BOOLEAN /\ resetDone \in BOOLEAN
    BY DEF Init
  <2> QED BY <2>1, <2>2 DEF RelayOK
<1>5. FaultOK
  BY ConstantTypes DEF Init, FaultOK
<1>2. RecvOK
  <2>1. Cardinality({}) = 0 /\ IsFiniteSet({})
    BY FS_EmptySet
  <2> QED BY <2>1, NothingTypes, ConstantTypes DEF Init, RecvOK
<1> QED BY <1>1, <1>2, <1>3, <1>4, <1>5, ShapeParts

LEMMA ShapeStep == Shape /\ [Next]_vars => Shape'
<1> SUFFICES ASSUME Shape, [Next]_vars PROVE Shape'
  OBVIOUS
<1>1. CASE UNCHANGED vars
  <2>1. SendOK /\ RecvOK /\ UploadOK /\ DownloadOK /\ RelayOK /\ FaultOK
    BY ShapeParts
  <2> QED BY <1>1, <2>1, PartsUnchanged, ShapePartsNext DEF vars, clientVars, relayVars
<1> QED BY <1>1, UserTypes, PostTypes, UploadTypes, DownloadTypes, RelayTypes DEF Next

\* The types are kept, whatever the limits and the plan.
THEOREM HTTPStreamTypeCorrect == Spec => []TypeOK
<1>1. Spec => []Shape
  BY ShapeInit, ShapeStep, PTL DEF Spec
<1>2. Shape => TypeOK
  BY DEF Shape
<1> QED BY <1>1, <1>2, PTL

-----------------------------------------------------------------------------
(* The first life.  A step is described by what is carried and received     *)
(* after it, in terms of what had been sent before it.                     *)

CarriedAfter ==
    /\ \A k \in Uploads : upload'[k].todo \in Seq(SoundFrom(Client))
    /\ \A i \in Downloads : download'[i].todo \in Seq(SoundFrom(Relay))
HeldAfter == \A e \in Ends : recvAhead'[e] \subseteq MessagesFrom(Peer[e])
ReceivedAfter ==
    \A e \in Ends : /\ recvNext'[e] >= recvNext[e] /\ recvNext'[e] <= nextSend[Peer[e]]
                    /\ got'[e] = Records(Peer[e], 1, recvNext'[e] - 1)
ReadAfter == \A e \in Ends : taken'[e] < recvNext'[e]
FreedAfter == \A e \in Ends : sendBase'[e] <= recvNext'[Peer[e]]
\* An end writes at most one record, and none after its close.
SentAfter ==
    \A e \in Ends : \/ nextSend'[e] = nextSend[e] /\ closeSeq'[e] = closeSeq[e]
                    \/ /\ nextSend'[e] = nextSend[e] + 1 /\ closeSeq[e] = 0
                       /\ \/ closeSeq'[e] = 0 /\ nextSend[e] <= plan.write[e]
                          \/ closeSeq'[e] = nextSend[e]
LifeAfter == plan' = plan /\ (life' = life \/ life = 0) /\ Pristine'
Effects ==
    CarriedAfter /\ HeldAfter /\ ReceivedAfter /\ ReadAfter /\ FreedAfter /\ SentAfter /\ LifeAfter

\* What was written stays as it was written.
LEMMA RecordsStay ==
    ASSUME Shape, FirstLife, SentAfter, LifeAfter, NEW e \in Ends, NEW s \in 1..(nextSend[e] - 1)
    PROVE  Record(e, s)' = Record(e, s)
<1>1. nextSend[e] \in Nat /\ closeSeq[e] \in Nat
  BY CounterTypes, TypesAtHand
<1>2. (s = closeSeq'[e]) <=> (s = closeSeq[e])
  BY <1>1 DEF SentAfter
<1>3. e = Client \/ life' = life
  <2>1. CASE life = 0 /\ e = Relay
    <3>1. nextSend[e] = 1
      BY <2>1 DEF FirstLife, Pristine
    <3> QED BY <3>1
  <2> QED BY <2>1, ConstantTypes DEF LifeAfter
<1> QED BY <1>2, <1>3 DEF Record

LEMMA SoundStays ==
    ASSUME Shape, Shape', FirstLife, SentAfter, LifeAfter, ReceivedAfter, NEW e \in Ends
    PROVE  SoundFrom(e) \subseteq SoundFrom(e)' /\ MessagesFrom(e) \subseteq MessagesFrom(e)'
<1>1. /\ nextSend[e] \in Nat /\ nextSend'[e] \in Nat /\ recvNext[e] \in Nat /\ recvNext'[e] \in Nat
      /\ nextSend'[e] >= nextSend[e] /\ recvNext'[e] >= recvNext[e]
  <2>1. nextSend[e] \in Nat /\ recvNext[e] \in Nat
    BY CounterTypes
  <2>2. nextSend' \in [Ends -> Nat \ {0}] /\ recvNext' \in [Ends -> Nat \ {0}]
    BY DEF Shape, TypeOK
  <2>3. nextSend'[e] >= nextSend[e] /\ recvNext'[e] >= recvNext[e]
    BY <2>1 DEF SentAfter, ReceivedAfter
  <2> QED BY <2>1, <2>2, <2>3
<1>2. ASSUME NEW r \in SoundFrom(e) PROVE r \in SoundFrom(e)'
  <2>1. r \in RecordType /\ r.seq \in Nat
    BY RecordTypes DEF SoundFrom
  <2>2. CASE r.kind = "ack"
    <3>1. r.seq < recvNext'[e]
      BY <1>1, <2>1, <2>2 DEF SoundFrom
    <3> QED BY <2>1, <2>2, <3>1 DEF SoundFrom
  <2>3. CASE r.kind # "ack"
    <3>1. r.seq \in 1..(nextSend[e] - 1) /\ r = Record(e, r.seq)
      BY <2>3 DEF SoundFrom
    <3>2. \A s \in 1..(nextSend[e] - 1) : Record(e, s)' = Record(e, s)
      BY RecordsStay
    <3>3. r.seq \in 1..(nextSend'[e] - 1)
      BY <1>1, <3>1
    <3>4. r = [kind |-> IF r.seq = closeSeq'[e] THEN "close" ELSE "data", seq |-> r.seq,
               life |-> IF e = Client THEN 0 ELSE life']
      BY <3>1, <3>2 DEF Record
    <3> QED BY <2>1, <2>3, <3>3, <3>4 DEF SoundFrom, Record
  <2> QED BY <2>2, <2>3
<1> QED BY <1>2 DEF MessagesFrom

LEMMA EffectsKeep ==
    ASSUME Shape, Shape', FirstLife, Effects
    PROVE  FirstLife'
<1> USE DEF Effects
<1>1. CarriedSound'
  <2>1. \A e \in Ends : SoundFrom(e) \subseteq SoundFrom(e)' /\ MessagesFrom(e) \subseteq MessagesFrom(e)'
    BY SoundStays
  <2>c. SoundFrom(Client) \subseteq SoundFrom(Client)' /\ SoundFrom(Relay) \subseteq SoundFrom(Relay)'
    BY <2>1, ConstantTypes
  <2>2. \A k \in Uploads : upload'[k].todo \in Seq(SoundFrom(Client)')
    BY <2>c, SeqMono DEF CarriedAfter
  <2>3. \A i \in Downloads : download'[i].todo \in Seq(SoundFrom(Relay)')
    BY <2>c, SeqMono DEF CarriedAfter
  <2>4. \A e \in Ends : recvAhead'[e] \subseteq MessagesFrom(Peer[e])'
    <3> TAKE e \in Ends
    <3>1. PICK p \in Ends : p = Peer[e]
      BY ConstantTypes
    <3>2. recvAhead'[e] \subseteq MessagesFrom(p)'
      BY <2>1, <3>1 DEF HeldAfter
    <3> QED BY <3>1, <3>2
  <2> QED BY <2>2, <2>3, <2>4 DEF CarriedSound
<1>2. ReceivedSound'
  <2> SUFFICES ASSUME NEW e \in Ends
               PROVE  (/\ recvNext[e] <= nextSend[Peer[e]]
                       /\ got[e] = Records(Peer[e], 1, recvNext[e] - 1)
                       /\ taken[e] < recvNext[e] /\ sendBase[e] <= recvNext[Peer[e]])'
    BY DEF ReceivedSound
  <2>0. PICK p \in Ends : p = Peer[e]
    BY ConstantTypes
  <2>n. recvNext'[e] \in Nat \ {0} /\ nextSend[p] \in Nat /\ nextSend'[p] \in Nat
    <3>1. nextSend' \in [Ends -> Nat \ {0}] /\ recvNext' \in [Ends -> Nat \ {0}]
      BY DEF Shape, TypeOK
    <3> QED BY <3>1, CounterTypes
  <2>1. recvNext'[e] <= nextSend'[p]
    BY <2>0, <2>n DEF ReceivedAfter, SentAfter
  <2>2. taken'[e] < recvNext'[e] /\ sendBase'[e] <= recvNext'[p]
    BY <2>0 DEF ReadAfter, FreedAfter
  <2>3. got'[e] = Records(p, 1, recvNext'[e] - 1)
    BY <2>0 DEF ReceivedAfter
  <2>4. \A i \in 1..(((recvNext'[e] - 1) + 1) - 1) : Record(p, (1 - 1) + i) = Record(p, (1 - 1) + i)'
    <3> TAKE i \in 1..(((recvNext'[e] - 1) + 1) - 1)
    <3>1. i \in 1..(nextSend[p] - 1) /\ (1 - 1) + i = i
      BY <2>0, <2>n DEF ReceivedAfter
    <3> QED BY <3>1, RecordsStay
  <2>5. got'[e] = [i \in 1..(((recvNext'[e] - 1) + 1) - 1) |-> Record(p, (1 - 1) + i)']
    BY <2>3, <2>4 DEF Records
  <2> QED BY <2>0, <2>1, <2>2, <2>5 DEF Records
<1>3. CloseIsLast'
  <2>1. ASSUME NEW e \in Ends
        PROVE  IF closeSeq'[e] = 0 THEN nextSend'[e] <= plan'.write[e] + 1
               ELSE nextSend'[e] = closeSeq'[e] + 1 /\ closeSeq'[e] <= plan'.write[e] + 1
    <3>1. nextSend[e] \in Nat /\ nextSend[e] > 0 /\ closeSeq[e] \in Nat /\ plan.write[e] \in Nat
      <4>1. nextSend[e] \in Nat /\ nextSend[e] > 0
        BY CounterTypes
      <4>2. closeSeq[e] \in Nat
        BY TypesAtHand
      <4>3. plan.write[e] \in Nat
        BY PlanTypes, ConstantTypes
      <4> QED BY <4>1, <4>2, <4>3
    <3>2. IF closeSeq[e] = 0 THEN nextSend[e] <= plan.write[e] + 1
          ELSE nextSend[e] = closeSeq[e] + 1 /\ closeSeq[e] <= plan.write[e] + 1
      BY DEF FirstLife, CloseIsLast
    <3>3. plan' = plan
      BY DEF LifeAfter
    <3> QED BY <3>1, <3>2, <3>3 DEF SentAfter
  <2> QED BY <2>1 DEF CloseIsLast
<1>4. Pristine'
  BY DEF LifeAfter
<1> QED BY <1>1, <1>2, <1>3, <1>4 DEF FirstLife

\* What a step leaves alone stays sound.
LEMMA Stays ==
    ASSUME Shape, Shape', FirstLife
    PROVE  /\ UNCHANGED <<upload, download>> => CarriedAfter
           /\ UNCHANGED recvAhead => HeldAfter
           /\ UNCHANGED <<recvNext, got>> => ReceivedAfter
           /\ ReceivedAfter /\ UNCHANGED taken => ReadAfter
           /\ ReceivedAfter /\ UNCHANGED sendBase => FreedAfter
           /\ UNCHANGED <<nextSend, closeSeq>> => SentAfter
           /\ present /\ UNCHANGED <<plan, life>> => LifeAfter
           /\ UNCHANGED <<plan, life>> /\ (present' => present)
              /\ UNCHANGED <<nextSend[Relay], closeSeq[Relay], closed[Relay], recvNext[Relay],
                             got[Relay], taken[Relay]>> => LifeAfter
<1>1. UNCHANGED <<upload, download>> => CarriedAfter
  BY DEF CarriedAfter, FirstLife, CarriedSound
<1>2. UNCHANGED recvAhead => HeldAfter
  BY DEF HeldAfter, FirstLife, CarriedSound
<1>3. ASSUME UNCHANGED <<recvNext, got>> PROVE ReceivedAfter
  <2> SUFFICES ASSUME NEW e \in Ends
               PROVE  /\ recvNext[e] >= recvNext[e] /\ recvNext[e] <= nextSend[Peer[e]]
                      /\ got[e] = Records(Peer[e], 1, recvNext[e] - 1)
    BY <1>3 DEF ReceivedAfter
  <2> QED BY CounterTypes DEF FirstLife, ReceivedSound
<1>n. \A e \in Ends : recvNext[e] \in Nat /\ recvNext'[e] \in Nat /\ taken[e] \in Nat /\ sendBase[e] \in Nat
  BY CounterTypes, TypesAtHand DEF Shape, TypeOK
<1>4. ASSUME ReceivedAfter, UNCHANGED taken PROVE ReadAfter
  <2> SUFFICES ASSUME NEW e \in Ends PROVE taken[e] < recvNext'[e]
    BY <1>4 DEF ReadAfter
  <2>1. taken[e] < recvNext[e] /\ recvNext'[e] >= recvNext[e]
    BY <1>4 DEF FirstLife, ReceivedSound, ReceivedAfter
  <2> QED BY <1>n, <2>1
<1>5. ASSUME ReceivedAfter, UNCHANGED sendBase PROVE FreedAfter
  <2> SUFFICES ASSUME NEW e \in Ends PROVE sendBase[e] <= recvNext'[Peer[e]]
    BY <1>5 DEF FreedAfter
  <2>0. Peer[e] \in Ends
    BY ConstantTypes
  <2>1. sendBase[e] <= recvNext[Peer[e]] /\ recvNext'[Peer[e]] >= recvNext[Peer[e]]
    BY <1>5, <2>0 DEF FirstLife, ReceivedSound, ReceivedAfter
  <2> QED BY <1>n, <2>0, <2>1
<1>6. UNCHANGED <<nextSend, closeSeq>> => SentAfter
  BY DEF SentAfter
<1>7. present /\ UNCHANGED <<plan, life>> => LifeAfter
  BY DEF LifeAfter, FirstLife, Pristine
<1>8. ASSUME UNCHANGED <<plan, life>>, (present' => present),
             UNCHANGED <<nextSend[Relay], closeSeq[Relay], closed[Relay], recvNext[Relay],
                         got[Relay], taken[Relay]>>
      PROVE  LifeAfter
  <2>1. ASSUME life = 0
        PROVE  /\ ~present' /\ nextSend'[Relay] = 1 /\ closeSeq'[Relay] = 0 /\ ~closed'[Relay]
               /\ recvNext'[Relay] = 1 /\ got'[Relay] = <<>> /\ taken'[Relay] = 0
    <3>1. /\ ~present /\ nextSend[Relay] = 1 /\ closeSeq[Relay] = 0 /\ ~closed[Relay]
          /\ recvNext[Relay] = 1 /\ got[Relay] = <<>> /\ taken[Relay] = 0
      BY <2>1 DEF FirstLife, Pristine
    <3>2. closed'[Relay] = closed[Relay]
      BY <1>8
    <3> QED BY <1>8, <3>1, <3>2
  <2> QED BY <1>8, <2>1 DEF LifeAfter, Pristine
<1> QED BY <1>1, <1>2, <1>3, <1>4, <1>5, <1>6, <1>7, <1>8

\* Taking out, or dropping, what is carried; a batch of what has been sent.
LEMMA CarriedMoves ==
    ASSUME Shape, FirstLife
    PROVE  /\ (\A k \in Uploads : upload'[k].todo \in {upload[k].todo, <<>>})
              => \A k \in Uploads : upload'[k].todo \in Seq(SoundFrom(Client))
           /\ (\A i \in Downloads : download'[i].todo \in {download[i].todo, <<>>})
              => \A i \in Downloads : download'[i].todo \in Seq(SoundFrom(Relay))
           /\ \A k \in Uploads : \A v :
                 v.todo \in Seq(SoundFrom(Client)) /\ upload' = [upload EXCEPT ![k] = v]
                 => \A j \in Uploads : upload'[j].todo \in Seq(SoundFrom(Client))
           /\ \A i \in Downloads : \A v :
                 v.todo \in Seq(SoundFrom(Relay)) /\ download' = [download EXCEPT ![i] = v]
                 => \A j \in Downloads : download'[j].todo \in Seq(SoundFrom(Relay))
           /\ \A k \in Uploads : upload[k].todo # <<>>
                 => /\ UploadTail(k).todo \in Seq(SoundFrom(Client))
                    /\ Head(upload[k].todo) \in SoundFrom(Client)
           /\ \A i \in Downloads : download[i].todo # <<>>
                 => /\ DownloadTail(i).todo \in Seq(SoundFrom(Relay))
                    /\ Head(download[i].todo) \in SoundFrom(Relay)
<1>u. /\ \A k \in Uploads : upload[k].todo \in Seq(SoundFrom(Client))
      /\ \A i \in Downloads : download[i].todo \in Seq(SoundFrom(Relay))
      /\ upload \in [Uploads -> UploadType] /\ download \in [Downloads -> DownloadType]
  BY TypesAtHand DEF FirstLife, CarriedSound
<1>e. \A S : <<>> \in Seq(S)
  OBVIOUS
<1> HIDE DEF FirstLife
<1>1. ASSUME NEW k \in Uploads, upload[k].todo # <<>>
      PROVE  UploadTail(k).todo \in Seq(SoundFrom(Client)) /\ Head(upload[k].todo) \in SoundFrom(Client)
  <2>1. Tail(upload[k].todo) \in Seq(SoundFrom(Client)) /\ Head(upload[k].todo) \in SoundFrom(Client)
    BY <1>u, <1>1, SeqOps
  <2>2. UploadTail(k).todo \in {<<>>, Tail(upload[k].todo)}
    BY <1>u DEF UploadTail, UploadType, NoUpload
  <2> QED BY <1>e, <2>1, <2>2
<1>2. ASSUME NEW i \in Downloads, download[i].todo # <<>>
      PROVE  DownloadTail(i).todo \in Seq(SoundFrom(Relay)) /\ Head(download[i].todo) \in SoundFrom(Relay)
  <2>1. Tail(download[i].todo) \in Seq(SoundFrom(Relay)) /\ Head(download[i].todo) \in SoundFrom(Relay)
    BY <1>u, <1>2, SeqOps
  <2>2. DownloadTail(i).todo \in {<<>>, Tail(download[i].todo)}
    BY <1>u DEF DownloadTail, DownloadType, NoDownload
  <2> QED BY <1>e, <2>1, <2>2
<1>3. \A k \in Uploads : \A v : v.todo \in Seq(SoundFrom(Client)) /\ upload' = [upload EXCEPT ![k] = v]
                 => \A j \in Uploads : upload'[j].todo \in Seq(SoundFrom(Client))
  BY <1>u
<1>4. \A i \in Downloads : \A v : v.todo \in Seq(SoundFrom(Relay)) /\ download' = [download EXCEPT ![i] = v]
                 => \A j \in Downloads : download'[j].todo \in Seq(SoundFrom(Relay))
  BY <1>u
<1> QED BY <1>u, <1>e, <1>1, <1>2, <1>3, <1>4

LEMMA BatchSound ==
    ASSUME Shape, NEW e \in Ends, NEW a \in Nat, a < recvNext[e],
           NEW lo \in Nat, lo > 0, NEW hi \in Nat, hi < nextSend[e]
    PROVE  Batch(e, a, lo, hi) \in Seq(SoundFrom(e))
<1>1. life \in Nat /\ nextSend[e] \in Nat
  BY TypesAtHand, CounterTypes
<1>2. ASSUME NEW s \in lo..hi PROVE Record(e, s) \in SoundFrom(e)
  <2>1. s \in Nat /\ s \in 1..(nextSend[e] - 1)
    BY <1>1
  <2>2. Record(e, s) \in RecordType /\ Record(e, s).kind # "ack" /\ Record(e, s).seq = s
    BY <1>1, <2>1, RecordTypes
  <2> QED BY <2>1, <2>2 DEF SoundFrom
<1>3. AckRecord(a) \in SoundFrom(e)
  <2>1. AckRecord(a) \in RecordType /\ AckRecord(a).kind = "ack" /\ AckRecord(a).seq = a
    BY RecordTypes
  <2> QED BY <2>1 DEF SoundFrom
<1> QED BY <1>2, <1>3, BatchIs

\* An acknowledgement of what has been received frees no more than that.
LEMMA TrimFrees ==
    ASSUME Shape, FirstLife, NEW e \in Ends, NEW a \in Nat, a < recvNext[Peer[e]], Trim(e, a),
           UNCHANGED recvNext
    PROVE  FreedAfter
<1> SUFFICES ASSUME NEW d \in Ends PROVE sendBase'[d] <= recvNext[Peer[d]]
  BY DEF FreedAfter
<1>1. Peer[e] \in Ends /\ Peer[d] \in Ends
  BY ConstantTypes
<1>2. sendBase[d] <= recvNext[Peer[d]] /\ recvNext[Peer[e]] \in Nat
  BY <1>1, CounterTypes DEF FirstLife, ReceivedSound
<1>3. sendBase \in [Ends -> Nat \ {0}]
  BY TypesAtHand
<1>4. sendBase'[d] = sendBase[d] \/ (d = e /\ sendBase'[d] = a + 1)
  BY <1>3 DEF Trim
<1> QED BY <1>2, <1>4

LEMMA ArriveEffects ==
    ASSUME Shape, Shape', FirstLife, life' <= 1, NEW a \in Nat, a < recvNext[Client], Arrive(a),
           UNCHANGED faultVars
    PROVE  HeldAfter /\ ReceivedAfter /\ ReadAfter /\ FreedAfter /\ SentAfter /\ LifeAfter
<1>1. CASE present
  <2>1. /\ Trim(Relay, a)
        /\ UNCHANGED <<nextSend, closeSeq, closed, recvVars, taken, relayVars>>
    BY <1>1 DEF Arrive
  <2>2. Peer[Relay] = Client
    BY ConstantTypes
  <2>3. FreedAfter
    BY <2>1, <2>2, TrimFrees, ConstantTypes DEF recvVars
  <2> QED BY <1>1, <2>1, <2>3, Stays DEF recvVars, relayVars, faultVars
<1>2. CASE ~present
  <2>1. /\ present' = TRUE /\ life' = life + 1
        /\ nextSend' = [nextSend EXCEPT ![Relay] = 1] /\ sendBase' = [sendBase EXCEPT ![Relay] = 1]
        /\ closeSeq' = [closeSeq EXCEPT ![Relay] = 0] /\ closed' = [closed EXCEPT ![Relay] = FALSE]
        /\ recvNext' = [recvNext EXCEPT ![Relay] = 1] /\ recvAhead' = [recvAhead EXCEPT ![Relay] = {}]
        /\ got' = [got EXCEPT ![Relay] = <<>>] /\ taken' = [taken EXCEPT ![Relay] = 0]
    BY <1>2 DEF Arrive, Fresh
  <2>2. life = 0
    BY <2>1, TypesAtHand
  <2>3. /\ nextSend[Relay] = 1 /\ closeSeq[Relay] = 0 /\ recvNext[Relay] = 1
        /\ got[Relay] = <<>> /\ taken[Relay] = 0
    BY <2>2 DEF FirstLife, Pristine
  <2>4. UNCHANGED <<nextSend, closeSeq, recvNext, got, taken>>
    <3>1. /\ nextSend \in [Ends -> Nat \ {0}] /\ closeSeq \in [Ends -> Nat]
          /\ recvNext \in [Ends -> Nat \ {0}] /\ got \in [Ends -> Seq(RecordType)]
          /\ taken \in [Ends -> Nat]
      BY TypesAtHand
    <3> QED BY <2>1, <2>3, <3>1
  <2>5. HeldAfter
    BY <2>1, ConstantTypes DEF HeldAfter, FirstLife, CarriedSound, Shape, TypeOK
  <2>6. FreedAfter
    <3> SUFFICES ASSUME NEW d \in Ends PROVE sendBase'[d] <= recvNext[Peer[d]]
      BY <2>4 DEF FreedAfter
    <3>1. Peer[d] \in Ends
      BY ConstantTypes
    <3>2. recvNext[Peer[d]] \in Nat /\ recvNext[Peer[d]] > 0 /\ sendBase[d] <= recvNext[Peer[d]]
      BY <3>1, CounterTypes DEF FirstLife, ReceivedSound
    <3>3. sendBase'[d] \in {sendBase[d], 1}
      BY <2>1, TypesAtHand
    <3> QED BY <3>2, <3>3
  <2>7. LifeAfter
    BY <2>1, <2>2 DEF LifeAfter, Pristine, faultVars
  <2> QED BY <2>4, <2>5, <2>6, <2>7, Stays
<1> QED BY <1>1, <1>2

\* The users' steps in the first life.
LEMMA TerminateCarries ==
    ASSUME Shape, FirstLife, NEW e \in Ends, Terminate(e)
    PROVE  CarriedAfter /\ closed' = [closed EXCEPT ![e] = TRUE]
<1>t. upload \in [Uploads -> UploadType] /\ download \in [Downloads -> DownloadType]
  BY TypesAtHand
<1>1. closed' = [closed EXCEPT ![e] = TRUE]
  BY DEF Terminate
<1>2. \A k \in Uploads : upload'[k].todo \in {upload[k].todo, <<>>}
  <2>1. CASE e = Client
    <3> TAKE k \in Uploads
    <3>1. upload'[k] = IF upload[k].st = "idle" THEN NoUpload ELSE [upload[k] EXCEPT !.st = "late"]
      BY <2>1 DEF Terminate
    <3> QED BY <1>t, <3>1 DEF NoUpload, UploadType
  <2>2. CASE e # Client
    BY <2>2 DEF Terminate
  <2> QED BY <2>1, <2>2
<1>3. \A i \in Downloads : download'[i].todo \in {download[i].todo, <<>>}
  <2>1. \A i \in Downloads : download'[i] \in {download[i], NoDownload}
    BY DEF Terminate, EndWaiting
  <2> QED BY <2>1 DEF NoDownload
<1> QED BY <1>1, <1>2, <1>3, CarriedMoves DEF CarriedAfter

LEMMA UserEffects ==
    ASSUME Shape, Shape', FirstLife, NEW e \in Ends,
           Write(e) \/ Read(e) \/ Close(e) \/ CloseEnds(e) \/ CloseNow(e)
    PROVE  Effects
<1>t. /\ nextSend \in [Ends -> Nat \ {0}] /\ closeSeq \in [Ends -> Nat] /\ closed \in [Ends -> BOOLEAN]
      /\ taken \in [Ends -> Nat] /\ Client \in Ends /\ Relay \in Ends /\ e \in {Client, Relay}
      /\ Client # Relay
  BY TypesAtHand, ConstantTypes
<1>e. e = Relay => present
  BY <1>t DEF Write, Read, Close, CloseEnds, CloseNow, Exists
<1>q. ASSUME QueueClose(e), closeSeq[e] = 0 PROVE SentAfter
  BY <1>t, <1>q DEF QueueClose, SentAfter
<1>1. CASE Write(e)
  <2>1. /\ nextSend' = [nextSend EXCEPT ![e] = @ + 1] /\ closeSeq[e] = 0 /\ nextSend[e] <= plan.write[e]
        /\ UNCHANGED <<sendBase, closeSeq, closed, recvVars, taken, clientVars, relayVars, faultVars>>
    BY <1>1 DEF Write
  <2>2. SentAfter
    BY <1>t, <2>1 DEF SentAfter
  <2>3. LifeAfter
    <3>1. CASE e = Relay
      BY <1>e, <2>1, <3>1, Stays DEF relayVars, faultVars
    <3>2. CASE e = Client
      <4>1. nextSend'[Relay] = nextSend[Relay]
        BY <1>t, <2>1, <3>2
      <4> QED BY <2>1, <4>1, Stays DEF relayVars, faultVars, recvVars
    <3> QED BY <1>t, <3>1, <3>2
  <2> QED BY <2>1, <2>2, <2>3, Stays DEF Effects, recvVars, clientVars
<1>2. CASE Read(e)
  <2>1. /\ taken[e] < Len(got[e]) /\ taken' = [taken EXCEPT ![e] = @ + 1]
        /\ UNCHANGED <<sendVars, closed, recvVars, clientVars, relayVars, faultVars>>
    BY <1>2 DEF Read
  <2>2. ReadAfter
    <3> SUFFICES ASSUME NEW d \in Ends PROVE taken'[d] < recvNext[d]
      BY <2>1 DEF ReadAfter, recvVars
    <3>1. /\ recvNext[d] \in Nat /\ taken[d] \in Nat /\ taken[d] < recvNext[d] /\ recvNext[d] - 1 \in Nat
          /\ got[d] = Records(Peer[d], 1, recvNext[d] - 1)
      BY <1>t, CounterTypes DEF FirstLife, ReceivedSound
    <3>2. Len(got[d]) = recvNext[d] - 1
      BY <3>1, FirstRecords, TypesAtHand
    <3>3. CASE d = e
      <4>1. taken'[d] = taken[d] + 1 /\ taken[d] < Len(got[d])
        BY <1>t, <2>1, <3>3
      <4> QED BY <3>1, <3>2, <4>1
    <3>4. CASE d # e
      <4>1. taken'[d] = taken[d]
        BY <1>t, <2>1, <3>4
      <4> QED BY <3>1, <4>1
    <3> QED BY <3>3, <3>4
  <2>3. LifeAfter
    <3>1. CASE e = Relay
      BY <1>e, <2>1, <3>1, Stays DEF relayVars, faultVars
    <3>2. CASE e = Client
      <4>1. taken'[Relay] = taken[Relay]
        BY <1>t, <2>1, <3>2
      <4> QED BY <2>1, <4>1, Stays DEF relayVars, faultVars, recvVars, sendVars
    <3> QED BY <1>t, <3>1, <3>2
  <2> QED BY <2>1, <2>2, <2>3, Stays DEF Effects, recvVars, clientVars, sendVars
<1>3. CASE Close(e)
  <2>1. /\ QueueClose(e) /\ closeSeq[e] = 0
        /\ UNCHANGED <<closed, recvVars, taken, clientVars, relayVars, faultVars>>
    BY <1>3 DEF Close
  <2>2. SentAfter /\ UNCHANGED sendBase
    BY <1>q, <2>1 DEF QueueClose
  <2>3. LifeAfter
    <3>1. CASE e = Relay
      BY <1>e, <2>1, <3>1, Stays DEF relayVars, faultVars
    <3>2. CASE e = Client
      <4>1. nextSend'[Relay] = nextSend[Relay] /\ closeSeq'[Relay] = closeSeq[Relay]
        BY <1>t, <2>1, <3>2 DEF QueueClose
      <4> QED BY <2>1, <4>1, Stays DEF relayVars, faultVars, recvVars
    <3> QED BY <1>t, <3>1, <3>2
  <2> QED BY <2>1, <2>2, <2>3, Stays DEF Effects, recvVars, clientVars
<1>4. CASE CloseEnds(e) \/ CloseNow(e)
  <2>1. /\ Terminate(e)
        /\ \/ UNCHANGED sendVars
           \/ QueueClose(e) /\ closeSeq[e] = 0 /\ e = Relay
        /\ UNCHANGED <<recvVars, taken, relayVars, faultVars>>
    BY <1>4 DEF CloseEnds, CloseNow
  <2>2. SentAfter /\ UNCHANGED sendBase
    BY <1>q, <2>1, Stays DEF QueueClose, sendVars
  <2>3. CarriedAfter /\ closed' = [closed EXCEPT ![e] = TRUE]
    BY <2>1, TerminateCarries
  <2>4. LifeAfter
    <3>1. CASE e = Relay
      BY <1>e, <2>1, <3>1, Stays DEF relayVars, faultVars
    <3>2. CASE e = Client
      <4>1. closed'[Relay] = closed[Relay] /\ UNCHANGED sendVars
        BY <1>t, <2>1, <2>3, <3>2
      <4> QED BY <2>1, <4>1, Stays DEF relayVars, faultVars, recvVars, sendVars
    <3> QED BY <1>t, <3>1, <3>2
  <2> QED BY <2>1, <2>2, <2>3, <2>4, Stays DEF Effects, recvVars
<1> QED BY <1>1, <1>2, <1>3, <1>4

LEMMA PostEffects ==
    ASSUME Shape, Shape', FirstLife, life' <= 1, NEW k \in Uploads, Post(k)
    PROVE  Effects
<1>1. Arrive(0) /\ UNCHANGED <<pipelined, download, confirmed, faultVars>>
  BY DEF Post
<1>2. 0 < recvNext[Client] /\ recvNext[Client] - 1 \in Nat /\ recvNext[Client] - 1 < recvNext[Client]
  BY CounterTypes, ConstantTypes
<1>3. HeldAfter /\ ReceivedAfter /\ ReadAfter /\ FreedAfter /\ SentAfter /\ LifeAfter
  BY <1>1, <1>2, ArriveEffects
<1>4. CarriedAfter
  <2> DEFINE lo == FirstOf
             hi == LastOf(lo)
             batch == Batch(Client, recvNext[Client] - 1, lo, hi)
  <2>n. /\ nextSend[Client] \in Nat /\ nextSend[Client] > 0 /\ sendBase[Client] \in Nat
        /\ sendBase[Client] > 0 /\ nextClaim \in Nat /\ nextClaim > 0 /\ BatchRecords \in Nat
    BY CounterTypes, TypesAtHand, ConstantTypes, LimitsAssumption
  <2>1. lo \in Nat /\ lo > 0
    BY <2>n DEF FirstOf
  <2>2. hi \in Nat /\ hi < nextSend[Client]
    <3> HIDE DEF lo
    <3> QED BY <2>n, <2>1 DEF LastOf
  <2>3. batch \in Seq(SoundFrom(Client))
    <3> HIDE DEF lo, hi
    <3> QED BY <1>2, <2>1, <2>2, BatchSound, ConstantTypes
  <2>4. PICK f \in {lo, 0} : upload' = [upload EXCEPT ![k] = [st |-> "sent", first |-> f, todo |-> batch]]
    BY DEF Post
  <2> HIDE DEF lo, hi, batch
  <2>5. [st |-> "sent", first |-> f, todo |-> batch].todo \in Seq(SoundFrom(Client))
    BY <2>3
  <2>6. \A j \in Uploads : upload'[j].todo \in Seq(SoundFrom(Client))
    BY <2>4, <2>5, CarriedMoves
  <2>7. \A i \in Downloads : download'[i].todo \in Seq(SoundFrom(Relay))
    BY <1>1 DEF FirstLife, CarriedSound
  <2> QED BY <2>6, <2>7 DEF CarriedAfter
<1> QED BY <1>3, <1>4 DEF Effects

\* A message is received: what is held and received stays sound.
LEMMA ReceiveEffects ==
    ASSUME Shape, Shape', FirstLife, NEW e \in Ends, NEW r \in SoundFrom(Peer[e]), r.kind # "ack",
           Receive(e, r), UNCHANGED <<taken, sendBase>>
    PROVE  HeldAfter /\ ReceivedAfter /\ ReadAfter /\ FreedAfter
<1>1. r \in MessagesFrom(Peer[e])
  BY DEF MessagesFrom
<1>2. HeldAfter /\ ReceivedAfter
  BY <1>1, ReceiveSound DEF HeldAfter, ReceivedAfter
<1> QED BY <1>2, Stays

\* In the first life no acknowledgement is of more than the relay has sent.
LEMMA NoReset ==
    ASSUME Shape, FirstLife, NEW k \in Uploads, UploadReset(k)
    PROVE  FALSE
<1>p. Client \in Ends /\ Relay \in Ends /\ Peer[Client] = Relay
  BY ConstantTypes DEF Peer
<1>1. /\ upload[k].todo # <<>> /\ Head(upload[k].todo).kind = "ack"
      /\ Head(upload[k].todo).seq >= nextSend[Relay]
  BY DEF UploadReset, Readable
<1>2. recvNext[Client] <= nextSend[Relay] /\ recvNext[Client] \in Nat /\ nextSend[Relay] \in Nat
  BY <1>p, CounterTypes DEF FirstLife, ReceivedSound
<1>3. Head(upload[k].todo) \in SoundFrom(Client)
  BY <1>1, CarriedMoves
<1>4. Head(upload[k].todo).seq < recvNext[Client] /\ Head(upload[k].todo).seq \in Nat
  BY <1>1, <1>3, HeadUpload DEF SoundFrom
<1> QED BY <1>1, <1>2, <1>4

LEMMA UploadEffects ==
    ASSUME Shape, Shape', FirstLife, NEW k \in Uploads,
           Upload(k) \/ LoseUpload(k) \/ TruncateUpload(k)
    PROVE  Effects
<1>p. Client \in Ends /\ Relay \in Ends /\ Peer[Relay] = Client /\ Peer[Client] = Relay
  BY ConstantTypes DEF Peer
<1>u. upload \in [Uploads -> UploadType]
  BY TypesAtHand
<1>d. UNCHANGED download => \A i \in Downloads : download'[i].todo \in Seq(SoundFrom(Relay))
  BY DEF FirstLife, CarriedSound
<1>x. \A v : upload' = [upload EXCEPT ![k] = v] /\ v.todo \in {upload[k].todo, <<>>}
             => \A j \in Uploads : upload'[j].todo \in Seq(SoundFrom(Client))
  <2> TAKE v
  <2> HAVE upload' = [upload EXCEPT ![k] = v] /\ v.todo \in {upload[k].todo, <<>>}
  <2>1. \A j \in Uploads : upload'[j].todo \in {upload[j].todo, <<>>}
    BY <1>u
  <2> QED BY <2>1, CarriedMoves
<1>s. \A st : Stopped(k, st).todo = <<>>
  BY <1>u DEF Stopped, NoUpload, UploadType
<1>n. NoUpload.todo = <<>>
  BY DEF NoUpload
<1>h. ASSUME upload[k].todo # <<>>
      PROVE  /\ Head(upload[k].todo) \in SoundFrom(Client) /\ UploadTail(k).todo \in Seq(SoundFrom(Client))
             /\ Head(upload[k].todo).kind = "ack" => Head(upload[k].todo).seq < recvNext[Client]
             /\ Head(upload[k].todo).seq \in Nat
  <2>1. Head(upload[k].todo) \in SoundFrom(Client) /\ UploadTail(k).todo \in Seq(SoundFrom(Client))
    BY <1>h, CarriedMoves
  <2> QED BY <1>h, <2>1, HeadUpload DEF SoundFrom
<1>1. CASE UploadAck(k)
  <2>1. /\ present /\ upload[k].todo # <<>> /\ Head(upload[k].todo).kind = "ack"
        /\ Trim(Relay, Head(upload[k].todo).seq) /\ upload' = [upload EXCEPT ![k] = UploadTail(k)]
        /\ UNCHANGED <<nextSend, closeSeq, closed, recvVars, taken, OtherClient, relayVars, faultVars>>
    BY <1>1 DEF UploadAck, Readable
  <2>2. FreedAfter
    BY <1>p, <1>h, <2>1, TrimFrees DEF recvVars
  <2>3. CarriedAfter
    BY <1>d, <1>h, <2>1, CarriedMoves DEF CarriedAfter, OtherClient
  <2> QED BY <2>1, <2>2, <2>3, Stays DEF Effects, recvVars, relayVars, faultVars
<1>2. CASE UploadReset(k)
  BY <1>2, NoReset
<1>3. CASE UploadData(k)
  <2>1. /\ present /\ upload[k].todo # <<>> /\ Head(upload[k].todo).kind # "ack"
        /\ Receive(Relay, Head(upload[k].todo)) /\ upload' = [upload EXCEPT ![k] = UploadTail(k)]
        /\ UNCHANGED <<sendVars, closed, taken, OtherClient, relayVars, faultVars>>
    BY <1>3 DEF UploadData, Readable
  <2>2. HeldAfter /\ ReceivedAfter /\ ReadAfter /\ FreedAfter
    BY <1>p, <1>h, <2>1, ReceiveEffects DEF sendVars
  <2>3. CarriedAfter
    BY <1>d, <1>h, <2>1, CarriedMoves DEF CarriedAfter, OtherClient
  <2> QED BY <2>1, <2>2, <2>3, Stays DEF Effects, sendVars, relayVars, faultVars
<1>4. CASE UploadTooFar(k)
  <2>1. /\ present /\ upload' = [upload EXCEPT ![k] = Stopped(k, "sent")] /\ EndWaiting
        /\ UNCHANGED <<sendVars, recvVars, taken, relayVars, faultVars>>
    BY <1>4 DEF UploadTooFar, Readable
  <2>2. \A i \in Downloads : download'[i].todo \in {download[i].todo, <<>>}
    <3>1. \A i \in Downloads : download'[i] \in {download[i], NoDownload}
      BY <2>1 DEF EndWaiting
    <3> QED BY <3>1 DEF NoDownload
  <2>3. CarriedAfter
    BY <1>x, <1>s, <2>1, <2>2, CarriedMoves DEF CarriedAfter
  <2> QED BY <2>1, <2>3, Stays DEF Effects, sendVars, recvVars, relayVars, faultVars
<1>5. ASSUME NEW v, upload' = [upload EXCEPT ![k] = v], v.todo \in {upload[k].todo, <<>>},
             UNCHANGED <<sendVars, closed, recvVars, taken, download, relayVars, plan>>
      PROVE  Effects
  <2>1. CarriedAfter
    BY <1>d, <1>x, <1>5 DEF CarriedAfter
  <2>2. LifeAfter
    BY <1>5, Stays DEF sendVars, recvVars, relayVars
  <2> QED BY <1>5, <2>1, <2>2, Stays DEF Effects, sendVars, recvVars
<1>6. CASE UploadIgnored(k)
  BY <1>5, <1>6, <1>s DEF UploadIgnored, OtherClient, faultVars
<1>7. CASE UploadSucceeds(k) \/ UploadFails(k)
  BY <1>5, <1>7, <1>n DEF UploadSucceeds, UploadFails, faultVars
<1>8. CASE LoseUpload(k)
  <2> DEFINE late == [upload[k] EXCEPT !.st = "late"]
  <2>1. UNCHANGED <<sendVars, closed, recvVars, taken, download, relayVars, plan>>
    BY <1>8 DEF LoseUpload
  <2>2. late.todo \in {upload[k].todo, <<>>} /\ NoUpload.todo \in {upload[k].todo, <<>>}
    BY <1>n, <1>u DEF UploadType
  <2>3. upload' = [upload EXCEPT ![k] = NoUpload] \/ upload' = [upload EXCEPT ![k] = late]
    BY <1>8, <1>u DEF LoseUpload
  <2> HIDE DEF late
  <2>4. CASE upload' = [upload EXCEPT ![k] = NoUpload]
    BY <1>5, <2>1, <2>2, <2>4
  <2>5. CASE upload' = [upload EXCEPT ![k] = late]
    BY <1>5, <2>1, <2>2, <2>5
  <2> QED BY <2>3, <2>4, <2>5
<1>9. CASE TruncateUpload(k)
  <2>1. /\ UNCHANGED <<sendVars, closed, recvVars, taken, download, relayVars, plan>>
        /\ upload' = [upload EXCEPT ![k] = [upload[k] EXCEPT !.todo = <<>>]]
        /\ [upload[k] EXCEPT !.todo = <<>>].todo = <<>>
    BY <1>9, <1>u DEF TruncateUpload, OtherClient, UploadType
  <2> QED BY <1>5, <2>1
<1> QED BY <1>1, <1>2, <1>3, <1>4, <1>6, <1>7, <1>8, <1>9 DEF Upload

LEMMA DownloadEffects ==
    ASSUME Shape, Shape', FirstLife, life' <= 1, NEW i \in Downloads,
           Get(i) \/ Download(i) \/ ServeResend(i) \/ LoseDownload(i)
    PROVE  Effects
<1>p. Client \in Ends /\ Relay \in Ends /\ Peer[Relay] = Client /\ Peer[Client] = Relay
  BY ConstantTypes DEF Peer
<1>t. download \in [Downloads -> DownloadType]
  BY TypesAtHand
<1>n. /\ dispatched \in Nat /\ sendBase[Relay] \in Nat /\ sendBase[Relay] > 0
      /\ sendBase[Relay] - 1 \in Nat
      /\ recvNext[Client] \in Nat /\ recvNext[Client] - 1 \in Nat
      /\ recvNext[Relay] \in Nat /\ recvNext[Relay] - 1 \in Nat
      /\ nextSend[Relay] \in Nat /\ nextSend[Relay] - 1 \in Nat
  BY <1>p, TypesAtHand, CounterTypes
<1>d. UNCHANGED upload => \A k \in Uploads : upload'[k].todo \in Seq(SoundFrom(Client))
  BY DEF FirstLife, CarriedSound
<1>0. NoDownload.todo = <<>> /\ <<>> \in Seq(SoundFrom(Relay))
  BY DEF NoDownload
<1>c. \A v : upload' = upload /\ download' = [download EXCEPT ![i] = v] /\ v.todo \in Seq(SoundFrom(Relay))
             => CarriedAfter
  BY <1>d, CarriedMoves DEF CarriedAfter
<1>f. ASSUME Fetched(i)
      PROVE  /\ Head(download[i].todo) \in SoundFrom(Relay) /\ DownloadTail(i).todo \in Seq(SoundFrom(Relay))
             /\ Head(download[i].todo).kind = "ack" => Head(download[i].todo).seq < recvNext[Relay]
             /\ Head(download[i].todo).seq \in Nat
  <2>1. download[i].todo # <<>>
    BY <1>f DEF Shape
  <2>2. Head(download[i].todo) \in SoundFrom(Relay) /\ DownloadTail(i).todo \in Seq(SoundFrom(Relay))
    BY <2>1, CarriedMoves
  <2> QED BY <2>1, <2>2, HeadDownload DEF SoundFrom
<1>a. \A lo \in Nat : lo > 0 => Answer(lo) \in Seq(SoundFrom(Relay))
  <2> TAKE lo \in Nat
  <2> HAVE lo > 0
  <2>1. recvNext[Relay] - 1 < recvNext[Relay] /\ nextSend[Relay] - 1 < nextSend[Relay]
    BY <1>n
  <2>2. Batch(Relay, recvNext[Relay] - 1, lo, nextSend[Relay] - 1) \in Seq(SoundFrom(Relay))
    BY <1>p, <1>n, <2>1, BatchSound
  <2> QED BY <2>2 DEF Answer
<1>l. ASSUME UNCHANGED <<sendVars, closed, recvVars, taken, present, life, plan>> PROVE LifeAfter
  BY <1>l, Stays DEF sendVars, recvVars
<1>o. ASSUME CarriedAfter, UNCHANGED <<sendVars, closed, recvVars, taken, present, life, plan>>
      PROVE  Effects
  BY <1>l, <1>o, Stays DEF Effects, sendVars, recvVars
<1>1. CASE Get(i)
  <2>1. /\ download' = [download EXCEPT ![i].st = "waiting"] /\ Arrive(recvNext[Client] - 1)
        /\ UNCHANGED <<OtherUp, faultVars>>
    BY <1>1 DEF Get
  <2>2. HeldAfter /\ ReceivedAfter /\ ReadAfter /\ FreedAfter /\ SentAfter /\ LifeAfter
    <3>1. recvNext[Client] - 1 < recvNext[Client]
      BY <1>n
    <3> QED BY <1>n, <2>1, <3>1, ArriveEffects
  <2>3. \A j \in Downloads : download'[j].todo = download[j].todo
    BY <1>t, <2>1 DEF DownloadType
  <2>4. CarriedAfter
    BY <1>d, <2>1, <2>3, CarriedMoves DEF CarriedAfter, OtherUp
  <2> QED BY <2>2, <2>4 DEF Effects
<1>2. ASSUME NEW after \in Nat,
             download' = [download EXCEPT ![i] = [st |-> "answered", todo |-> Answer(ClaimFrom(after))]],
             UNCHANGED <<sendVars, closed, recvVars, taken, OtherUp, OtherRelay, stray, faultVars>>
      PROVE  Effects
  <2>1. ClaimFrom(after) \in Nat /\ ClaimFrom(after) > 0
    BY <1>n DEF ClaimFrom
  <2>2. [st |-> "answered", todo |-> Answer(ClaimFrom(after))].todo \in Seq(SoundFrom(Relay))
    BY <1>a, <2>1
  <2>3. CarriedAfter
    BY <1>c, <1>2, <2>2 DEF OtherUp
  <2> QED BY <1>o, <1>2, <2>3 DEF OtherRelay, faultVars
<1>3. CASE ServeDownload(i) \/ ServeResend(i)
  BY <1>n, <1>2, <1>3 DEF ServeDownload, ServeResend
<1>4. CASE ServeAck(i)
  <2>1. /\ present /\ download' = [download EXCEPT ![i] = NoDownload] /\ Trim(Client, recvNext[Relay] - 1)
        /\ UNCHANGED <<nextSend, closeSeq, closed, recvVars, taken, upload, relayVars, faultVars>>
    BY <1>4 DEF ServeAck
  <2>2. FreedAfter
    <3>1. recvNext[Relay] - 1 < recvNext[Peer[Client]]
      BY <1>n, <1>p
    <3> QED BY <1>p, <1>n, <2>1, <3>1, TrimFrees DEF recvVars
  <2>3. CarriedAfter
    BY <1>c, <1>0, <2>1
  <2> QED BY <2>1, <2>2, <2>3, Stays DEF Effects, recvVars, relayVars, faultVars
<1>5. CASE ServeClosed(i)
  <2>1. /\ download' = [download EXCEPT ![i] = [st |-> "answered", todo |-> Remaining]]
        /\ UNCHANGED <<sendVars, closed, recvVars, taken, OtherUp, relayVars, faultVars>>
    BY <1>5 DEF ServeClosed
  <2>2. [st |-> "answered", todo |-> Remaining].todo \in Seq(SoundFrom(Relay))
    BY <1>n, <1>a DEF Remaining
  <2>3. CarriedAfter
    BY <1>c, <2>1, <2>2 DEF OtherUp
  <2> QED BY <1>o, <2>1, <2>3 DEF relayVars, faultVars
<1>6. CASE DownloadAck(i)
  <2>1. /\ Fetched(i) /\ Head(download[i].todo).kind = "ack" /\ Trim(Client, Head(download[i].todo).seq)
        /\ \E v \in {NoDownload, DownloadTail(i)} : download' = [download EXCEPT ![i] = v]
        /\ UNCHANGED <<nextSend, closeSeq, closed, recvVars, taken, upload, relayVars, faultVars>>
    BY <1>6 DEF DownloadAck
  <2>2. FreedAfter
    BY <1>p, <1>f, <2>1, TrimFrees DEF recvVars
  <2>3. CarriedAfter
    BY <1>c, <1>0, <1>f, <2>1
  <2>4. LifeAfter
    BY <2>1, Stays DEF recvVars, relayVars, faultVars
  <2> QED BY <2>1, <2>2, <2>3, <2>4, Stays DEF Effects, recvVars
<1>7. CASE DownloadData(i)
  <2>1. /\ Fetched(i) /\ Head(download[i].todo).kind # "ack" /\ Receive(Client, Head(download[i].todo))
        /\ download' = [download EXCEPT ![i] = DownloadTail(i)]
        /\ UNCHANGED <<sendVars, closed, taken, OtherUp, relayVars, faultVars>>
    BY <1>7 DEF DownloadData
  <2>2. HeldAfter /\ ReceivedAfter /\ ReadAfter /\ FreedAfter
    BY <1>p, <1>f, <2>1, ReceiveEffects DEF sendVars
  <2>3. CarriedAfter
    BY <1>c, <1>f, <2>1 DEF OtherUp
  <2>4. LifeAfter
    <3>1. recvNext'[Relay] = recvNext[Relay] /\ got'[Relay] = got[Relay]
      <4>1. /\ recvNext \in [Ends -> Nat \ {0}] /\ got \in [Ends -> Seq(RecordType)]
            /\ Relay \in Ends /\ Relay # Client
        BY ConstantTypes, TypesAtHand
      <4>2. CASE UNCHANGED recvVars
        BY <4>2 DEF recvVars
      <4>3. CASE ~UNCHANGED recvVars
        BY <2>1, <4>1, <4>3 DEF Receive, recvVars
      <4> QED BY <4>2, <4>3
    <3> QED BY <2>1, <3>1, Stays DEF sendVars, relayVars, faultVars
  <2> QED BY <2>1, <2>2, <2>3, <2>4, Stays DEF Effects, sendVars
<1>8. CASE DownloadTooFar(i) \/ LoseDownload(i)
  <2>1. /\ download' = [download EXCEPT ![i] = NoDownload]
        /\ UNCHANGED <<sendVars, closed, recvVars, taken, upload, present, life, plan>>
    BY <1>8 DEF DownloadTooFar, LoseDownload, OtherUp, relayVars, faultVars
  <2>2. CarriedAfter
    BY <1>c, <1>0, <2>1
  <2> QED BY <1>o, <2>1, <2>2
<1> QED BY <1>1, <1>3, <1>4, <1>5, <1>6, <1>7, <1>8 DEF Download

LEMMA RelayEffects ==
    ASSUME Shape, Shape', FirstLife, ResendUnacknowledged \/ ServeStray \/ Sweep \/ Restart
    PROVE  Effects
<1>1. CASE ResendUnacknowledged \/ ServeStray
  <2>1. UNCHANGED <<sendVars, closed, recvVars, taken, upload, download, present, life, plan>>
    BY <1>1 DEF ResendUnacknowledged, ServeStray, clientVars, relayVars, OtherRelay, faultVars
  <2> QED BY <2>1, Stays DEF Effects, sendVars, recvVars
<1>2. CASE Sweep \/ Restart
  <2>1. PICK st : Forget(st) /\ plan' = plan
    BY <1>2 DEF Sweep, Restart, faultVars
  <2>2. /\ present' = FALSE /\ UNCHANGED <<sendVars, closed, recvVars, taken, life>>
        /\ upload' = [k \in Uploads |->
                        IF upload[k].st = "sent" /\ upload[k].todo # <<>> THEN Stopped(k, st)
                        ELSE IF upload[k].st = "late" THEN NoUpload ELSE upload[k]]
        /\ download' = [i \in Downloads |-> IF download[i].st = "waiting" THEN NoDownload
                                            ELSE download[i]]
    BY <2>1 DEF Forget
  <2>3. \A k \in Uploads : upload'[k].todo \in {upload[k].todo, <<>>}
    <3>1. \A k \in Uploads : upload'[k] \in {upload[k], NoUpload, Stopped(k, st)}
      BY <2>2
    <3>2. \A k \in Uploads : Stopped(k, st).todo = <<>> /\ NoUpload.todo = <<>>
      BY TypesAtHand DEF Stopped, NoUpload, UploadType
    <3> QED BY <3>1, <3>2
  <2>4. \A i \in Downloads : download'[i].todo \in {download[i].todo, <<>>}
    <3>1. \A i \in Downloads : download'[i] \in {download[i], NoDownload}
      BY <2>2
    <3> QED BY <3>1 DEF NoDownload
  <2>5. CarriedAfter
    BY <2>3, <2>4, CarriedMoves DEF CarriedAfter
  <2> QED BY <2>1, <2>2, <2>5, Stays DEF Effects, sendVars, recvVars
<1> QED BY <1>1, <1>2

\* The relay's lives do not go back.
LEMMA LivesGrow == ASSUME Shape, [Next]_vars PROVE life' >= life
<1>1. life \in Nat
  BY TypesAtHand
<1>2. life' = life \/ life' = life + 1
  BY DEF Next, vars, relayVars, faultVars, Write, Read, Close, CloseEnds, CloseNow, Post, Arrive,
         Upload, UploadAck, UploadReset, UploadData, UploadTooFar, UploadIgnored, UploadSucceeds,
         UploadFails, LoseUpload, TruncateUpload, Get, Download, ServeDownload, ServeAck,
         ServeClosed, DownloadAck, DownloadData, DownloadTooFar, ServeResend, LoseDownload,
         ResendUnacknowledged, ServeStray, Sweep, Restart, Forget, OtherRelay
<1> QED BY <1>1, <1>2

LEMMA FirstLifeStep ==
    ASSUME Shape, Shape', FirstLife, life' <= 1, [Next]_vars
    PROVE  Effects
<1>1. CASE UNCHANGED vars
  <2>1. UNCHANGED <<sendVars, closed, recvVars, taken, upload, download, present, life, plan>>
    BY <1>1 DEF vars, clientVars, relayVars, faultVars
  <2> QED BY <2>1, Stays DEF Effects, sendVars, recvVars
<1> QED BY <1>1, UserEffects, PostEffects, UploadEffects, DownloadEffects, RelayEffects DEF Next

LEMMA ChannelInvInit == Init => ChannelInv
<1> SUFFICES ASSUME Init PROVE ChannelInv
  OBVIOUS
<1>1. Shape
  BY ShapeInit
<1>e. \A S : <<>> \in Seq(S)
  OBVIOUS
<1>2. CarriedSound
  BY <1>e, ConstantTypes DEF Init, CarriedSound, NoUpload, NoDownload
<1>3. ReceivedSound
  BY NoRecords, ConstantTypes DEF Init, ReceivedSound
<1>4. CloseIsLast
  <2>1. \A e \in Ends : plan.write[e] \in Nat
    BY <1>1, PlanTypes, ConstantTypes
  <2> QED BY <2>1 DEF Init, CloseIsLast
<1>5. Pristine
  BY ConstantTypes DEF Init, Pristine
<1> QED BY <1>1, <1>2, <1>3, <1>4, <1>5 DEF ChannelInv, FirstLife

LEMMA ChannelInvStep == ChannelInv /\ [Next]_vars => ChannelInv'
<1> SUFFICES ASSUME ChannelInv, [Next]_vars PROVE ChannelInv'
  OBVIOUS
<1>1. Shape /\ Shape'
  BY ShapeStep DEF ChannelInv
<1>2. ASSUME life' <= 1 PROVE FirstLife'
  <2>1. life <= 1
    <3>1. life \in Nat /\ life' \in Nat /\ life' >= life
      <4>1. life \in 0..MaxLives /\ life' \in 0..MaxLives
        BY <1>1 DEF Shape, TypeOK
      <4> QED BY <1>1, <4>1, LivesGrow, ConstantTypes
    <3> QED BY <1>2, <3>1
  <2> QED BY <1>1, <1>2, <2>1, FirstLifeStep, EffectsKeep DEF ChannelInv
<1> QED BY <1>1, <1>2 DEF ChannelInv

\* While the relay has accepted the stream once, what an end has freed from its
\* send buffer the other has received: for every limit, plan and loss.
THEOREM HTTPStreamFreedIsReceived == Spec => []FreedIsReceived
<1>1. Spec => []ChannelInv
  BY ChannelInvInit, ChannelInvStep, PTL DEF Spec
<1>2. ChannelInv => FreedIsReceived
  BY DEF ChannelInv, FirstLife, ReceivedSound, FreedIsReceived
<1> QED BY <1>1, <1>2, PTL

-----------------------------------------------------------------------------
(* The message channel.  What its variables stand for.                     *)

SentBy == [e \in Ends |-> IF life > 1 THEN <<>> ELSE Records(e, 1, nextSend[e] - 1)]
ReadBy == [e \in Ends |-> IF life > 1 THEN <<>> ELSE SubSeq(got[e], 1, taken[e])]
OverAt == [e \in Ends |-> life <= 1 /\ closed[e]]
LostIt == life > 1
MessageType == [kind : {"data", "close"}, seq : 1..MaxMessages, life : 0..1]
IsClose(r) == r.kind = "close"

LEMMA ChannelInit == Init => Channel!Init
<1> SUFFICES ASSUME Init PROVE Channel!Init
  OBVIOUS
<1>1. life = 0 /\ ~(life > 1)
  BY DEF Init
<1>2. SentBy = [e \in Ends |-> <<>>]
  BY <1>1, NoRecords DEF Init, SentBy
<1>3. ReadBy = [e \in Ends |-> <<>>]
  BY <1>1 DEF Init, ReadBy
<1>4. OverAt = [e \in Ends |-> FALSE]
  BY <1>1 DEF Init, OverAt
<1>5. Channel!Empty
  BY <1>2, <1>3, <1>4 DEF Channel!Empty, SentBy, ReadBy, OverAt
<1>6. (life > 1) = FALSE
  BY <1>1
<1> QED BY <1>5, <1>6 DEF Channel!Init

\* The channel's steps, in these terms.
LEMMA ChannelSteps ==
    /\ \A e \in Ends :
         Channel!WriteMessage(e) <=>
            /\ Len(SentBy'[e]) = Len(SentBy[e]) + 1
            /\ ~LostIt /\ ~OverAt[e]
            /\ \A i \in 1..Len(SentBy[e]) : ~IsClose(SentBy[e][i])
            /\ LET m == SentBy'[e][Len(SentBy[e]) + 1]
               IN  /\ m \in MessageType
                   /\ SentBy' = [SentBy EXCEPT ![e] = Append(@, m)]
                   /\ OverAt' \in {OverAt, [OverAt EXCEPT ![e] = IsClose(m)]}
            /\ UNCHANGED <<ReadBy, LostIt>>
    /\ \A e \in Ends :
         Channel!ReadMessage(e) <=>
            /\ Len(ReadBy'[e]) = Len(ReadBy[e]) + 1
            /\ Len(ReadBy[e]) < Len(SentBy[Peer[e]])
            /\ ReadBy' = [ReadBy EXCEPT ![e] = Append(@, SentBy[Peer[e]][Len(@) + 1])]
            /\ UNCHANGED <<SentBy, OverAt, LostIt>>
    /\ \A e \in Ends :
         Channel!End(e) <=>
            /\ ~OverAt[e] /\ OverAt'[e] /\ ~LostIt
            /\ OverAt' = [OverAt EXCEPT ![e] = TRUE]
            /\ UNCHANGED <<SentBy, ReadBy, LostIt>>
    /\ Channel!Lose <=>
            /\ ~LostIt /\ LostIt' = TRUE
            /\ SentBy' = [e \in Ends |-> <<>>] /\ ReadBy' = [e \in Ends |-> <<>>]
            /\ OverAt' = [e \in Ends |-> FALSE]
    /\ UNCHANGED Channel!channelVars <=> UNCHANGED <<SentBy, ReadBy, OverAt, LostIt>>
<1>1. \A e \in Ends :
         Channel!WriteMessage(e) <=>
            /\ Len(SentBy'[e]) = Len(SentBy[e]) + 1
            /\ ~LostIt /\ ~OverAt[e]
            /\ \A i \in 1..Len(SentBy[e]) : ~IsClose(SentBy[e][i])
            /\ LET m == SentBy'[e][Len(SentBy[e]) + 1]
               IN  /\ m \in MessageType
                   /\ SentBy' = [SentBy EXCEPT ![e] = Append(@, m)]
                   /\ OverAt' \in {OverAt, [OverAt EXCEPT ![e] = IsClose(m)]}
            /\ UNCHANGED <<ReadBy, LostIt>>
  BY DEF Channel!WriteMessage, SentBy, ReadBy, OverAt, LostIt, MessageType, IsClose
<1>2. \A e \in Ends :
         Channel!ReadMessage(e) <=>
            /\ Len(ReadBy'[e]) = Len(ReadBy[e]) + 1
            /\ Len(ReadBy[e]) < Len(SentBy[Peer[e]])
            /\ ReadBy' = [ReadBy EXCEPT ![e] = Append(@, SentBy[Peer[e]][Len(@) + 1])]
            /\ UNCHANGED <<SentBy, OverAt, LostIt>>
  BY DEF Channel!ReadMessage, SentBy, ReadBy, OverAt, LostIt
<1>3. \A e \in Ends :
         Channel!End(e) <=>
            /\ ~OverAt[e] /\ OverAt'[e] /\ ~LostIt
            /\ OverAt' = [OverAt EXCEPT ![e] = TRUE]
            /\ UNCHANGED <<SentBy, ReadBy, LostIt>>
  BY DEF Channel!End, SentBy, ReadBy, OverAt, LostIt
<1>4. Channel!Lose <=>
            /\ ~LostIt /\ LostIt' = TRUE
            /\ SentBy' = [e \in Ends |-> <<>>] /\ ReadBy' = [e \in Ends |-> <<>>]
            /\ OverAt' = [e \in Ends |-> FALSE]
  BY DEF Channel!Lose, Channel!Empty, SentBy, ReadBy, OverAt, LostIt
<1>5. UNCHANGED Channel!channelVars <=> UNCHANGED <<SentBy, ReadBy, OverAt, LostIt>>
  BY DEF Channel!channelVars, SentBy, ReadBy, OverAt, LostIt
<1> QED BY <1>1, <1>2, <1>3, <1>4, <1>5

\* A first part of what was written.
LEMMA SubRecords ==
    ASSUME NEW e, NEW n \in Nat, NEW t \in Nat, t <= n, life \in Nat
    PROVE  SubSeq(Records(e, 1, n), 1, t) = Records(e, 1, t)
<1> DEFINE q == Records(e, 1, n)
           s == SubSeq(q, 1, t)
           r == Records(e, 1, t)
<1>1. q \in Seq(RecordType) /\ Len(q) = n /\ \A i \in 1..n : q[i] = Record(e, i)
  BY FirstRecords
<1>2. r \in Seq(RecordType) /\ Len(r) = t /\ \A i \in 1..t : r[i] = Record(e, i)
  BY FirstRecords
<1> HIDE DEF q, r
<1>3. s \in Seq(RecordType) /\ Len(s) = t /\ \A i \in 1..t : s[i] = q[i]
  BY <1>1
<1>4. \A i \in 1..t : s[i] = r[i]
  BY <1>1, <1>2, <1>3
<1>5. s = r
  <2> HIDE DEF s
  <2> QED BY <1>2, <1>3, <1>4
<1> QED BY <1>5 DEF q, r

LEMMA InFirstLife ==
    Shape /\ FirstLife /\ life <= 1
      => /\ SentBy = [e \in Ends |-> Records(e, 1, nextSend[e] - 1)]
         /\ ReadBy = [e \in Ends |-> Records(Peer[e], 1, taken[e])]
         /\ OverAt = closed /\ LostIt = FALSE
<1> SUFFICES ASSUME Shape, FirstLife, life <= 1
             PROVE  /\ SentBy = [e \in Ends |-> Records(e, 1, nextSend[e] - 1)]
                    /\ ReadBy = [e \in Ends |-> Records(Peer[e], 1, taken[e])]
                    /\ OverAt = closed /\ LostIt = FALSE
  OBVIOUS
<1>1. life \in Nat /\ ~(life > 1)
  BY TypesAtHand
<1>2. SentBy = [e \in Ends |-> Records(e, 1, nextSend[e] - 1)]
  BY <1>1 DEF SentBy
<1>3. \A e \in Ends : SubSeq(got[e], 1, taken[e]) = Records(Peer[e], 1, taken[e])
  <2> TAKE e \in Ends
  <2>1. taken[e] \in Nat /\ recvNext[e] - 1 \in Nat /\ taken[e] <= recvNext[e] - 1
    <3>1. taken[e] < recvNext[e]
      BY DEF FirstLife, ReceivedSound
    <3>2. taken[e] \in Nat /\ recvNext[e] \in Nat \ {0}
      BY TypesAtHand
    <3> QED BY <3>1, <3>2
  <2>2. got[e] = Records(Peer[e], 1, recvNext[e] - 1)
    BY DEF FirstLife, ReceivedSound
  <2>3. SubSeq(Records(Peer[e], 1, recvNext[e] - 1), 1, taken[e]) = Records(Peer[e], 1, taken[e])
    BY <1>1, <2>1, SubRecords
  <2> QED BY <2>2, <2>3
<1>4. ReadBy = [e \in Ends |-> Records(Peer[e], 1, taken[e])]
  BY <1>1, <1>3 DEF ReadBy
<1>5. OverAt = closed
  <2>1. closed \in [Ends -> BOOLEAN]
    BY TypesAtHand
  <2> QED BY <2>1 DEF OverAt
<1>6. LostIt = FALSE
  BY <1>1 DEF LostIt
<1> QED BY <1>2, <1>4, <1>5, <1>6

LEMMA InFirstLifeNext ==
    Shape' /\ FirstLife' /\ life' <= 1
      => /\ SentBy' = [e \in Ends |-> Records(e, 1, nextSend[e] - 1)']
         /\ ReadBy' = [e \in Ends |-> Records(Peer[e], 1, taken[e])']
         /\ OverAt' = closed' /\ LostIt' = FALSE
<1>1. (Shape /\ FirstLife /\ life <= 1
        => /\ SentBy = [e \in Ends |-> Records(e, 1, nextSend[e] - 1)]
           /\ ReadBy = [e \in Ends |-> Records(Peer[e], 1, taken[e])]
           /\ OverAt = closed /\ LostIt = FALSE)'
  BY InFirstLife, PTL
<1> QED BY <1>1

LEMMA RecordsSame ==
    ASSUME Shape, FirstLife, SentAfter, LifeAfter, NEW e \in Ends, NEW n \in Nat, n < nextSend[e]
    PROVE  [i \in 1..((n + 1) - 1) |-> Record(e, (1 - 1) + i)'] = Records(e, 1, n)
<1>1. \A i \in 1..((n + 1) - 1) : Record(e, (1 - 1) + i)' = Record(e, (1 - 1) + i)
  <2> TAKE i \in 1..((n + 1) - 1)
  <2>1. i \in 1..(nextSend[e] - 1) /\ (1 - 1) + i = i
    BY CounterTypes
  <2> QED BY <2>1, RecordsStay
<1> QED BY <1>1 DEF Records

\* The context of a step in the first life.
StepInFirstLife == /\ Shape /\ Shape' /\ FirstLife /\ FirstLife' /\ life <= 1 /\ life' <= 1
                   /\ Effects

LEMMA ViewsSame ==
    ASSUME StepInFirstLife
    PROVE  /\ UNCHANGED nextSend => SentBy' = SentBy
           /\ UNCHANGED taken => ReadBy' = ReadBy
           /\ UNCHANGED closed => OverAt' = OverAt
           /\ LostIt' = LostIt /\ ~LostIt
<1> USE DEF StepInFirstLife
<1>1. ASSUME UNCHANGED nextSend PROVE SentBy' = SentBy
  <2>1. \A e \in Ends : Records(e, 1, nextSend[e] - 1)' = Records(e, 1, nextSend[e] - 1)
    <3> TAKE e \in Ends
    <3>1. nextSend[e] - 1 \in Nat /\ nextSend[e] - 1 < nextSend[e] /\ nextSend'[e] = nextSend[e]
      BY <1>1, CounterTypes
    <3>2. [i \in 1..(((nextSend[e] - 1) + 1) - 1) |-> Record(e, (1 - 1) + i)'] = Records(e, 1, nextSend[e] - 1)
      BY <3>1, RecordsSame DEF Effects
    <3> QED BY <3>1, <3>2 DEF Records
  <2> QED BY <2>1, InFirstLife, InFirstLifeNext
<1>2. ASSUME UNCHANGED taken PROVE ReadBy' = ReadBy
  <2>1. \A e \in Ends : Records(Peer[e], 1, taken[e])' = Records(Peer[e], 1, taken[e])
    <3> TAKE e \in Ends
    <3>0. PICK p \in Ends : p = Peer[e]
      BY ConstantTypes
    <3>1. taken[e] \in Nat /\ taken[e] < nextSend[p] /\ taken'[e] = taken[e]
      <4>1. taken[e] \in Nat /\ recvNext[e] \in Nat /\ nextSend[p] \in Nat
        BY CounterTypes, TypesAtHand
      <4>2. taken[e] < recvNext[e] /\ recvNext[e] <= nextSend[p]
        BY <3>0 DEF FirstLife, ReceivedSound
      <4> QED BY <1>2, <4>1, <4>2
    <3>2. [i \in 1..((taken[e] + 1) - 1) |-> Record(p, (1 - 1) + i)'] = Records(p, 1, taken[e])
      BY <3>1, RecordsSame DEF Effects
    <3> QED BY <3>0, <3>1, <3>2 DEF Records
  <2> QED BY <2>1, InFirstLife, InFirstLifeNext
<1>3. UNCHANGED closed => OverAt' = OverAt
  BY InFirstLife, InFirstLifeNext
<1>4. LostIt' = LostIt /\ ~LostIt
  BY InFirstLife, InFirstLifeNext
<1> QED BY <1>1, <1>2, <1>3, <1>4

\* A record is written.
LEMMA WrittenIs ==
    ASSUME StepInFirstLife, NEW e \in Ends, nextSend' = [nextSend EXCEPT ![e] = @ + 1],
           closeSeq[e] = 0, nextSend[e] <= MaxMessages
    PROVE  \E m \in MessageType :
             /\ m.seq = nextSend[e] /\ (IsClose(m) <=> closeSeq'[e] = nextSend[e])
             /\ SentBy' = [SentBy EXCEPT ![e] = Append(@, m)]
             /\ Len(SentBy[e]) = nextSend[e] - 1 /\ Len(SentBy'[e]) = nextSend[e]
             /\ m = SentBy'[e][nextSend[e]]
             /\ \A i \in 1..Len(SentBy[e]) : ~IsClose(SentBy[e][i])
<1> USE DEF StepInFirstLife
<1> DEFINE n == nextSend[e]
           m == [kind |-> IF n = closeSeq'[e] THEN "close" ELSE "data", seq |-> n,
                 life |-> IF e = Client THEN 0 ELSE life']
<1>t. /\ n \in Nat /\ n > 0 /\ n - 1 \in Nat /\ n - 1 < n /\ nextSend \in [Ends -> Nat \ {0}]
      /\ life \in Nat /\ life' \in Nat /\ nextSend'[e] = n + 1
      /\ closeSeq' \in [Ends -> Nat]
  <2>1. n \in Nat /\ n > 0 /\ n - 1 \in Nat /\ n - 1 < n
    BY CounterTypes
  <2>2. nextSend \in [Ends -> Nat \ {0}] /\ life \in Nat
    BY TypesAtHand
  <2>3. life' \in 0..MaxLives /\ closeSeq' \in [Ends -> Nat]
    BY DEF Shape, TypeOK
  <2> QED BY <2>1, <2>2, <2>3, ConstantTypes
<1>1. m \in MessageType
  <2>1. n \in 1..MaxMessages
    BY <1>t, ConstantTypes
  <2>2. life' \in 0..1
    BY <1>t
  <2> QED BY <2>1, <2>2 DEF MessageType
<1>2. m.seq = n /\ (IsClose(m) <=> closeSeq'[e] = n)
  BY DEF IsClose
<1>3. SentBy[e] = Records(e, 1, n - 1) /\ SentBy'[e] = [i \in 1..n |-> Record(e, i)']
  <2>1. SentBy'[e] = Records(e, 1, nextSend[e] - 1)'
    BY InFirstLifeNext
  <2>2. ((nextSend'[e] - 1) + 1) - 1 = n /\ \A i \in 1..n : (1 - 1) + i = i
    BY <1>t
  <2>3. SentBy'[e] = [i \in 1..n |-> Record(e, i)']
    BY <2>1, <2>2 DEF Records, Record
  <2> QED BY <2>3, InFirstLife
<1>4. Len(SentBy[e]) = n - 1 /\ SentBy[e] \in Seq(RecordType) /\ \A i \in 1..(n - 1) : SentBy[e][i] = Record(e, i)
  BY <1>3, <1>t, FirstRecords
<1>5. Len(SentBy'[e]) = n /\ SentBy'[e][n] = m
  <2>1. n \in 1..n
    BY <1>t
  <2> QED BY <1>3, <1>t, <2>1 DEF Record
<1>6. \A i \in 1..(n - 1) : Record(e, i)' = Record(e, i)
  BY RecordsStay DEF Effects
<1>7. SentBy'[e] = Append(SentBy[e], m)
  <2> DEFINE a == Append(SentBy[e], m)
             b == SentBy'[e]
  <2>1. Len(a) = n /\ DOMAIN a = 1..n
    BY <1>4, <1>t
  <2>2. DOMAIN b = 1..n
    BY <1>3
  <2>3. \A i \in 1..n : a[i] = b[i]
    <3> TAKE i \in 1..n
    <3>1. CASE i = n
      BY <1>4, <1>5, <1>t, <3>1
    <3>2. CASE i # n
      <4>1. i \in 1..(n - 1)
        BY <1>t, <3>2
      <4>2. a[i] = SentBy[e][i]
        BY <1>4, <4>1
      <4>3. b[i] = Record(e, i)'
        BY <1>3
      <4> QED BY <1>4, <1>6, <4>1, <4>2, <4>3
    <3> QED BY <3>1, <3>2
  <2>4. a = [i \in 1..n |-> a[i]] /\ b = [i \in 1..n |-> b[i]]
    <3>1. a = [i \in 1..n |-> a[i]]
      BY <1>4, <2>1
    <3>2. b = [i \in 1..n |-> b[i]]
      BY <1>3
    <3> QED BY <3>1, <3>2
  <2> HIDE DEF a, b
  <2>5. a = b
    BY <2>3, <2>4
  <2> QED BY <2>5 DEF a, b
<1>8. \A d \in Ends : d # e => SentBy'[d] = SentBy[d]
  <2> TAKE d \in Ends
  <2> HAVE d # e
  <2>1. nextSend'[d] = nextSend[d] /\ nextSend[d] - 1 \in Nat /\ nextSend[d] - 1 < nextSend[d]
    BY <1>t, CounterTypes
  <2>2. [i \in 1..(((nextSend[d] - 1) + 1) - 1) |-> Record(d, (1 - 1) + i)'] = Records(d, 1, nextSend[d] - 1)
    BY <2>1, RecordsSame DEF Effects
  <2>3. Records(d, 1, nextSend[d] - 1)' = Records(d, 1, nextSend[d] - 1)
    BY <2>1, <2>2 DEF Records
  <2> QED BY <2>3, InFirstLife, InFirstLifeNext
<1>9. SentBy' = [SentBy EXCEPT ![e] = Append(@, m)]
  <2> HIDE DEF m
  <2>1. SentBy = [d \in Ends |-> SentBy[d]] /\ SentBy' = [d \in Ends |-> SentBy'[d]]
    BY DEF SentBy
  <2>2. [SentBy EXCEPT ![e] = Append(@, m)]
          = [d \in Ends |-> IF d = e THEN Append(SentBy[e], m) ELSE SentBy[d]]
    BY <2>1
  <2>3. \A d \in Ends : SentBy'[d] = IF d = e THEN Append(SentBy[e], m) ELSE SentBy[d]
    BY <1>7, <1>8
  <2> QED BY <2>1, <2>2, <2>3
<1>10. \A i \in 1..Len(SentBy[e]) : ~IsClose(SentBy[e][i])
  <2> TAKE i \in 1..Len(SentBy[e])
  <2>1. i \in 1..(n - 1) /\ i # 0
    BY <1>4, <1>t
  <2>2. Record(e, i).kind = "data"
    BY <2>1 DEF Record
  <2> QED BY <1>4, <2>1, <2>2 DEF IsClose
<1> HIDE DEF m
<1> QED BY <1>1, <1>2, <1>4, <1>5, <1>9, <1>10

LEMMA WriteMessages ==
    ASSUME StepInFirstLife, NEW e \in Ends, nextSend' = [nextSend EXCEPT ![e] = @ + 1],
           closeSeq[e] = 0, nextSend[e] <= MaxMessages, ~closed[e], UNCHANGED taken,
           \/ UNCHANGED closed
           \/ closed' = [closed EXCEPT ![e] = TRUE] /\ closeSeq'[e] = nextSend[e]
    PROVE  Channel!WriteMessage(e)
<1>1. PICK m \in MessageType :
             /\ m.seq = nextSend[e] /\ (IsClose(m) <=> closeSeq'[e] = nextSend[e])
             /\ SentBy' = [SentBy EXCEPT ![e] = Append(@, m)]
             /\ Len(SentBy[e]) = nextSend[e] - 1 /\ Len(SentBy'[e]) = nextSend[e]
             /\ m = SentBy'[e][nextSend[e]]
             /\ \A i \in 1..Len(SentBy[e]) : ~IsClose(SentBy[e][i])
  BY WrittenIs
<1>2. nextSend[e] = Len(SentBy[e]) + 1
  BY <1>1, CounterTypes DEF StepInFirstLife
<1>3. OverAt = closed /\ OverAt' = closed'
  BY InFirstLife, InFirstLifeNext DEF StepInFirstLife
<1>4. OverAt' \in {OverAt, [OverAt EXCEPT ![e] = IsClose(m)]}
  <2>1. CASE UNCHANGED closed
    BY <1>3, <2>1
  <2>2. CASE closed' = [closed EXCEPT ![e] = TRUE] /\ closeSeq'[e] = nextSend[e]
    <3>1. IsClose(m) = TRUE
      BY <1>1, <2>2 DEF IsClose
    <3> QED BY <1>3, <2>2, <3>1
  <2> QED BY <2>1, <2>2
<1>5. ReadBy' = ReadBy /\ LostIt' = LostIt /\ ~LostIt /\ ~OverAt[e]
  BY <1>3, ViewsSame
<1> HIDE DEF SentBy, ReadBy, OverAt, LostIt, MessageType, IsClose
<1>6. m = SentBy'[e][Len(SentBy[e]) + 1] /\ Len(SentBy'[e]) = Len(SentBy[e]) + 1
  BY <1>1, <1>2
<1> QED BY <1>1, <1>4, <1>5, <1>6, ChannelSteps

LEMMA EndsItself ==
    ASSUME StepInFirstLife, NEW e \in Ends, UNCHANGED <<nextSend, taken>>, ~closed[e],
           closed' = [closed EXCEPT ![e] = TRUE]
    PROVE  Channel!End(e)
<1>1. OverAt = closed /\ OverAt' = closed' /\ closed \in [Ends -> BOOLEAN]
  BY InFirstLife, InFirstLifeNext, TypesAtHand DEF StepInFirstLife
<1>2. SentBy' = SentBy /\ ReadBy' = ReadBy /\ LostIt' = LostIt /\ ~LostIt
  BY ViewsSame
<1>3. ~OverAt[e] /\ OverAt'[e] /\ OverAt' = [OverAt EXCEPT ![e] = TRUE]
  BY <1>1
<1> QED BY <1>2, <1>3, ChannelSteps

LEMMA ReadsMessage ==
    ASSUME StepInFirstLife, NEW e \in Ends, Read(e)
    PROVE  Channel!ReadMessage(e)
<1> USE DEF StepInFirstLife
<1> DEFINE t == taken[e]
<1>0. PICK p \in Ends : p = Peer[e]
  BY ConstantTypes
<1>1. /\ taken' = [taken EXCEPT ![e] = @ + 1] /\ t < Len(got[e])
      /\ UNCHANGED <<nextSend, closed, recvNext>>
  BY DEF Read, sendVars, recvVars
<1>t. /\ t \in Nat /\ taken'[e] = t + 1 /\ taken \in [Ends -> Nat] /\ life \in Nat
      /\ recvNext[e] \in Nat /\ nextSend[p] \in Nat /\ recvNext[e] - 1 \in Nat /\ nextSend[p] - 1 \in Nat
      /\ recvNext[e] <= nextSend[p]
  <2>1. taken \in [Ends -> Nat] /\ life \in Nat
    BY TypesAtHand
  <2>2. recvNext[e] <= nextSend[p]
    BY <1>0 DEF FirstLife, ReceivedSound
  <2> QED BY <1>1, <2>1, <2>2, CounterTypes
<1>2. t < recvNext[e] - 1
  <2>1. Len(got[e]) = recvNext[e] - 1
    <3>1. got[e] = Records(p, 1, recvNext[e] - 1)
      BY <1>0 DEF FirstLife, ReceivedSound
    <3> QED BY <1>t, <3>1, FirstRecords
  <2> QED BY <1>1, <2>1
<1>3. ReadBy[e] = Records(p, 1, t) /\ SentBy[p] = Records(p, 1, nextSend[p] - 1)
  BY <1>0, InFirstLife
<1>4. /\ ReadBy[e] \in Seq(RecordType) /\ Len(ReadBy[e]) = t
      /\ \A i \in 1..t : ReadBy[e][i] = Record(p, i)
  BY <1>3, <1>t, FirstRecords
<1>5. Len(SentBy[p]) = nextSend[p] - 1 /\ \A i \in 1..(nextSend[p] - 1) : SentBy[p][i] = Record(p, i)
  BY <1>3, <1>t, FirstRecords
<1>6. ReadBy'[e] = Records(p, 1, t + 1)
  <2>1. ReadBy'[e] = Records(p, 1, taken[e])'
    BY <1>0, InFirstLifeNext
  <2>2. t + 1 \in Nat /\ t + 1 < nextSend[p]
    BY <1>2, <1>t
  <2>3. [i \in 1..(((t + 1) + 1) - 1) |-> Record(p, (1 - 1) + i)'] = Records(p, 1, t + 1)
    BY <2>2, RecordsSame DEF Effects
  <2>4. Records(p, 1, taken[e])' = [i \in 1..(((t + 1) + 1) - 1) |-> Record(p, (1 - 1) + i)']
    BY <1>t DEF Records
  <2> QED BY <2>1, <2>3, <2>4
<1>7. /\ ReadBy'[e] \in Seq(RecordType) /\ Len(ReadBy'[e]) = t + 1
      /\ \A i \in 1..(t + 1) : ReadBy'[e][i] = Record(p, i)
  BY <1>6, <1>t, FirstRecords
<1> DEFINE m == SentBy[p][Len(ReadBy[e]) + 1]
<1>8. m = Record(p, t + 1) /\ m \in RecordType
  <2>1. t + 1 \in 1..(nextSend[p] - 1)
    BY <1>2, <1>t
  <2> QED BY <1>4, <1>5, <1>t, <2>1, RecordTypes
<1>9. ReadBy'[e] = Append(ReadBy[e], m)
  <2> HIDE DEF m
  <2> DEFINE a == Append(ReadBy[e], m)
             b == ReadBy'[e]
  <2>1. a \in Seq(RecordType) /\ Len(a) = t + 1
    BY <1>4, <1>8
  <2>2. \A i \in 1..(t + 1) : a[i] = b[i]
    <3> TAKE i \in 1..(t + 1)
    <3>1. CASE i = t + 1
      BY <1>4, <1>7, <1>8, <1>t, <3>1
    <3>2. CASE i # t + 1
      <4>1. i \in 1..t
        BY <1>t, <3>2
      <4>2. a[i] = ReadBy[e][i]
        BY <1>4, <1>8, <4>1
      <4> QED BY <1>4, <1>7, <4>1, <4>2
    <3> QED BY <3>1, <3>2
  <2>3. b \in Seq(RecordType) /\ Len(b) = t + 1
    BY <1>7
  <2> HIDE DEF a, b
  <2>4. a = b
    BY <1>t, <2>1, <2>2, <2>3
  <2> QED BY <2>4 DEF a, b
<1>10. \A d \in Ends : d # e => ReadBy'[d] = ReadBy[d]
  <2> TAKE d \in Ends
  <2> HAVE d # e
  <2>0. PICK q \in Ends : q = Peer[d]
    BY ConstantTypes
  <2>1. taken'[d] = taken[d] /\ taken[d] \in Nat /\ taken[d] < nextSend[q]
    <3>1. taken[d] < recvNext[d] /\ recvNext[d] <= nextSend[q] /\ taken[d] \in Nat
      BY <1>t, <2>0 DEF FirstLife, ReceivedSound
    <3>2. recvNext[d] \in Nat /\ nextSend[q] \in Nat
      BY CounterTypes
    <3> QED BY <1>1, <1>t, <3>1, <3>2
  <2>2. [i \in 1..((taken[d] + 1) - 1) |-> Record(q, (1 - 1) + i)'] = Records(q, 1, taken[d])
    BY <2>1, RecordsSame DEF Effects
  <2>3. Records(q, 1, taken[d])' = Records(q, 1, taken[d])
    BY <2>1, <2>2 DEF Records
  <2> QED BY <2>0, <2>3, InFirstLife, InFirstLifeNext
<1>11. ReadBy' = [ReadBy EXCEPT ![e] = Append(@, SentBy[Peer[e]][Len(@) + 1])]
  <2>1. ReadBy = [d \in Ends |-> ReadBy[d]] /\ ReadBy' = [d \in Ends |-> ReadBy'[d]]
    BY DEF ReadBy
  <2>2. [ReadBy EXCEPT ![e] = Append(@, SentBy[Peer[e]][Len(@) + 1])]
          = [d \in Ends |-> IF d = e THEN Append(ReadBy[e], m) ELSE ReadBy[d]]
    BY <1>0, <2>1
  <2> HIDE DEF m
  <2>3. \A d \in Ends : ReadBy'[d] = IF d = e THEN Append(ReadBy[e], m) ELSE ReadBy[d]
    BY <1>9, <1>10
  <2> QED BY <2>1, <2>2, <2>3
<1>12. SentBy' = SentBy /\ OverAt' = OverAt /\ LostIt' = LostIt
  BY <1>1, ViewsSame
<1>13. Len(ReadBy'[e]) = Len(ReadBy[e]) + 1 /\ Len(ReadBy[e]) < Len(SentBy[Peer[e]])
  BY <1>0, <1>2, <1>4, <1>5, <1>7, <1>t
<1> QED BY <1>11, <1>12, <1>13, ChannelSteps

\* A request that opens the stream finds the relay's end as it was before.
LEMMA ArriveQuiet ==
    ASSUME Shape, FirstLife, life' <= 1, NEW a, Arrive(a)
    PROVE  UNCHANGED <<nextSend, taken, closed>>
<1>1. CASE present
  BY <1>1 DEF Arrive
<1>2. CASE ~present
  <2>1. /\ life' = life + 1
        /\ nextSend' = [nextSend EXCEPT ![Relay] = 1] /\ closed' = [closed EXCEPT ![Relay] = FALSE]
        /\ taken' = [taken EXCEPT ![Relay] = 0]
    BY <1>2 DEF Arrive, Fresh
  <2>2. life = 0
    BY <2>1, TypesAtHand
  <2>3. nextSend[Relay] = 1 /\ taken[Relay] = 0 /\ ~closed[Relay]
    BY <2>2 DEF FirstLife, Pristine
  <2>4. /\ nextSend \in [Ends -> Nat \ {0}] /\ closed \in [Ends -> BOOLEAN]
        /\ taken \in [Ends -> Nat]
    BY TypesAtHand
  <2>5. closed[Relay] = FALSE
    BY <2>3, <2>4, ConstantTypes
  <2> QED BY <2>1, <2>3, <2>4, <2>5
<1> QED BY <1>1, <1>2

ChannelStep == (\E e \in Ends : Channel!WriteMessage(e) \/ Channel!ReadMessage(e) \/ Channel!End(e))
               \/ UNCHANGED Channel!channelVars

LEMMA QuietStep ==
    ASSUME StepInFirstLife, UNCHANGED <<nextSend, taken, closed>>
    PROVE  UNCHANGED Channel!channelVars
BY ViewsSame, ChannelSteps

LEMMA UserRefines ==
    ASSUME StepInFirstLife, NEW e \in Ends,
           Write(e) \/ Read(e) \/ Close(e) \/ CloseEnds(e) \/ CloseNow(e)
    PROVE  ChannelStep
<1> USE DEF StepInFirstLife
<1>t. /\ nextSend[e] \in Nat /\ plan.write[e] \in 0..(MaxMessages - 1) /\ MaxMessages \in Nat
      /\ closed \in [Ends -> BOOLEAN]
  <2>1. plan.write[e] \in 0..(MaxMessages - 1)
    BY PlanTypes
  <2> QED BY <2>1, CounterTypes, TypesAtHand, ConstantTypes
<1>b. closeSeq[e] = 0 => nextSend[e] <= plan.write[e] + 1
  BY DEF FirstLife, CloseIsLast
<1>m. closeSeq[e] = 0 => nextSend[e] <= MaxMessages
  BY <1>b, <1>t
<1>1. CASE Write(e)
  <2>1. /\ nextSend' = [nextSend EXCEPT ![e] = @ + 1] /\ closeSeq[e] = 0 /\ ~closed[e]
        /\ UNCHANGED <<closed, taken>>
    BY <1>1 DEF Write
  <2> QED BY <1>m, <2>1, WriteMessages DEF ChannelStep
<1>2. CASE Read(e)
  BY <1>2, ReadsMessage DEF ChannelStep
<1>3. CASE Close(e)
  <2>1. /\ nextSend' = [nextSend EXCEPT ![e] = @ + 1] /\ closeSeq[e] = 0 /\ ~closed[e]
        /\ UNCHANGED <<closed, taken>>
    BY <1>3 DEF Close, QueueClose
  <2> QED BY <1>m, <2>1, WriteMessages DEF ChannelStep
<1>4. ASSUME Terminate(e), ~closed[e], UNCHANGED <<sendVars, taken>> PROVE ChannelStep
  <2>1. closed' = [closed EXCEPT ![e] = TRUE] /\ UNCHANGED <<nextSend, taken>>
    BY <1>4 DEF Terminate, sendVars
  <2> QED BY <1>4, <2>1, EndsItself DEF ChannelStep
<1>5. CASE CloseEnds(e)
  BY <1>4, <1>5 DEF CloseEnds
<1>6. CASE CloseNow(e)
  <2>1. CASE UNCHANGED sendVars
    BY <1>4, <1>6, <2>1 DEF CloseNow
  <2>2. CASE QueueClose(e) /\ closeSeq[e] = 0
    <3>1. /\ nextSend' = [nextSend EXCEPT ![e] = @ + 1] /\ ~closed[e] /\ UNCHANGED taken
          /\ closed' = [closed EXCEPT ![e] = TRUE]
      BY <1>6, <2>2 DEF CloseNow, QueueClose, Terminate
    <3>2. closeSeq'[e] = nextSend[e]
      BY <2>2, TypesAtHand DEF QueueClose
    <3> QED BY <1>m, <2>2, <3>1, <3>2, WriteMessages DEF ChannelStep
  <2> QED BY <1>6, <2>1, <2>2 DEF CloseNow
<1> QED BY <1>1, <1>2, <1>3, <1>5, <1>6

LEMMA UploadRefines ==
    ASSUME StepInFirstLife, NEW k \in Uploads, Upload(k) \/ LoseUpload(k) \/ TruncateUpload(k)
    PROVE  ChannelStep
<1> USE DEF StepInFirstLife
<1>1. CASE UploadTooFar(k)
  <2>1. /\ ~closed[Relay] /\ closed' = [closed EXCEPT ![Relay] = TRUE] /\ UNCHANGED <<nextSend, taken>>
    BY <1>1 DEF UploadTooFar, sendVars
  <2> QED BY <2>1, EndsItself, ConstantTypes DEF ChannelStep
<1>2. CASE UploadReset(k)
  BY <1>2, NoReset
<1>3. CASE ~UploadTooFar(k) /\ ~UploadReset(k)
  <2>1. UNCHANGED <<nextSend, taken, closed>>
    BY <1>3 DEF Upload, UploadAck, UploadData, UploadIgnored, UploadSucceeds, UploadFails,
                LoseUpload, TruncateUpload, sendVars
  <2> QED BY <2>1, QuietStep DEF ChannelStep
<1> QED BY <1>1, <1>2, <1>3

LEMMA OtherRefines ==
    ASSUME StepInFirstLife,
           \/ \E k \in Uploads : Post(k)
           \/ \E i \in Downloads : Get(i) \/ Download(i) \/ ServeResend(i) \/ LoseDownload(i)
           \/ ResendUnacknowledged \/ ServeStray \/ Sweep \/ Restart \/ UNCHANGED vars
    PROVE  ChannelStep
<1> USE DEF StepInFirstLife
<1>1. ASSUME NEW k \in Uploads, Post(k) PROVE UNCHANGED <<nextSend, taken, closed>>
  BY <1>1, ArriveQuiet DEF Post
<1>2. ASSUME NEW i \in Downloads, Get(i) PROVE UNCHANGED <<nextSend, taken, closed>>
  BY <1>2, ArriveQuiet DEF Get
<1>3. ASSUME NEW i \in Downloads, Download(i) \/ ServeResend(i) \/ LoseDownload(i)
      PROVE  UNCHANGED <<nextSend, taken, closed>>
  BY <1>3 DEF Download, ServeDownload, ServeAck, ServeClosed, DownloadAck, DownloadData,
              DownloadTooFar, ServeResend, LoseDownload, sendVars
<1>4. ASSUME ResendUnacknowledged \/ ServeStray \/ Sweep \/ Restart \/ UNCHANGED vars
      PROVE  UNCHANGED <<nextSend, taken, closed>>
  BY <1>4 DEF ResendUnacknowledged, ServeStray, Sweep, Restart, Forget, vars, sendVars
<1>5. UNCHANGED <<nextSend, taken, closed>>
  BY <1>1, <1>2, <1>3, <1>4
<1> QED BY <1>5, QuietStep DEF ChannelStep

LEMMA ChannelStepsRefine ==
    ChannelInv /\ [Next]_vars => [Channel!Next]_(Channel!channelVars)
<1> SUFFICES ASSUME ChannelInv, [Next]_vars
             PROVE  Channel!Next \/ UNCHANGED Channel!channelVars
  OBVIOUS
<1>1. ChannelInv' /\ Shape /\ Shape'
  BY ChannelInvStep DEF ChannelInv
<1>2. life \in Nat /\ life' \in Nat /\ life' >= life
  <2>1. life \in 0..MaxLives /\ life' \in 0..MaxLives
    BY <1>1 DEF Shape, TypeOK
  <2> QED BY <1>1, <2>1, LivesGrow, ConstantTypes
<1>g. life' > 1 => /\ SentBy' = [e \in Ends |-> <<>>] /\ ReadBy' = [e \in Ends |-> <<>>]
                   /\ OverAt' = [e \in Ends |-> FALSE] /\ LostIt' = TRUE
  <2> SUFFICES ASSUME life' > 1
               PROVE  /\ SentBy' = [e \in Ends |-> <<>>] /\ ReadBy' = [e \in Ends |-> <<>>]
                      /\ OverAt' = [e \in Ends |-> FALSE] /\ LostIt' = TRUE
    OBVIOUS
  <2>1. (life' > 1) = TRUE /\ (life' <= 1) = FALSE
    BY <1>2
  <2>2. SentBy' = [e \in Ends |-> <<>>]
    BY <2>1 DEF SentBy
  <2>3. ReadBy' = [e \in Ends |-> <<>>]
    BY <2>1 DEF ReadBy
  <2>4. OverAt' = [e \in Ends |-> FALSE]
    BY <2>1 DEF OverAt
  <2>5. LostIt' = TRUE
    BY <2>1 DEF LostIt
  <2> QED BY <2>2, <2>3, <2>4, <2>5
<1>3. CASE life > 1
  <2>1. /\ SentBy = [e \in Ends |-> <<>>] /\ ReadBy = [e \in Ends |-> <<>>]
        /\ OverAt = [e \in Ends |-> FALSE] /\ LostIt = TRUE
    <3>1. (life > 1) = TRUE /\ (life <= 1) = FALSE
      BY <1>2, <1>3
    <3>2. SentBy = [e \in Ends |-> <<>>]
      BY <3>1 DEF SentBy
    <3>3. ReadBy = [e \in Ends |-> <<>>]
      BY <3>1 DEF ReadBy
    <3>4. OverAt = [e \in Ends |-> FALSE]
      BY <3>1 DEF OverAt
    <3>5. LostIt = TRUE
      BY <3>1 DEF LostIt
    <3> QED BY <3>2, <3>3, <3>4, <3>5
  <2>2. life' > 1
    BY <1>2, <1>3
  <2> QED BY <1>g, <2>1, <2>2, ChannelSteps
<1>4. CASE life <= 1 /\ life' > 1
  <2>1. ~LostIt
    BY <1>2, <1>4 DEF LostIt
  <2>2. Channel!Lose
    BY <1>g, <1>4, <2>1, ChannelSteps
  <2> QED BY <2>2 DEF Channel!Next
<1>5. CASE life <= 1 /\ life' <= 1
  <2>1. FirstLife /\ FirstLife'
    BY <1>1, <1>5 DEF ChannelInv
  <2>2. StepInFirstLife
    BY <1>1, <1>5, <2>1, FirstLifeStep DEF StepInFirstLife
  <2>3. ChannelStep
    <3>1. ASSUME NEW e \in Ends, Write(e) \/ Read(e) \/ Close(e) \/ CloseEnds(e) \/ CloseNow(e)
          PROVE  ChannelStep
      BY <2>2, <3>1, UserRefines
    <3>2. ASSUME NEW k \in Uploads, Upload(k) \/ LoseUpload(k) \/ TruncateUpload(k)
          PROVE  ChannelStep
      BY <2>2, <3>2, UploadRefines
    <3> QED BY <2>2, <3>1, <3>2, OtherRefines DEF Next
  <2> QED BY <2>3 DEF ChannelStep, Channel!Next
<1> QED BY <1>2, <1>3, <1>4, <1>5

\* HTTPStreamConn is a message channel until the relay has lost the stream: what
\* an end reads is what the other has written, in order, each message once and
\* the close last, whatever requests and answers were lost, repeated or late.
THEOREM HTTPStreamIsChannel == Spec => ImplementsMessageChannel
<1>1. Spec => []ChannelInv
  BY ChannelInvInit, ChannelInvStep, PTL DEF Spec
<1> QED BY <1>1, ChannelInit, ChannelStepsRefine, PTL DEF Spec, ImplementsMessageChannel, Channel!Spec
=============================================================================
