------------------------------ MODULE HTTPStream ------------------------------
(***************************************************************************)
(* internal/tunnel/http_stream.go: a MessageConn over plain HTTP requests. *)
(* The client sends its messages in POSTs (uploads) and fetches the        *)
(* relay's with GETs (downloads), several of each at a time.  Each end     *)
(* numbers its records, keeps them until they are acknowledged, and puts   *)
(* those that arrive early in order.  Requests and answers may be lost,    *)
(* cut off, or carried out after the client has given them up; the relay   *)
(* may restart, and sweeps streams that have ended.                        *)
(*                                                                         *)
(* The client is the one of this repository: it asks for batches and       *)
(* announces that it pipelines.  Time is abstract: a timer may fire at any *)
(* moment at which it is set.                                              *)
(***************************************************************************)
EXTENDS Naturals, Sequences, FiniteSets

CONSTANTS Client, Relay,       \* the two ends
          MaxBuffered,         \* httpStreamMaxBuffered, in records
          ReorderLimit,        \* httpStreamReorderLimit
          UploadPipeline,      \* httpStreamUploadPipeline
          DownloadPipeline,    \* httpStreamDownloadPipeline
          BatchRecords,        \* httpStreamPipelineBatchBytes, in records
          MaxMessages,         \* bound: messages an end writes, its close included
          MaxLoss,             \* bound: requests and answers lost
          MaxLives,            \* bound: times the relay accepts the stream
          Plans                \* bound: what happens in a behaviour at most

ASSUME EndsAssumption == Client # Relay
ASSUME LimitsAssumption ==
    /\ MaxBuffered \in Nat \ {0} /\ ReorderLimit \in Nat /\ BatchRecords \in Nat \ {0}
    /\ UploadPipeline \in Nat \ {0} /\ DownloadPipeline \in Nat \ {0}
    /\ MaxMessages \in Nat \ {0} /\ MaxLoss \in Nat /\ MaxLives \in Nat \ {0}

Ends == {Client, Relay}
Peer == [e \in Ends |-> IF e = Client THEN Relay ELSE Client]
\* A plan: messages each end writes, requests lost, restarts of the relay, how
\* often it accepts the stream, download loops of the client that take part,
\* and the ends that call Close or CloseNow.
PlanType == [write : [Ends -> 0..(MaxMessages - 1)], loss : 0..MaxLoss, restart : Nat, lives : 1..MaxLives,
             loops : 1..DownloadPipeline,
             close : SUBSET Ends, abort : SUBSET Ends]
ASSUME PlansAssumption == Plans \subseteq PlanType

\* More places for uploads than the client uses: those it has given up may
\* still be carried out.
Uploads == 1..(UploadPipeline + MaxLoss)
Downloads == 1..DownloadPipeline

VARIABLES
    \* both ends
    nextSend,   \* nextSend[e]
    sendBase,   \* sendBase[e]: the first record of sendFrames, or nextSend
    closeSeq,   \* closeSeq[e]: number of the close record (0: not closing)
    closed,     \* closed[e]
    recvNext,   \* recvNext[e]
    recvAhead,  \* recvAhead[e]: records that arrived before an earlier one
    got,        \* got[e]: the records that have entered recvQueue
    taken,      \* taken[e]: how many of them Read has returned
    \* the client
    upload,     \* upload[k]: an upload in flight
    nextClaim, pipelined, warmups,
    download,   \* download[i]: the request of a download loop
    confirmed,  \* downPipelineOnce: the other download loops run
    \* the relay
    present,    \* the relay's table has the stream
    life,       \* how often the relay has accepted it
    dispatched, \* downDispatched
    resetDone,  \* resetLostSendSequence has been applied, Close is to follow
    stray,      \* downloads that wait at the relay and have no client
    losses, restarts,
    plan

sendVars == <<nextSend, sendBase, closeSeq>>
recvVars == <<recvNext, recvAhead, got>>
clientVars == <<upload, nextClaim, pipelined, warmups, download, confirmed>>
relayVars == <<present, life, dispatched, resetDone, stray>>
faultVars == <<losses, restarts, plan>>
vars == <<sendVars, closed, recvVars, taken, clientVars, relayVars, faultVars>>

-----------------------------------------------------------------------------
(* Records.                                                                *)

\* A record of an end; those of the relay also tell which life wrote them.
Record(e, s) == [kind |-> IF s = closeSeq[e] THEN "close" ELSE "data", seq |-> s,
                 life |-> IF e = Client THEN 0 ELSE life]
AckOfNext(a) == [kind |-> "ack", seq |-> a + 1, life |-> 0]
AckRecord(a) == [kind |-> "ack", seq |-> a, life |-> 0]
\* The records lo..hi of e, and the batch that carries them.
Records(e, lo, hi) == [i \in 1..((hi + 1) - lo) |-> Record(e, (lo - 1) + i)]
Batch(e, ack, lo, hi) == <<AckRecord(ack)>> \o Records(e, lo, hi)

Kinds == {"data", "close", "ack"}
RecordType == [kind : Kinds, seq : Nat, life : Nat]
UploadStates == {"idle",    \* no request
                 "sent",    \* the relay may read its records
                 "failed",  \* refused, the client has not seen it yet
                 "late"}    \* given up by the client, not by the network
DownloadStates == {"idle", "waiting", "answered"}

NoUpload == [st |-> "idle", first |-> 0, todo |-> <<>>]
NoDownload == [st |-> "idle", todo |-> <<>>]
InFlight == {k \in Uploads : upload[k].st \in {"sent", "failed"}}
Least(S) == CHOOSE n \in S : \A k \in S : n <= k

Init ==
    /\ nextSend = [e \in Ends |-> 1] /\ sendBase = [e \in Ends |-> 1]
    /\ closeSeq = [e \in Ends |-> 0] /\ closed = [e \in Ends |-> FALSE]
    /\ recvNext = [e \in Ends |-> 1] /\ recvAhead = [e \in Ends |-> {}]
    /\ got = [e \in Ends |-> <<>>] /\ taken = [e \in Ends |-> 0]
    /\ upload = [k \in Uploads |-> NoUpload]
    /\ nextClaim = 1 /\ pipelined = FALSE /\ warmups = 1
    /\ download = [i \in Downloads |-> NoDownload] /\ confirmed = FALSE
    /\ present = FALSE /\ life = 0 /\ dispatched = 0 /\ resetDone = FALSE
    /\ stray = 0 /\ losses = 0 /\ restarts = 0
    /\ plan \in Plans

-----------------------------------------------------------------------------
(* The users of the two ends.                                              *)

Exists(e) == e = Client \/ present
HasRoom(e) == nextSend[e] - sendBase[e] < MaxBuffered

\* queueFrame: waits for room in the send buffer.
Write(e) ==
    /\ Exists(e) /\ ~closed[e] /\ closeSeq[e] = 0
    /\ HasRoom(e) /\ nextSend[e] <= plan.write[e]
    /\ nextSend' = [nextSend EXCEPT ![e] = @ + 1]
    /\ UNCHANGED <<sendBase, closeSeq, closed, recvVars, taken, clientVars, relayVars, faultVars>>

Read(e) ==
    /\ Exists(e) /\ taken[e] < Len(got[e])
    /\ taken' = [taken EXCEPT ![e] = @ + 1]
    /\ UNCHANGED <<sendVars, closed, recvVars, clientVars, relayVars, faultVars>>

\* The close record is queued behind all others, without a limit.
QueueClose(e) ==
    /\ closeSeq' = [closeSeq EXCEPT ![e] = nextSend[e]]
    /\ nextSend' = [nextSend EXCEPT ![e] = @ + 1]
    /\ UNCHANGED sendBase

\* Downloads that wait at the relay when it closes return nothing, unless they
\* see the end before that of the context.
EndWaiting ==
    \E S \in SUBSET {i \in Downloads : download[i].st = "waiting"} :
        download' = [i \in Downloads |-> IF i \in S THEN NoDownload ELSE download[i]]

\* closeTerminal.  The client's requests are cancelled with its context; the
\* relay may still read those that have reached it.
Terminate(e) ==
    /\ closed' = [closed EXCEPT ![e] = TRUE]
    /\ IF e = Client
       THEN /\ upload' = [k \in Uploads |-> IF upload[k].st = "idle" THEN NoUpload
                                            ELSE [upload[k] EXCEPT !.st = "late"]]
            /\ download' = [i \in Downloads |-> NoDownload]
            /\ UNCHANGED <<nextClaim, pipelined, warmups, confirmed>>
       ELSE /\ EndWaiting
            /\ UNCHANGED <<upload, nextClaim, pipelined, warmups, confirmed>>

\* Close, its first half; also the one that follows a reset.
Close(e) ==
    /\ Exists(e) /\ ~closed[e] /\ closeSeq[e] = 0
    /\ e \in plan.close \/ (e = Relay /\ resetDone)
    /\ QueueClose(e)
    /\ UNCHANGED <<closed, recvVars, taken, clientVars, relayVars, faultVars>>

\* Close, its second half: the close record is acknowledged, or the time for
\* it has passed.
CloseEnds(e) ==
    /\ Exists(e) /\ ~closed[e] /\ closeSeq[e] # 0
    /\ Terminate(e)
    /\ UNCHANGED <<sendVars, recvVars, taken, relayVars, faultVars>>

\* CloseNow: the relay leaves a close record for the next download.  Also the
\* end of clientDownLoop when it cannot recover.
CloseNow(e) ==
    /\ Exists(e) /\ ~closed[e] /\ e \in plan.abort
    /\ IF e = Relay /\ closeSeq[e] = 0 THEN QueueClose(e) ELSE UNCHANGED sendVars
    /\ Terminate(e)
    /\ UNCHANGED <<recvVars, taken, relayVars, faultVars>>

-----------------------------------------------------------------------------
(* applyRecord.                                                            *)

\* An acknowledgement frees what it covers.
Trim(e, a) == sendBase' = [sendBase EXCEPT ![e] = IF a >= @ /\ a < nextSend[e] THEN a + 1 ELSE @]

\* The records an arriving one puts in order: itself and those held behind it.
Sequel(e, r) ==
    LET held == recvAhead[e] \cup {r}
        end == Least({n \in r.seq..(r.seq + Cardinality(held)) : \A h \in held : h.seq # n})
    IN  [i \in 1..(end - r.seq) |-> CHOOSE h \in held : h.seq = (r.seq - 1) + i]

Held(e, r) == \E h \in recvAhead[e] : h.seq = r.seq
DuplicateHeld(e, r) == Held(e, r)
Duplicate(e, r) == r.seq < recvNext[e] \/ Held(e, r)
Early(e, r) == r.seq > recvNext[e]
TooFarByOne(e, r) == Early(e, r) /\ ~Held(e, r) /\ Cardinality(recvAhead[e]) > ReorderLimit
TooFar(e, r) == Early(e, r) /\ ~Held(e, r) /\ Cardinality(recvAhead[e]) >= ReorderLimit

\* A data or close record that the receiver does not refuse.
Receive(e, r) ==
    /\ ~TooFar(e, r)
    /\ IF Duplicate(e, r) THEN UNCHANGED recvVars
       ELSE IF Early(e, r)
       THEN /\ recvAhead' = [recvAhead EXCEPT ![e] = @ \cup {r}]
            /\ UNCHANGED <<recvNext, got>>
       ELSE LET run == Sequel(e, r)
            IN  /\ got' = [got EXCEPT ![e] = @ \o run]
                /\ recvNext' = [recvNext EXCEPT ![e] = @ + Len(run)]
                /\ recvAhead' = [recvAhead EXCEPT
                                   ![e] = {h \in @ : h.seq >= r.seq + Len(run)}]

-----------------------------------------------------------------------------
(* The relay accepts a stream it does not know: HTTPStreamServer.Serve.    *)

\* The relay's end of a stream that is created by the request at hand.
Fresh(f, v) == [f EXCEPT ![Relay] = v]

\* What a request finds at the relay, with `a' its acknowledgement.
Arrive(a) ==
    IF present
    THEN /\ Trim(Relay, a)
         /\ UNCHANGED <<nextSend, closeSeq, closed, recvVars, taken, relayVars>>
    ELSE /\ life < plan.lives
         /\ present' = TRUE /\ life' = life + 1
         /\ nextSend' = Fresh(nextSend, 1) /\ sendBase' = Fresh(sendBase, 1)
         /\ closeSeq' = Fresh(closeSeq, 0) /\ closed' = Fresh(closed, FALSE)
         /\ recvNext' = Fresh(recvNext, 1) /\ recvAhead' = Fresh(recvAhead, {})
         /\ got' = Fresh(got, <<>>) /\ taken' = Fresh(taken, 0)
         /\ dispatched' = 0 /\ resetDone' = FALSE /\ stray' = 0

-----------------------------------------------------------------------------
(* Uploads: clientUpLoop, postUpload, serveUpload.                         *)

Window == IF pipelined THEN UploadPipeline ELSE 1
LastOf(lo) == IF pipelined /\ (lo + BatchRecords) - 1 < nextSend[Client] - 1
              THEN (lo + BatchRecords) - 1 ELSE nextSend[Client] - 1
FirstOf == IF nextClaim >= sendBase[Client] THEN nextClaim ELSE sendBase[Client]

\* A batch of unacknowledged records from nextClaim on.  Without any there is
\* an upload to warm a connection, or (with none in flight) to acknowledge or
\* to keep alive.
Post(k) ==
    /\ ~closed[Client] /\ upload[k].st = "idle" /\ \A j \in 1..(k - 1) : upload[j].st # "idle"
    /\ Cardinality(InFlight) < Window
    /\ LET lo == FirstOf
           hi == LastOf(lo)
           batch == Batch(Client, recvNext[Client] - 1, lo, hi)
       IN  IF lo <= hi
           THEN /\ upload' = [upload EXCEPT ![k] = [st |-> "sent", first |-> lo, todo |-> batch]]
                /\ nextClaim' = hi + 1
                /\ UNCHANGED warmups
           ELSE /\ InFlight = {} \/ warmups > 0
                /\ upload' = [upload EXCEPT ![k] = [st |-> "sent", first |-> 0, todo |-> batch]]
                /\ warmups' = IF warmups > 0 THEN warmups - 1 ELSE 0
                /\ UNCHANGED nextClaim
    /\ Arrive(0)
    /\ UNCHANGED <<pipelined, download, confirmed, faultVars>>

\* Nothing is in flight and a record was not acknowledged for a while.
ResendUnacknowledged ==
    /\ ~closed[Client] /\ InFlight = {}
    /\ sendBase[Client] < nextSend[Client] /\ sendBase[Client] < nextClaim
    /\ nextClaim' = sendBase[Client]
    /\ UNCHANGED <<sendVars, closed, recvVars, taken, upload, pipelined, warmups, download,
                   confirmed, relayVars, faultVars>>

Readable(k) == present /\ upload[k].st \in {"sent", "late"} /\ upload[k].todo # <<>>
UploadTail(k) == IF upload[k].st = "late" /\ Len(upload[k].todo) = 1 THEN NoUpload
                 ELSE [upload[k] EXCEPT !.todo = Tail(@)]
\* The relay stops reading the upload; the client is told `st'.
Stopped(k, st) == IF upload[k].st = "late" THEN NoUpload
                  ELSE [upload[k] EXCEPT !.st = st, !.todo = <<>>]
OtherClient == <<nextClaim, pipelined, warmups, download, confirmed>>

\* serveUpload reads an acknowledgement of something this life has sent.
UploadAck(k) ==
    /\ Readable(k) /\ ~closed[Relay]
    /\ LET r == Head(upload[k].todo)
       IN  /\ r.kind = "ack" /\ r.seq < nextSend[Relay]
           /\ Trim(Relay, r.seq)
    /\ upload' = [upload EXCEPT ![k] = UploadTail(k)]
    /\ UNCHANGED <<nextSend, closeSeq, closed, recvVars, taken, OtherClient, relayVars, faultVars>>

\* resetLostSendSequence: an earlier life had sent more than this one.
UploadReset(k) ==
    /\ Readable(k) /\ ~closed[Relay]
    /\ LET r == Head(upload[k].todo)
       IN  /\ r.kind = "ack" /\ r.seq >= nextSend[Relay]
           /\ nextSend' = [nextSend EXCEPT ![Relay] = r.seq + 1]
           /\ sendBase' = [sendBase EXCEPT ![Relay] = r.seq + 1]
    /\ resetDone' = TRUE
    /\ upload' = [upload EXCEPT ![k] = Stopped(k, "failed")]
    /\ UNCHANGED <<closeSeq, closed, recvVars, taken, OtherClient, present, life, dispatched,
                   stray, faultVars>>

UploadData(k) ==
    /\ Readable(k) /\ ~closed[Relay]
    /\ Head(upload[k].todo).kind # "ack"
    /\ Receive(Relay, Head(upload[k].todo))
    /\ upload' = [upload EXCEPT ![k] = UploadTail(k)]
    /\ UNCHANGED <<sendVars, closed, taken, OtherClient, relayVars, faultVars>>

\* Too many records ahead of a missing one: the relay's end is over.
UploadTooFar(k) ==
    /\ Readable(k) /\ ~closed[Relay]
    /\ Head(upload[k].todo).kind # "ack" /\ TooFar(Relay, Head(upload[k].todo))
    /\ upload' = [upload EXCEPT ![k] = Stopped(k, "sent")]
    /\ closed' = [closed EXCEPT ![Relay] = TRUE]
    /\ EndWaiting
    /\ UNCHANGED <<sendVars, recvVars, taken, nextClaim, pipelined, warmups, confirmed, relayVars,
                   faultVars>>

\* The stream has been closed meanwhile: serveUpload returns.
UploadIgnored(k) ==
    /\ Readable(k) /\ closed[Relay]
    /\ upload' = [upload EXCEPT ![k] = Stopped(k, "sent")]
    /\ UNCHANGED <<sendVars, closed, recvVars, taken, OtherClient, relayVars, faultVars>>

\* The client resends from a batch that failed.
Rewind(k) == nextClaim' = IF upload[k].first # 0 /\ upload[k].first < nextClaim
                          THEN upload[k].first ELSE nextClaim

UploadSucceeds(k) ==
    /\ upload[k].st = "sent" /\ upload[k].todo = <<>>
    /\ upload' = [upload EXCEPT ![k] = NoUpload]
    /\ pipelined' = TRUE
    /\ warmups' = IF pipelined THEN warmups ELSE UploadPipeline - 1
    /\ UNCHANGED <<sendVars, closed, recvVars, taken, nextClaim, download, confirmed, relayVars,
                   faultVars>>

UploadFails(k) ==
    /\ upload[k].st = "failed"
    /\ upload' = [upload EXCEPT ![k] = NoUpload]
    /\ Rewind(k)
    /\ UNCHANGED <<sendVars, closed, recvVars, taken, pipelined, warmups, download, confirmed,
                   relayVars, faultVars>>

\* The client does not get the answer.  What it sent may still arrive.
LoseUpload(k) ==
    /\ upload[k].st = "sent" /\ losses < plan.loss
    /\ upload' \in {[upload EXCEPT ![k] = NoUpload],
                    [upload EXCEPT ![k] = IF upload[k].todo = <<>> THEN NoUpload
                                          ELSE [@ EXCEPT !.st = "late"]]}
    /\ Rewind(k)
    /\ losses' = losses + 1
    /\ UNCHANGED <<sendVars, closed, recvVars, taken, pipelined, warmups, download, confirmed,
                   relayVars, restarts, plan>>

\* A proxy cuts the body off, and the relay answers what it got.
TruncateUpload(k) ==
    /\ upload[k].st = "sent" /\ upload[k].todo # <<>> /\ losses < plan.loss
    /\ upload' = [upload EXCEPT ![k].todo = <<>>]
    /\ losses' = losses + 1
    /\ UNCHANGED <<sendVars, closed, recvVars, taken, OtherClient, relayVars, restarts, plan>>

Upload(k) == \/ UploadAck(k) \/ UploadReset(k) \/ UploadData(k) \/ UploadTooFar(k)
             \/ UploadIgnored(k) \/ UploadSucceeds(k) \/ UploadFails(k)

-----------------------------------------------------------------------------
(* Downloads: clientDownLoop, clientDownPipelineLoop, downloadOnce,        *)
(* readDownload, serveDownload, serveDownloadBatch.                        *)

OtherUp == <<upload, nextClaim, pipelined, warmups, confirmed>>

\* A loop asks for a batch, and tells what the client has received.
Get(i) ==
    /\ ~closed[Client] /\ download[i].st = "idle" /\ (i = 1 \/ (confirmed /\ i <= plan.loops))
    /\ download' = [download EXCEPT ![i].st = "waiting"]
    /\ Arrive(recvNext[Client] - 1)
    /\ UNCHANGED <<OtherUp, faultVars>>

OutstandingBehind == sendBase[Relay] < dispatched
Outstanding == sendBase[Relay] < nextSend[Relay] /\ sendBase[Relay] <= dispatched
\* claimDownloadLocked: the records after `after'.
ClaimFrom(after) == IF after >= sendBase[Relay] THEN after + 1 ELSE sendBase[Relay]
Answer(lo) == Batch(Relay, recvNext[Relay] - 1, lo, nextSend[Relay] - 1)
Claim(after) == dispatched' = IF ClaimFrom(after) < nextSend[Relay] THEN nextSend[Relay] - 1
                              ELSE after
OtherRelay == <<present, life, resetDone>>

\* A waiting download takes all that no other answer has carried.
ServeDownload(i) ==
    /\ present /\ ~closed[Relay] /\ download[i].st = "waiting"
    /\ ClaimFrom(dispatched) < nextSend[Relay]
    /\ download' = [download EXCEPT ![i] = [st |-> "answered",
                                            todo |-> Answer(ClaimFrom(dispatched))]]
    /\ Claim(dispatched)
    /\ UNCHANGED <<sendVars, closed, recvVars, taken, OtherUp, OtherRelay, stray, faultVars>>

\* Without any it answers when its timer fires, or to acknowledge.  The answer
\* is taken to arrive at once: a late acknowledgement changes nothing.
ServeAck(i) ==
    /\ present /\ ~closed[Relay] /\ download[i].st = "waiting"
    /\ ClaimFrom(dispatched) = nextSend[Relay]
    /\ download' = [download EXCEPT ![i] = NoDownload]
    /\ Trim(Client, recvNext[Relay] - 1)
    /\ confirmed' = TRUE
    /\ UNCHANGED <<nextSend, closeSeq, closed, recvVars, taken, upload, nextClaim, pipelined,
                   warmups, relayVars, faultVars>>

\* Records that were dispatched have stayed unacknowledged too long.
ServeResend(i) ==
    /\ present /\ ~closed[Relay] /\ download[i].st = "waiting" /\ Outstanding
    /\ download' = [download EXCEPT ![i] = [st |-> "answered",
                                            todo |-> Answer(ClaimFrom(sendBase[Relay] - 1))]]
    /\ Claim(sendBase[Relay] - 1)
    /\ UNCHANGED <<sendVars, closed, recvVars, taken, OtherUp, OtherRelay, stray, faultVars>>

RemainingData == Batch(Relay, recvNext[Relay] - 1, sendBase[Relay], closeSeq[Relay] - 1)
Remaining == Answer(sendBase[Relay])

\* After the end a download gets all that remains, close record included.
ServeClosed(i) ==
    /\ present /\ closed[Relay] /\ download[i].st = "waiting"
    /\ download' = [download EXCEPT ![i] = [st |-> "answered", todo |-> Remaining]]
    /\ UNCHANGED <<sendVars, closed, recvVars, taken, OtherUp, relayVars, faultVars>>

\* A download whose client has gone claims records too, and they are lost.
ServeStray ==
    /\ present /\ ~closed[Relay] /\ stray > 0
    /\ ClaimFrom(dispatched) < nextSend[Relay]
    /\ Claim(dispatched)
    /\ stray' = stray - 1
    /\ UNCHANGED <<sendVars, closed, recvVars, taken, clientVars, OtherRelay, faultVars>>

Fetched(i) == download[i].st = "answered"
\* The answer without its first record; a loop that has read all asks again.
DownloadTail(i) == IF Len(download[i].todo) = 1 THEN NoDownload
                   ELSE [download[i] EXCEPT !.todo = Tail(@)]

DownloadAck(i) ==
    /\ Fetched(i) /\ Head(download[i].todo).kind = "ack"
    /\ LET a == Head(download[i].todo).seq
       IN  /\ Trim(Client, a)
           /\ download' = [download EXCEPT ![i] = IF a >= nextSend[Client] THEN NoDownload
                                                  ELSE DownloadTail(i)]
    /\ confirmed' = TRUE
    /\ UNCHANGED <<nextSend, closeSeq, closed, recvVars, taken, upload, nextClaim, pipelined,
                   warmups, relayVars, faultVars>>

DownloadData(i) ==
    /\ Fetched(i) /\ Head(download[i].todo).kind # "ack"
    /\ Receive(Client, Head(download[i].todo))
    /\ download' = [download EXCEPT ![i] = DownloadTail(i)]
    /\ UNCHANGED <<sendVars, closed, taken, OtherUp, relayVars, faultVars>>

\* Too far ahead: the client leaves the rest of the answer.
DownloadTooFar(i) ==
    /\ Fetched(i) /\ Head(download[i].todo).kind # "ack"
    /\ TooFar(Client, Head(download[i].todo))
    /\ download' = [download EXCEPT ![i] = NoDownload]
    /\ UNCHANGED <<sendVars, closed, recvVars, taken, OtherUp, relayVars, faultVars>>

\* A download fails while it waits, or while its answer is on its way.
LoseDownload(i) ==
    /\ download[i].st # "idle" /\ losses < plan.loss
    /\ download' = [download EXCEPT ![i] = NoDownload]
    /\ stray' \in IF download[i].st = "waiting" THEN {stray, stray + 1} ELSE {stray}
    /\ losses' = losses + 1
    /\ UNCHANGED <<sendVars, closed, recvVars, taken, OtherUp, present, life, dispatched,
                   resetDone, restarts, plan>>

Download(i) == \/ ServeDownload(i) \/ ServeAck(i) \/ ServeClosed(i) \/ DownloadAck(i)
               \/ DownloadData(i) \/ DownloadTooFar(i)

-----------------------------------------------------------------------------
(* The relay's table of streams.                                           *)

\* The relay's end goes away with the requests it was serving.
Forget(st) ==
    /\ present' = FALSE
    /\ upload' = [k \in Uploads |->
                    IF upload[k].st = "sent" /\ upload[k].todo # <<>> THEN Stopped(k, st)
                    ELSE IF upload[k].st = "late" THEN NoUpload ELSE upload[k]]
    /\ download' = [i \in Downloads |-> IF download[i].st = "waiting" THEN NoDownload
                                        ELSE download[i]]
    /\ stray' = 0
    /\ UNCHANGED <<sendVars, closed, recvVars, taken, nextClaim, pipelined, warmups, confirmed,
                   life, dispatched, resetDone>>

\* sweep, once a minute: streams that are closed, or have no requests.
Sweep ==
    /\ present /\ (closed[Relay] \/ closed[Client])
    /\ Forget("sent")
    /\ UNCHANGED faultVars

Restart ==
    /\ present /\ restarts < plan.restart
    /\ restarts' = restarts + 1
    /\ Forget("failed")
    /\ UNCHANGED <<losses, plan>>

Next ==
    \/ \E e \in Ends : Write(e) \/ Read(e) \/ Close(e) \/ CloseEnds(e) \/ CloseNow(e)
    \/ \E k \in Uploads : Post(k) \/ Upload(k) \/ LoseUpload(k) \/ TruncateUpload(k)
    \/ \E i \in Downloads : Get(i) \/ Download(i) \/ ServeResend(i) \/ LoseDownload(i)
    \/ ResendUnacknowledged \/ ServeStray \/ Sweep \/ Restart

Spec == Init /\ [][Next]_vars

\* Reads are made and a Close that has begun ends (only so many of them that one
\* condition covers them), and every loop goes on.  The uploads of one client
\* need no fairness each: while one is in flight only a few others can begin. The two resend clocks are not set back while nothing
\* is acknowledged, so a resend that stays due takes place although requests
\* come and go: strong fairness.
Fairness ==
    /\ WF_vars(\E e \in Ends : Read(e) \/ CloseEnds(e) \/ (resetDone /\ Close(e)))
    /\ WF_vars(\E k \in Uploads : Post(k) \/ (upload[k].st # "late" /\ Upload(k)))
    /\ \A i \in Downloads : WF_vars(Get(i) \/ Download(i))
    /\ SF_vars(ResendUnacknowledged)
    /\ SF_vars(\E i \in Downloads : ServeResend(i))

FairSpec == Spec /\ Fairness

-----------------------------------------------------------------------------
(* Properties.                                                             *)

TypeOK ==
    /\ nextSend \in [Ends -> Nat \ {0}] /\ sendBase \in [Ends -> Nat \ {0}]
    /\ \A e \in Ends : sendBase[e] <= nextSend[e]
    /\ closeSeq \in [Ends -> Nat] /\ closed \in [Ends -> BOOLEAN]
    /\ recvNext \in [Ends -> Nat \ {0}] /\ recvAhead \in [Ends -> SUBSET RecordType]
    /\ \A e \in Ends : Cardinality(recvAhead[e]) <= ReorderLimit
    /\ got \in [Ends -> Seq(RecordType)] /\ taken \in [Ends -> Nat]
    /\ upload \in [Uploads -> [st : UploadStates, first : Nat, todo : Seq(RecordType)]]
    /\ download \in [Downloads -> [st : DownloadStates, todo : Seq(RecordType)]]
    /\ nextClaim \in Nat \ {0} /\ warmups \in Nat /\ {pipelined, confirmed, present, resetDone} \subseteq BOOLEAN
    /\ life \in 0..MaxLives /\ dispatched \in Nat /\ stray \in 0..MaxLoss
    /\ losses \in 0..MaxLoss /\ restarts \in Nat /\ plan \in Plans

\* While the relay has one life: what an end has freed, the other has received,
\* so no resend can need it (applyRecord, applyDownstreamAck).
FreedIsReceived ==
    life <= 1 => \A e \in Ends : sendBase[e] <= recvNext[Peer[e]]

\* The client and the relay see a channel of messages (HTTPStreamConn: "safe to
\* replay after a proxy timeout without duplicating messages").
Channel == INSTANCE MessageChannel WITH
    Messages <- [kind : {"data", "close"}, seq : 1..MaxMessages, life : 0..1],
    Closing <- LAMBDA r : r.kind = "close",
    sent <- [e \in Ends |-> IF life > 1 THEN <<>> ELSE Records(e, 1, nextSend[e] - 1)],
    got <- [e \in Ends |-> IF life > 1 THEN <<>> ELSE SubSeq(got[e], 1, taken[e])],
    over <- [e \in Ends |-> life <= 1 /\ closed[e]],
    lost <- life > 1
ImplementsMessageChannel == Channel!Spec

\* A record that is written is read by the other end, whatever requests were
\* lost or repeated, unless an end closes or the relay restarts.
Ended == closed[Client] \/ closed[Relay] \/ restarts > 0
WrittenIsRead == []<>(Ended \/ \A e \in Ends : taken[Peer[e]] = nextSend[e] - 1)

\* CloseNow: "A relay aborting a stream queues a close record that the client's
\* next download receives", unless the client has ended or lost the stream.
AbortIsSeen ==
    closed[Relay] /\ closeSeq[Relay] # 0
        ~> \/ closed[Client] \/ ~present
           \/ \E n \in 1..Len(got[Client]) : got[Client][n].kind = "close"

\* The relay takes a stream for a new one only after a restart: one that it has
\* closed is not opened again by a client that has yet to learn of it.
AcceptedOnce == life <= 1 + restarts
=============================================================================
