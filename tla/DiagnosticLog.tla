----------------------------- MODULE DiagnosticLog -----------------------------
(***************************************************************************)
(* The diagnostic log of a program: internal/diaglog writes a line to the  *)
(* day's file, which is rotated by size and kept for some days, and then   *)
(* internal/remotelog queues it and uploads it to every relay target in    *)
(* batches that the relay's ServeDiagnosticLog prints and acknowledges.    *)
(* A line the file refuses is not queued (io.MultiWriter).  A line counts  *)
(* 1 towards every limit of size.                                          *)
(***************************************************************************)
EXTENDS Naturals, Sequences, SequencesExt

CONSTANTS Target,
          LogPlans,                 \* what a behaviour may have
          MaxDays, RetentionDays,   \* days that pass (bound); days of files kept
          MaxSize,                  \* of a file
          MaxQueued, MaxBatch       \* of the backlog, of a batch

Day == 0..MaxDays
LogPlanType == [targets : SUBSET Target, lines : Nat, days : 0..MaxDays,
                fileFaults : Nat, linkFaults : Nat]
LogPlansAssumption == LogPlans \subseteq LogPlanType
LogLimitsAssumption ==
    /\ {MaxSize, MaxQueued, MaxBatch, RetentionDays} \subseteq Nat \ {0} /\ MaxDays \in Nat

VARIABLES
    logPlan, lines,        \* lines: log calls so far
    today, fileFaults, linkFaults,
    \* dailyWriter
    date, opened, size,
    file, old,             \* a day's files: log numbers in order
    taken,                 \* what the day's file accepted
    \* Hub
    low, next, token,      \* the backlog is low..next-1; notify
    \* an upload
    upload, from, count,   \* its batch is from..from+count-1
    acked,                 \* acked[t]: the uploader's next
    late, recorded         \* batches the relay still reads; what it printed

fileVars == <<date, opened, size, file, old, taken>>
hubVars == <<low, next, token>>
uploadVars == <<upload, from, count, acked, late, recorded>>
vars == <<logPlan, lines, today, fileFaults, linkFaults, fileVars, hubVars, uploadVars>>

UploadStates == {"apart", "resting", "ready", "waiting", "sent", "printed", "stopped"}

Init ==
    /\ logPlan \in LogPlans /\ lines = 0 /\ today = 0 /\ fileFaults = 0 /\ linkFaults = 0
    /\ date = 0 /\ opened = TRUE /\ size = 0
    /\ file = [d \in Day |-> <<>>] /\ old = [d \in Day |-> <<>>] /\ taken = [d \in Day |-> <<>>]
    /\ low = 1 /\ next = 1 /\ token = FALSE
    /\ upload = [t \in Target |-> "apart"] /\ from = [t \in Target |-> 0]
    /\ count = [t \in Target |-> 0] /\ acked = [t \in Target |-> 1]
    /\ late = [t \in Target |-> {}] /\ recorded = [t \in Target |-> {}]

-----------------------------------------------------------------------------
(* dailyWriter.Write.                                                      *)

\* A file operation may fail.
Fault == fileFaults < logPlan.fileFaults /\ fileFaults' = fileFaults + 1

Pruned(f) == [d \in Day |-> IF d + RetentionDays <= today THEN <<>> ELSE f[d]]
Appended == /\ file' = [file EXCEPT ![today] = Append(@, lines + 1)]
            /\ taken' = [taken EXCEPT ![today] = Append(@, lines + 1)]

Full == size > 0 /\ size + 1 > MaxSize
WriteHere ==
    /\ date = today /\ opened /\ ~Full
    /\ Appended /\ size' = size + 1
    /\ UNCHANGED <<date, opened, old, fileFaults>>

\* openForDate: the date is the new one even if what follows fails.
WriteNextDay ==
    /\ date # today
    /\ date' = today /\ opened' = TRUE /\ size' = 1
    /\ old' = Pruned(old)
    /\ file' = [Pruned(file) EXCEPT ![today] = <<lines + 1>>]
    /\ taken' = [taken EXCEPT ![today] = <<lines + 1>>]
    /\ UNCHANGED fileFaults
FailNextDay ==
    /\ date # today /\ Fault
    /\ date' = today /\ opened' = FALSE
    /\ UNCHANGED <<size, file, old, taken>>

WriteRotated ==
    /\ date = today /\ opened /\ Full
    /\ old' = [old EXCEPT ![today] = file[today]]
    /\ file' = [file EXCEPT ![today] = <<lines + 1>>]
    /\ taken' = [taken EXCEPT ![today] = Append(@, lines + 1)] /\ size' = 1
    /\ UNCHANGED <<date, opened, fileFaults>>
\* The older file is gone when the rename fails; the file is opened again.
Truncated == <<>>
Reopened == file[today]
FailRotation ==
    /\ date = today /\ opened /\ Full /\ Fault
    /\ old' = [old EXCEPT ![today] = <<>>]
    /\ file' = [file EXCEPT ![today] = Reopened]
    /\ UNCHANGED <<date, opened, size, taken>>

\* Renamed or not, it is not opened again.
FailReopen ==
    /\ date = today /\ opened /\ Full /\ Fault /\ opened' = FALSE
    /\ \/ /\ old' = [old EXCEPT ![today] = file[today]]
          /\ file' = [file EXCEPT ![today] = <<>>] /\ size' = 0
       \/ old' = [old EXCEPT ![today] = <<>>] /\ UNCHANGED <<file, size>>
    /\ UNCHANGED <<date, taken>>
FailWrite == date = today /\ opened /\ ~Full /\ Fault /\ UNCHANGED fileVars

\* With the file closed, writes and rotations fail until the date changes.
FailClosed == date = today /\ ~opened /\ UNCHANGED <<fileVars, fileFaults>>

-----------------------------------------------------------------------------
(* Hub.Write.                                                              *)

KeepsAll == low
Oldest == IF next + 1 - low > MaxQueued THEN low + 1 ELSE low
Queued == next' = next + 1 /\ token' = TRUE /\ low' = Oldest

Log ==
    /\ lines < logPlan.lines /\ lines' = lines + 1
    /\ \/ (WriteHere \/ WriteNextDay \/ WriteRotated) /\ Queued
       \/ (FailWrite \/ FailNextDay \/ FailRotation \/ FailReopen \/ FailClosed) /\ UNCHANGED hubVars
    /\ UNCHANGED <<logPlan, today, linkFaults, uploadVars>>

Midnight ==
    /\ today < logPlan.days /\ today' = today + 1
    /\ UNCHANGED <<logPlan, lines, fileFaults, linkFaults, fileVars, hubVars, uploadVars>>

-----------------------------------------------------------------------------
(* runTarget and upload.                                                   *)

Becomes(t, state) == upload' = [upload EXCEPT ![t] = state]
LogSame == UNCHANGED <<logPlan, lines, today, fileFaults, fileVars>>

Connect(t) ==
    /\ t \in logPlan.targets /\ upload[t] = "apart" /\ Becomes(t, "ready")
    /\ LogSame /\ UNCHANGED <<linkFaults, hubVars, from, count, acked, late, recorded>>

\* What is no longer in the backlog is passed over.
Start(t) == IF acked[t] < low THEN low ELSE acked[t]
Unsent(t) == Start(t) < next
Send(t) ==
    /\ upload[t] = "ready" /\ Unsent(t) /\ Becomes(t, "sent")
    /\ from' = [from EXCEPT ![t] = Start(t)]
    /\ count' = [count EXCEPT ![t] = IF next - Start(t) > MaxBatch THEN MaxBatch ELSE next - Start(t)]
    /\ LogSame /\ UNCHANGED <<linkFaults, hubVars, acked, late, recorded>>

WaitForLines(t) ==
    /\ upload[t] = "ready" /\ ~Unsent(t) /\ Becomes(t, "waiting")
    /\ LogSame /\ UNCHANGED <<linkFaults, hubVars, from, count, acked, late, recorded>>

\* wait: the token is for one of the uploaders, the timer for each.
NoTimer == FALSE
TimerFires == TRUE
Wake(t) ==
    /\ upload[t] \in {"waiting", "resting"}
    /\ Becomes(t, IF upload[t] = "waiting" THEN "ready" ELSE "apart")
    /\ \/ token /\ token' = FALSE
       \/ TimerFires /\ UNCHANGED token
    /\ LogSame /\ UNCHANGED <<linkFaults, low, next, from, count, acked, late, recorded>>

Batch(t) == from[t]..from[t] + count[t] - 1
Record(t) ==
    /\ upload[t] = "sent" /\ Becomes(t, "printed")
    /\ recorded' = [recorded EXCEPT ![t] = @ \cup Batch(t)]
    /\ LogSame /\ UNCHANGED <<linkFaults, hubVars, from, count, acked, late>>

AfterBacklog(t) == next
AfterBatch(t) == from[t] + count[t]
Acknowledge(t) ==
    /\ upload[t] = "printed" /\ Becomes(t, "ready")
    /\ acked' = [acked EXCEPT ![t] = AfterBatch(t)]
    /\ LogSame /\ UNCHANGED <<linkFaults, hubVars, from, count, late, recorded>>

\* The connection breaks, or an answer is late; the relay may read the batch yet.
LeaveConnection(t) ==
    /\ linkFaults < logPlan.linkFaults /\ linkFaults' = linkFaults + 1
    /\ \/ upload[t] = "sent" /\ late' = [late EXCEPT ![t] = @ \cup Batch(t)]
       \/ UNCHANGED late
    /\ LogSame /\ UNCHANGED <<hubVars, from, count, acked, recorded>>
Break(t) ==
    /\ upload[t] \in {"ready", "waiting", "sent", "printed"} /\ Becomes(t, "resting")
    /\ LeaveConnection(t)
\* The target's context ends: the program stops, or its relays change.
StopTarget(t) == upload[t] # "stopped" /\ Becomes(t, "stopped") /\ LeaveConnection(t)
RecordLate(t) ==
    /\ late[t] # {} /\ late' = [late EXCEPT ![t] = {}]
    /\ recorded' = [recorded EXCEPT ![t] = @ \cup late[t]]
    /\ LogSame /\ UNCHANGED <<linkFaults, hubVars, upload, from, count, acked>>

UploadStep(t) == \/ Connect(t) \/ Send(t) \/ WaitForLines(t) \/ Wake(t)
                 \/ Record(t) \/ Acknowledge(t)
Next == Log \/ Midnight \/ \E t \in Target : UploadStep(t) \/ Break(t) \/ StopTarget(t) \/ RecordLate(t)
Spec == Init /\ [][Next]_vars
FairSpec == Spec /\ \A t \in Target : WF_vars(UploadStep(t))

-----------------------------------------------------------------------------
(* Properties.                                                             *)

LogTypeOK ==
    /\ date \in Day /\ opened \in BOOLEAN /\ size \in 0..MaxSize
    /\ low \in 1..next /\ next - low <= MaxQueued /\ token \in BOOLEAN
    /\ upload \in [Target -> UploadStates]
    /\ \A t \in Target : acked[t] \in 1..next /\ count[t] \in 0..MaxBatch /\ from[t] <= next

\* The day's two files are the latest of the lines they accepted, in order,
\* whatever failed on the way.
Kept == old[date] \o file[date]
FilesKeepTheLatest ==
    /\ IsSuffix(Kept, taken[date])
    /\ taken[date] # <<>> => Kept # <<>>

\* In the end every relay that is not given up has every line that the backlog holds.
Uploaded == \A t \in logPlan.targets : upload[t] # "stopped" => low..next - 1 \subseteq recorded[t]
BacklogIsUploaded == <>[]Uploaded
=============================================================================
