------------------------------ MODULE WinRMSession ------------------------------
(***************************************************************************)
(* The Windows home client's WinRM session manager                         *)
(* (windows/home/winrm_session.go): commands that the window and the saving *)
(* of a login run through one PowerShell process that keeps a session open, *)
(* the timer that ends an idle one, and the handlers that close it.        *)
(*                                                                         *)
(* A key stands for a destination, a user, a port and a password.  A timer *)
(* is known by the use of the process that it was armed after.             *)
(***************************************************************************)
EXTENDS Naturals, Sequences

CONSTANTS Call,
          KeyOf,             \* KeyOf[c]: the key of a command
          None,
          MaxWorkers, MaxFailures, MaxCloses       \* bounds
WinRMAssumption == None \notin Call /\ MaxWorkers \in Nat /\ MaxFailures \in Nat /\ MaxCloses \in Nat

Worker == 1..MaxWorkers

VARIABLES
    holder,             \* who has m.mu: a command, "close", "idle", or None
    worker, workers,    \* m.cmd, and how many there were
    nextID,
    call, id, result,   \* a command: where Execute is, its request, its outcome
    input,              \* requests that the process has not read
    output,             \* answers that no reader has taken
    session,            \* the key of the process's session, or None
    ran,                \* ran[c]: the keys of the sessions that the command ran on
    uses,               \* touchLocked so far: lastUsed
    idleTimer, strays,  \* m.idleTimer while it runs, or 0, and running timers that it no longer is
    fired,              \* timers whose expireIdleWorker waits for the lock
    closing,            \* a handler waits to close
    cut, lost,          \* history: commands whose context ended, or whose process failed
    failures, closes

workerVars == <<worker, workers, nextID, input, output, session>>
timerVars == <<uses, idleTimer, strays, fired>>
callVars == <<call, id, result, ran, cut, lost>>
vars == <<holder, workerVars, timerVars, callVars, closing, failures, closes>>

Init ==
    /\ holder = None /\ worker = 0 /\ workers = 0 /\ nextID = 0
    /\ call = [c \in Call |-> "new"] /\ id = [c \in Call |-> 0] /\ result = [c \in Call |-> None]
    /\ input = <<>> /\ output = <<>> /\ session = None /\ ran = [c \in Call |-> <<>>]
    /\ uses = 0 /\ idleTimer = 0 /\ strays = {} /\ fired = {} /\ closing = FALSE /\ cut = {} /\ lost = {}
    /\ failures = 0 /\ closes = 0

Failing == failures < MaxFailures /\ failures' = failures + 1

-----------------------------------------------------------------------------
(* Execute.                                                                *)

\* stopWorkerLocked: the process ends, and whoever reads from it gets an error.
StopWorker ==
    /\ worker' = 0 /\ input' = <<>> /\ output' = <<>> /\ session' = None
    /\ UNCHANGED <<workers, nextID>>
EnsureWorker ==
    \/ worker # 0 /\ UNCHANGED <<worker, workers>>
    \/ worker = 0 /\ workers < MaxWorkers /\ worker' = workers + 1 /\ workers' = workers + 1
Returns(c, outcome) ==
    /\ call' = [call EXCEPT ![c] = "done"] /\ result' = [result EXCEPT ![c] = outcome] /\ holder' = None

Issue(c) ==
    /\ call[c] = "new" /\ call' = [call EXCEPT ![c] = "waiting"]
    /\ UNCHANGED <<holder, workerVars, timerVars, id, result, ran, cut, lost, closing, failures, closes>>
\* The lock, the process, and the request.
Send(c) ==
    /\ call[c] = "waiting" /\ holder = None /\ c \notin cut
    /\ \/ /\ EnsureWorker
          /\ nextID' = nextID + 1 /\ id' = [id EXCEPT ![c] = nextID + 1]
          /\ input' = Append(input, c) /\ call' = [call EXCEPT ![c] = "reading"] /\ holder' = c
          /\ UNCHANGED <<output, session, result, lost, failures>>
       \* It does not start, or does not take the request.
       \/ /\ Failing /\ StopWorker /\ Returns(c, "error") /\ lost' = lost \cup {c} /\ UNCHANGED id
    /\ UNCHANGED <<timerVars, ran, cut, closing, closes>>
\* The context ends, before the lock or while the answer is read.
Ends(c) ==
    /\ call[c] \in {"waiting", "reading"} /\ c \notin cut /\ Failing /\ cut' = cut \cup {c}
    /\ UNCHANGED <<holder, workerVars, timerVars, call, id, result, ran, lost, closing, closes>>
Refused(c) ==
    /\ call[c] = "waiting" /\ holder = None /\ c \in cut /\ Returns(c, "error")
    /\ UNCHANGED <<workerVars, timerVars, id, ran, cut, lost, closing, failures, closes>>
KeepsWorker(c) == UNCHANGED workerVars
OnCancelled(c) == StopWorker
Cancelled(c) ==
    /\ call[c] = "reading" /\ c \in cut /\ OnCancelled(c) /\ Returns(c, "error")
    /\ UNCHANGED <<timerVars, id, ran, cut, lost, closing, failures, closes>>

\* touchLocked.  A timer that has fired is not stopped by it.
Touch == uses' = uses + 1 /\ idleTimer' = uses + 1 /\ UNCHANGED <<strays, fired>>
\* A line of the process's output; the answer of another request ends it.
Answer(c) ==
    /\ call[c] = "reading" /\ output # <<>> /\ LET line == Head(output) IN
         IF line.id = id[c]
           THEN /\ Returns(c, line.of) /\ output' = Tail(output) /\ Touch
                /\ UNCHANGED <<worker, workers, nextID, input, session>>
           ELSE StopWorker /\ Returns(c, "error") /\ UNCHANGED timerVars
    /\ UNCHANGED <<id, ran, cut, lost, closing, failures, closes>>
\* The process ends of itself.
WorkerFails(c) ==
    /\ call[c] = "reading" /\ worker # 0 /\ Failing /\ StopWorker /\ Returns(c, "error") /\ lost' = lost \cup {c}
    /\ UNCHANGED <<timerVars, id, ran, cut, closing, closes>>

-----------------------------------------------------------------------------
(* winRMSessionWorkerScript.                                               *)

CanReuse(key) == session = key
\* A session that does not open, or that is broken, is an answer too.
RunScript ==
    /\ worker # 0 /\ input # <<>>
    /\ LET c == Head(input)
           opens == IF CanReuse(KeyOf[c]) THEN session ELSE KeyOf[c] IN
         /\ input' = Tail(input) /\ output' = Append(output, [id |-> id[c], of |-> c])
         /\ \/ session' = opens /\ ran' = [ran EXCEPT ![c] = Append(@, opens)] /\ UNCHANGED failures
            \/ Failing /\ session' = None /\ UNCHANGED ran
    /\ UNCHANGED <<holder, worker, workers, nextID, timerVars, call, id, result, cut, lost, closing, closes>>

-----------------------------------------------------------------------------
(* The timer, and Close.                                                   *)

TimerFires ==
    /\ \/ idleTimer # 0 /\ fired' = fired \cup {idleTimer} /\ idleTimer' = 0 /\ UNCHANGED strays
       \/ \E t \in strays : fired' = fired \cup {t} /\ strays' = strays \ {t} /\ UNCHANGED idleTimer
    /\ UNCHANGED <<holder, workerVars, uses, callVars, closing, failures, closes>>
\* expireIdleWorker: a process that was used since gets a timer again, and the
\* field forgets the timer that touchLocked had armed.
ExpireIdle(t) ==
    /\ t \in fired /\ holder = None /\ fired' = fired \ {t}
    /\ strays' = strays \cup ({idleTimer} \ {0})
    /\ IF t < uses THEN idleTimer' = uses /\ UNCHANGED workerVars ELSE idleTimer' = 0 /\ StopWorker
    /\ UNCHANGED <<holder, uses, callVars, closing, failures, closes>>

\* stopTunnel, saveFromUI and finishWindowsCredentialSave wait for the lock.
AskClose ==
    /\ ~closing /\ closes < MaxCloses /\ closes' = closes + 1 /\ closing' = TRUE
    /\ UNCHANGED <<holder, workerVars, timerVars, callVars, failures>>
Close ==
    /\ closing /\ holder = None /\ closing' = FALSE /\ StopWorker
    /\ idleTimer' = 0 /\ UNCHANGED <<holder, uses, strays, fired, callVars, failures, closes>>

Working == \/ \E c \in Call : Send(c) \/ Refused(c) \/ Cancelled(c) \/ Answer(c)
           \/ RunScript \/ Close \/ \E t \in fired : ExpireIdle(t)
World == \/ \E c \in Call : Issue(c) \/ Ends(c) \/ WorkerFails(c)
         \/ TimerFires \/ AskClose
Next == Working \/ World
Spec == Init /\ [][Next]_vars

-----------------------------------------------------------------------------
(* Properties.                                                             *)

WinRMTypeOK ==
    /\ holder \in Call \cup {None} /\ worker \in 0..workers /\ workers \in 0..MaxWorkers
    /\ idleTimer \in 0..uses /\ strays \cup fired \subseteq 1..uses
    /\ call \in [Call -> {"new", "waiting", "reading", "done"}]

\* Whatever was cut short, closed or expired before it, a command runs at most
\* once and on a session of its own key, and Execute returns its own answer,
\* unless its own context ended or the process failed under it.
CommandIsAnswered ==
    \A c \in Call :
      /\ Len(ran[c]) <= 1 /\ \A i \in DOMAIN ran[c] : ran[c][i] = KeyOf[c]
      /\ call[c] = "done" /\ c \notin cut \cup lost => result[c] = c
=============================================================================
