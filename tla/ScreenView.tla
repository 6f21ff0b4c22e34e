------------------------------- MODULE ScreenView -------------------------------
(***************************************************************************)
(* The view of the work computer's screen: the capture helper that the Work *)
(* agent starts in a user's session, its frames, the pipe to the relay, and *)
(* the home side that puts the images together again and shows them        *)
(* (internal/screenview, windows/workservice/screen_helper_windows.go,     *)
(* windows/home/screen_viewer.go).                                         *)
(*                                                                         *)
(* An image is a size and the value of each tile.  One stream is one       *)
(* connection; the relay between the two ends is a queue of frames.        *)
(***************************************************************************)
EXTENDS Naturals, Sequences, FiniteSets

CONSTANTS Session, Tile, None,
          ScreenPlans,       \* what a behaviour may have
          MaxStreams, MaxFrames, MaxTries      \* bounds; MaxTries is initialCaptureAttempts
ScreenPlansAssumption ==
    /\ ScreenPlans \subseteq [users : SUBSET Session, states : [Session -> {"active", "disconnected"}],
                              console : Session \cup {None},
                              modes : SUBSET {"single", "stream", "files"}, count : Nat,
                              streams : 1..MaxStreams, changes : Nat, faults : Nat]
    /\ None \notin Session /\ MaxStreams \in Nat /\ {MaxFrames, MaxTries} \subseteq Nat \ {0}

Stream == 1..MaxStreams
Image == [size : 1..2, tiles : [Tile -> 0..1]]

VARIABLES
    screenPlan,
    state, console,         \* Windows: the state of each session, and which has the console
    screen, works,          \* what a session draws, and the interfaces that can capture it
    streams, mode,          \* connections so far, and Request.Mode
    cancelled,              \* streams whose context has ended
    helper, session, held, tries,   \* RunCaptureHelper: where it is, its session, the size that
                                    \* its duplication was made for or 0, captureWithRetry
    previous, taken,        \* its last image, and every one it has sent
    pipe, wire,             \* the Work agent's connection, and the frames under way
    receiver, canvas, applied,      \* Receive: where it is, its image, images put together
    lost,                   \* streams that the network or the drain timeout cut
    active, closed,         \* the viewer: the stream of v.cancel or 0, v.closed
    frame, posted, bitmap,  \* v.frame, what waits for the UI thread, v.bitmap
    undrawn,                \* the image that the UI thread took last could not be made a bitmap
    changes, faults

windowsVars == <<state, console, screen, works>>
helperVars == <<helper, session, held, tries, previous, taken>>
pipeVars == <<pipe, wire, lost>>
receiverVars == <<receiver, canvas, applied>>
viewVars == <<active, closed, frame, posted, bitmap, undrawn>>
startVars == <<streams, mode, cancelled>>
boundVars == <<screenPlan, changes, faults>>
vars == <<windowsVars, helperVars, pipeVars, receiverVars, viewVars, startVars, boundVars>>

Blank == [size |-> 1, tiles |-> [t \in Tile |-> 0]]

Init ==
    /\ screenPlan \in ScreenPlans /\ state = screenPlan.states /\ console = screenPlan.console
    /\ screen = [s \in Session |-> Blank] /\ works = [s \in Session |-> {"gdi", "dxgi"}]
    /\ streams = 0 /\ mode = [k \in Stream |-> "single"] /\ cancelled = {}
    /\ helper = [k \in Stream |-> "no"] /\ session = [k \in Stream |-> None]
    /\ held = [k \in Stream |-> 0] /\ tries = [k \in Stream |-> 0]
    /\ previous = [k \in Stream |-> Blank] /\ taken = [k \in Stream |-> <<>>]
    /\ pipe = [k \in Stream |-> "no"] /\ wire = [k \in Stream |-> <<>>] /\ lost = {}
    /\ receiver = [k \in Stream |-> "no"] /\ canvas = [k \in Stream |-> Blank]
    /\ applied = [k \in Stream |-> 0]
    /\ active = 0 /\ closed = FALSE /\ frame = None /\ posted = <<>> /\ bitmap = None /\ undrawn = FALSE
    /\ changes = 0 /\ faults = 0

Failing == faults < screenPlan.faults /\ faults' = faults + 1

-----------------------------------------------------------------------------
(* screenViewer, and the command line's capture into files.                *)

Opens(how) ==
    /\ streams < screenPlan.streams /\ how \in screenPlan.modes
    /\ streams' = streams + 1 /\ mode' = [mode EXCEPT ![streams + 1] = how]
    /\ receiver' = [receiver EXCEPT ![streams + 1] = "dialing"]

\* start: the stream before is cancelled, and the new one dials.
Start(how) ==
    /\ how # "files" /\ ~closed /\ Opens(how)
    /\ cancelled' = cancelled \cup ({active} \ {0}) /\ active' = streams + 1
    /\ UNCHANGED <<windowsVars, helperVars, pipeVars, canvas, applied, closed, frame, posted, bitmap, undrawn, boundVars>>
\* RunCLI is a program of its own.
RunCLI ==
    /\ Opens("files")
    /\ UNCHANGED <<windowsVars, helperVars, pipeVars, canvas, applied, viewVars, cancelled, boundVars>>
Interrupt(k) ==
    /\ mode[k] = "files" /\ receiver[k] # "no" /\ k \notin cancelled /\ Failing
    /\ cancelled' = cancelled \cup {k}
    /\ UNCHANGED <<windowsVars, helperVars, pipeVars, receiverVars, viewVars, streams, mode, screenPlan, changes>>
Stop ==
    /\ active # 0 /\ active' = 0 /\ cancelled' = cancelled \cup {active}
    /\ UNCHANGED <<windowsVars, helperVars, pipeVars, receiverVars, closed, frame, posted, bitmap, undrawn, streams, mode, boundVars>>
CloseWindow ==
    /\ streams > 0 /\ ~closed /\ closed' = TRUE /\ active' = 0 /\ bitmap' = None
    /\ cancelled' = cancelled \cup ({active} \ {0})
    /\ UNCHANGED <<windowsVars, helperVars, pipeVars, receiverVars, frame, posted, undrawn, streams, mode, boundVars>>

-----------------------------------------------------------------------------
(* launchScreenCaptureHelper.                                              *)

Console(s) == IF console \in s THEN {console} ELSE s
\* orderedActiveSessionIDs, orderedDisconnectedSessionIDs and WTSQueryUserToken.
ActiveUsers == Console({s \in screenPlan.users : state[s] = "active"})
DisconnectedUsers == {s \in screenPlan.users : state[s] = "disconnected"}

Runs(k, s) ==
    /\ helper' = [helper EXCEPT ![k] = "capturing"] /\ session' = [session EXCEPT ![k] = s]
    /\ pipe' = [pipe EXCEPT ![k] = "open"] /\ receiver' = [receiver EXCEPT ![k] = "reading"]
Launch(k) ==
    /\ receiver[k] = "dialing" /\ k \notin cancelled
    /\ \/ \E s \in ActiveUsers : Runs(k, s) /\ UNCHANGED <<windowsVars, faults>>
       \* tscon brings a session back to the console; with a fault, the next one.
       \/ /\ ActiveUsers = {}
          /\ \E s \in DisconnectedUsers :
               /\ IF s \in Console(DisconnectedUsers) THEN UNCHANGED faults ELSE Failing
               /\ Runs(k, s) /\ state' = [state EXCEPT ![s] = "active"] /\ console' = s
               /\ works' = [works EXCEPT ![s] = {"gdi", "dxgi"}] /\ UNCHANGED screen
    /\ UNCHANGED <<held, tries, previous, taken, wire, lost, canvas, applied, viewVars, startVars, screenPlan, changes>>
\* No user's session, or no way to the relay.
LaunchFails(k) ==
    /\ receiver[k] = "dialing"
    /\ IF k \in cancelled \/ ActiveUsers \cup DisconnectedUsers = {} THEN UNCHANGED faults ELSE Failing
    /\ receiver' = [receiver EXCEPT ![k] = "over"]
    /\ UNCHANGED <<windowsVars, helperVars, pipeVars, canvas, applied, viewVars, startVars, screenPlan, changes>>

-----------------------------------------------------------------------------
(* RunCaptureHelper.                                                       *)

Captured(k) == screen[session[k]]

\* Capture: the duplication that is held, else GDI, else a new duplication.
Reuses(k) == held[k] = Captured(k).size /\ "dxgi" \in works[session[k]]
NewDuplication(k) == Captured(k).size
Holds(k) == CASE Reuses(k) -> held[k]
              [] ~Reuses(k) /\ "gdi" \in works[session[k]] -> 0
              [] OTHER -> NewDuplication(k)

Full(image) == [type |-> "full", size |-> image.size, rects |-> image.tiles]
Changed(before, image) == {t \in Tile : before.tiles[t] # image.tiles[t]}
Delta(before, image) ==
    [type |-> "delta", size |-> image.size, rects |-> [t \in Changed(before, image) |-> image.tiles[t]]]
Error == [type |-> "error"]

Writes(k, f) == wire' = [wire EXCEPT ![k] = Append(@, f)]
Now(k, where) == helper' = [helper EXCEPT ![k] = where]

KeepsFirst(k, image) == IF taken[k] = <<>> THEN image ELSE previous[k]
NextPrevious(k, image) == image
\* EncodeFull and EncodeDelta: a screen of another size ends the stream.
Capture(k) ==
    /\ helper[k] = "capturing" /\ works[session[k]] # {} /\ LET image == Captured(k) IN
         /\ held' = [held EXCEPT ![k] = Holds(k)]
         /\ IF taken[k] # <<>> /\ previous[k].size # image.size
              THEN Writes(k, Error) /\ Now(k, "ended") /\ UNCHANGED <<previous, taken>>
              ELSE /\ Writes(k, IF taken[k] = <<>> THEN Full(image) ELSE Delta(previous[k], image))
                   /\ Now(k, IF mode[k] = "single" THEN "ended" ELSE "waiting")
                   /\ previous' = [previous EXCEPT ![k] = NextPrevious(k, image)]
                   /\ taken' = [taken EXCEPT ![k] = Append(@, image)]
    /\ UNCHANGED <<windowsVars, session, tries, pipe, lost, receiverVars, viewVars, startVars, boundVars>>
\* captureWithRetry, and its error frame.
CaptureFails(k) ==
    /\ helper[k] = "capturing" /\ works[session[k]] = {}
    /\ tries' = [tries EXCEPT ![k] = @ + 1] /\ held' = [held EXCEPT ![k] = 0]
    /\ IF tries[k] + 1 = MaxTries THEN Writes(k, Error) /\ Now(k, "ended") ELSE UNCHANGED <<wire, helper>>
    /\ UNCHANGED <<windowsVars, session, previous, taken, pipe, lost, receiverVars, viewVars, startVars, boundVars>>
Tick(k) ==
    /\ helper[k] = "waiting" /\ Len(taken[k]) < MaxFrames /\ Now(k, "capturing") /\ tries' = [tries EXCEPT ![k] = 0]
    /\ UNCHANGED <<windowsVars, session, held, previous, taken, pipeVars, receiverVars, viewVars, startVars, boundVars>>
\* The user closes the helper's console.
HelperIsClosed(k) ==
    /\ helper[k] \in {"capturing", "waiting"} /\ Failing /\ Now(k, "ended")
    /\ UNCHANGED <<windowsVars, session, held, tries, previous, taken, pipeVars, receiverVars, viewVars, startVars, screenPlan, changes>>

-----------------------------------------------------------------------------
(* PipeWithResult between the helper and the relay.                        *)

\* screenRelayConn.CloseWrite: what the helper wrote is still forwarded.
ClosesAtOnce(k) == pipe' = [pipe EXCEPT ![k] = "closed"] /\ wire' = [wire EXCEPT ![k] = <<>>]
OnHelperEOF(k) == pipe' = [pipe EXCEPT ![k] = "draining"] /\ UNCHANGED wire
HelperEOF(k) ==
    /\ helper[k] = "ended" /\ pipe[k] = "open" /\ OnHelperEOF(k)
    /\ UNCHANGED <<windowsVars, helperVars, lost, receiverVars, viewVars, startVars, boundVars>>
\* After screenResponseDrainTimeout.
DrainTimeout(k) ==
    /\ pipe[k] = "draining" /\ pipe' = [pipe EXCEPT ![k] = "closed"]
    /\ lost' = lost \cup {k} /\ wire' = [wire EXCEPT ![k] = <<>>]
    /\ UNCHANGED <<windowsVars, helperVars, receiverVars, viewVars, startVars, boundVars>>
\* The home side is gone: helperConn.Close ends the process.
RelayEnds(k) ==
    /\ receiver[k] \in {"over", "failed"} /\ pipe[k] \in {"open", "draining"}
    /\ pipe' = [pipe EXCEPT ![k] = "closed"] /\ wire' = [wire EXCEPT ![k] = <<>>] /\ Now(k, "ended")
    /\ UNCHANGED <<windowsVars, session, held, tries, previous, taken, lost, receiverVars, viewVars, startVars, boundVars>>
LinkFails(k) ==
    /\ pipe[k] \in {"open", "draining"} /\ Failing /\ lost' = lost \cup {k}
    /\ pipe' = [pipe EXCEPT ![k] = "closed"] /\ wire' = [wire EXCEPT ![k] = <<>>] /\ Now(k, "ended")
    /\ UNCHANGED <<windowsVars, session, held, tries, previous, taken, receiverVars, viewVars, startVars, screenPlan, changes>>

-----------------------------------------------------------------------------
(* Receive, and showFrame.                                                 *)

Goes(k, where) == receiver' = [receiver EXCEPT ![k] = where]
\* ApplyFrame.
Fits(k, f) == f.type = "full" \/ (f.type = "delta" /\ applied[k] > 0 /\ canvas[k].size = f.size)
Drawn(base, f) == [size |-> f.size,
                   tiles |-> [t \in Tile |-> IF t \in DOMAIN f.rects THEN f.rects[t] ELSE base.tiles[t]]]
ReadFrame(k) ==
    /\ receiver[k] = "reading" /\ k \notin cancelled /\ wire[k] # <<>>
    /\ wire' = [wire EXCEPT ![k] = Tail(@)]
    /\ LET f == Head(wire[k]) IN
         IF Fits(k, f) THEN /\ Goes(k, "showing") /\ canvas' = [canvas EXCEPT ![k] = Drawn(@, f)]
                            /\ applied' = [applied EXCEPT ![k] = @ + 1]
         ELSE Goes(k, "over") /\ UNCHANGED <<canvas, applied>>
    /\ UNCHANGED <<windowsVars, helperVars, pipe, lost, viewVars, startVars, boundVars>>
ReadFails(k) ==
    /\ receiver[k] = "reading" /\ (k \in cancelled \/ (pipe[k] = "closed" /\ wire[k] = <<>>)) /\ Goes(k, "over")
    /\ UNCHANGED <<windowsVars, helperVars, pipeVars, canvas, applied, viewVars, startVars, boundVars>>

\* The rest of Receive's loop.
Goon(k) == Goes(k, IF mode[k] = "single" THEN "over" ELSE "reading")
\* showFrame does not ask whether the stream is still the viewer's.
SetFrame(k) ==
    /\ receiver[k] = "showing" /\ mode[k] # "files" /\ frame' = canvas[k]
    /\ IF closed THEN Goon(k) ELSE Goes(k, "posting")
    /\ UNCHANGED <<windowsVars, helperVars, pipeVars, canvas, applied, active, closed, posted, bitmap, undrawn, startVars, boundVars>>
Synchronize(k) ==
    /\ receiver[k] = "posting" /\ posted' = Append(posted, canvas[k]) /\ Goon(k)
    /\ UNCHANGED <<windowsVars, helperVars, pipeVars, canvas, applied, active, closed, frame, bitmap, undrawn, startVars, boundVars>>
\* An image that cannot be made a bitmap leaves the one before it on show.
ShowPosted ==
    /\ posted # <<>> /\ posted' = Tail(posted)
    /\ \/ bitmap' = Head(posted) /\ undrawn' = FALSE /\ UNCHANGED faults
       \/ Failing /\ undrawn' = TRUE /\ UNCHANGED bitmap
    /\ UNCHANGED <<windowsVars, helperVars, pipeVars, receiverVars, active, closed, frame, startVars, screenPlan, changes>>
\* writePNGAtomically, and CLIOptions.Count: a file that cannot be written ends the stream.
WritePNG(k) ==
    /\ receiver[k] = "showing" /\ mode[k] = "files"
    /\ \/ Goes(k, IF applied[k] = screenPlan.count THEN "over" ELSE "reading") /\ UNCHANGED faults
       \/ Goes(k, "failed") /\ Failing
    /\ UNCHANGED <<windowsVars, helperVars, pipeVars, canvas, applied, viewVars, startVars, screenPlan, changes>>

-----------------------------------------------------------------------------
(* Windows: what is drawn, and what can be captured.                       *)

Drawable(image) == {[image EXCEPT !.tiles[t] = 1 - @] : t \in Tile} \cup {[image EXCEPT !.size = 3 - @]}
Draws(s) ==
    /\ changes < screenPlan.changes /\ changes' = changes + 1
    /\ \E k \in Stream : session[k] = s
    /\ \E image \in Drawable(screen[s]) : screen' = [screen EXCEPT ![s] = image]
    /\ UNCHANGED <<state, console, works, helperVars, pipeVars, receiverVars, viewVars, startVars, screenPlan, faults>>
\* A minimised Remote Desktop window, a lock, another desktop.
Switches(s, ways) ==
    /\ Failing /\ ways # works[s] /\ state[s] = "active" /\ works' = [works EXCEPT ![s] = ways]
    /\ UNCHANGED <<state, console, screen, helperVars, pipeVars, receiverVars, viewVars, startVars, screenPlan, changes>>
Detach(s) ==
    /\ Failing /\ state[s] = "active" /\ state' = [state EXCEPT ![s] = "disconnected"]
    /\ works' = [works EXCEPT ![s] = {}] /\ UNCHANGED <<console, screen>>
    /\ UNCHANGED <<helperVars, pipeVars, receiverVars, viewVars, startVars, screenPlan, changes>>

Next == \/ \E k \in Stream : \/ Launch(k) \/ LaunchFails(k) \/ Capture(k) \/ CaptureFails(k) \/ Tick(k)
                             \/ HelperIsClosed(k) \/ HelperEOF(k) \/ DrainTimeout(k) \/ RelayEnds(k) \/ LinkFails(k)
                             \/ ReadFrame(k) \/ ReadFails(k) \/ SetFrame(k) \/ Synchronize(k) \/ WritePNG(k)
                             \/ Interrupt(k)
        \/ \E how \in {"single", "stream"} : Start(how)
        \/ RunCLI \/ Stop \/ CloseWindow \/ ShowPosted
        \/ \E s \in Session : \/ Draws(s)
                              \/ \E ways \in SUBSET {"gdi", "dxgi"} : Switches(s, ways)
                              \/ Detach(s)
Spec == Init /\ [][Next]_vars

-----------------------------------------------------------------------------
(* Properties.                                                             *)

ScreenTypeOK ==
    /\ screen \in [Session -> Image] /\ streams \in 0..MaxStreams /\ active \in 0..streams
    /\ cancelled \subseteq 1..streams /\ lost \subseteq 1..streams
    /\ \A k \in Stream : applied[k] <= Len(taken[k]) /\ Len(taken[k]) <= MaxFrames
    /\ frame \in Image \cup {None} /\ bitmap \in Image \cup {None} /\ undrawn \in BOOLEAN

\* What the home side has put together is, image by image, what the helper
\* captured; a stream that ends without being cancelled, cut or unable to write a
\* file has delivered every image; and a viewer of one stream comes to show the
\* last image it received, or an older one while that could not be made a bitmap.
ScreenIsShown ==
    /\ \A k \in Stream :
         /\ applied[k] > 0 => canvas[k] = taken[k][applied[k]]
         /\ receiver[k] = "over" /\ k \notin cancelled \cup lost =>
                applied[k] = IF mode[k] = "files" /\ screenPlan.count \in 1..Len(taken[k])
                               THEN screenPlan.count ELSE Len(taken[k])
    /\ streams = 1 /\ posted = <<>> /\ ~closed /\ frame # None /\ receiver[1] # "posting" =>
           bitmap = frame \/ undrawn
=============================================================================
