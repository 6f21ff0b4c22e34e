------------------------------ MODULE ProductSetup ------------------------------
(***************************************************************************)
(* The programs that install DeskFerry on a Windows computer, which share  *)
(* its services and files: the product's setup (windows/setup/main.go), the *)
(* Work agent's installer (windows/workui/main.go) and the Work service's  *)
(* own updater (windows/workservice/main.go).  Every one is a process of   *)
(* its own; a step changes one service or one kind of file, and may fail.  *)
(* Only an install of the product takes the setup mutex.                   *)
(*                                                                         *)
(* The content of a file is named for the process that wrote it.  The SMB  *)
(* alias that the Work installer puts into the registry is left out.       *)
(***************************************************************************)
EXTENDS Naturals

CONSTANTS Process, Dir, DefaultDir, None,
          Old,               \* names what was there before any process
          SetupPlans         \* what a behaviour may have
SetupAssumption ==
    /\ DefaultDir \in Dir /\ None \notin Process /\ Old \notin Process \cup {None}
    /\ "broken" \notin Process \cup {Old, None}
SetupPlansAssumption ==
    SetupPlans \subseteq [begins : SUBSET {"product", "work"}, faults : Nat,
        ask : [Process -> [kind : {"none", "install", "configure", "uninstall", "workInstall", "workUpdate"},
                           dir : Dir, network : BOOLEAN, inPlace : BOOLEAN, password : {"keep", "new", "clear"}]]]

VARIABLES
    setupPlan, faults,
    work,               \* the Work service: [is, dir, password], the last two as it is configured
    network,            \* the Home network service: [is, dir]
    exe,                \* exe[d]: DeskFerry.exe in directory d
    previous,           \* previous[d]: DeskFerry.exe.previous
    tools,              \* directories with tun2socks and Wintun
    netConfig, alias, metadata, home,   \* the configuration files, the hosts file's entry
    password,           \* password[d]: the room password of the Work service
    mutex,
    pc, dir,            \* a process: its step, its install directory
    found,              \* what it found at the beginning: a directory, and the Work service
    workRestart, networkRestore,        \* workRestartPending, networkRestorePending
    failed,
    late,               \* it gave up waiting for a service to stop
    latest, mixed       \* history: who ended last; whether one without the mutex overlapped

machine == <<work, network, exe, previous, tools, netConfig, alias, metadata, home, password>>
locals == <<dir, found, workRestart, networkRestore, failed, late>>
vars == <<setupPlan, faults, machine, mutex, pc, locals, latest, mixed>>

File == Process \cup {Old, None, "broken"}
Whole(file) == file \notin {None, "broken"}
ask(p) == setupPlan.ask[p]
NoConfig == [of |-> None, dir |-> DefaultDir]

Init ==
    /\ setupPlan \in SetupPlans /\ faults = setupPlan.faults
    /\ LET product == "product" \in setupPlan.begins   hasWork == "work" \in setupPlan.begins IN
         /\ work = [is |-> IF hasWork THEN "running" ELSE "absent", dir |-> DefaultDir,
                    password |-> IF hasWork THEN DefaultDir ELSE None]
         /\ password = [d \in Dir |-> IF hasWork /\ d = DefaultDir THEN Old ELSE None]
         /\ network = [is |-> IF product THEN "running" ELSE "absent", dir |-> DefaultDir]
         /\ exe = [d \in Dir |-> IF setupPlan.begins # {} /\ d = DefaultDir THEN Old ELSE None]
         /\ tools = IF product THEN {DefaultDir} ELSE {}
         /\ netConfig = IF product THEN [NoConfig EXCEPT !.of = Old] ELSE NoConfig
         /\ alias = (IF product THEN Old ELSE None) /\ home = alias
         /\ metadata = IF product THEN [NoConfig EXCEPT !.of = Old] ELSE NoConfig
    /\ previous = [d \in Dir |-> None] /\ mutex = None
    /\ pc = [p \in Process |-> "ready"] /\ dir = [p \in Process |-> ask(p).dir]
    /\ found = [p \in Process |-> [dir |-> DefaultDir, running |-> FALSE, work |-> work]]
    /\ workRestart = [p \in Process |-> FALSE] /\ networkRestore = [p \in Process |-> FALSE]
    /\ failed = [p \in Process |-> FALSE] /\ late = [p \in Process |-> FALSE]
    /\ latest = None /\ mixed = FALSE

-----------------------------------------------------------------------------
(* The services.                                                           *)

installedLocation == metadata.dir        \* the default's, when there is no metadata
\* A program that runs cannot be replaced or removed.
Busy(d) == \/ work.is = "running" /\ work.dir = d
           \/ network.is = "running" /\ network.dir = d
WorkStartsWith(program) == /\ work.is # "absent" /\ Whole(program)
                           /\ work.password # None => password[work.password] # None
WorkStarts == WorkStartsWith(exe[work.dir])
NetworkStarts(d) == Whole(exe[d]) /\ Whole(netConfig.of) /\ netConfig.dir \in tools
Removed(files, d) == IF Busy(d) THEN files ELSE [files EXCEPT ![d] = None]

-----------------------------------------------------------------------------
(* Steps.                                                                  *)

Running(p) == pc[p] \notin {"ready", "done"}
Idle == \A p \in Process : ~Running(p)
\* Every step of a process: one that overlaps without the mutex is noted.
At(p, step) ==
    /\ pc[p] = step
    /\ mixed' = (mixed \/ (\E q \in Process \ {p} : Running(q) /\ {ask(p).kind, ask(q).kind} # {"install"}))
    /\ UNCHANGED setupPlan
Goes(p, step) ==
    /\ pc' = [pc EXCEPT ![p] = step]
    /\ latest' = IF step = "done" THEN p ELSE latest
\* What a process does after its last step, or after a failure.
Unwinds(p) == IF ask(p).kind = "install" THEN "restoreNetwork" ELSE "done"
Fails(p) == failed' = [failed EXCEPT ![p] = TRUE] /\ Goes(p, Unwinds(p))
AFault == faults > 0 /\ faults' = faults - 1
Steady == UNCHANGED <<dir, found, workRestart, networkRestore, late>>

WithNetwork(p) == ask(p).kind = "configure" \/ (ask(p).kind = "install" /\ ask(p).network)
Steps(kind, withNetwork) ==
    CASE kind = "install" /\ withNetwork ->
           <<"stopWork", "stopNetwork", "prepare", "copy", "tools", "config", "alias", "create",
             "metadata", "home", "supersede", "startWork", "restoreNetwork">>
      [] kind = "install" /\ ~withNetwork ->
           <<"stopWork", "stopNetwork", "prepare", "copy", "alias", "config", "tools",
             "metadata", "home", "supersede", "startWork", "restoreNetwork">>
      [] kind = "configure"   -> <<"stopNetwork", "config", "alias", "create", "metadata", "done">>
      [] kind = "uninstall"   -> <<"stopWork", "stopNetwork", "alias", "config", "wipe", "done">>
      [] kind = "workInstall" -> <<"stopWork", "copy", "password", "service", "startWork", "cleanup", "done">>
      [] OTHER                -> <<"stopWork", "preserve", "swap", "startWork", "forget", "done">>
StepsOf(p) == Steps(ask(p).kind, ask(p).network)
After(p, step) == LET s == StepsOf(p)
                      i == CHOOSE j \in DOMAIN s : s[j] = step IN s[i + 1]
Proceeds(p, step) == Goes(p, After(p, step)) /\ UNCHANGED <<failed, mutex>>

MutexIgnored(p) == TRUE
MutexFree(p) == ask(p).kind = "install" => mutex = None
\* A process begins; an install waits for the mutex first, and reads what is
\* installed with it.  What can fail before anything is changed is checked here.
Begin(p) ==
    /\ At(p, "ready") /\ ask(p).kind # "none" /\ MutexFree(p)
    /\ mutex' = IF ask(p).kind = "install" THEN p ELSE mutex
    /\ found' = [found EXCEPT ![p] = [dir |-> installedLocation, running |-> FALSE, work |-> work]]
    /\ dir' = [dir EXCEPT ![p] = CASE ask(p).kind \in {"configure", "uninstall"} -> installedLocation
                                   [] ask(p).kind = "workUpdate" -> work.dir
                                   [] OTHER -> @]
    /\ ask(p).inPlace => Whole(exe[dir'[p]])      \* it runs from there
    /\ \/ /\ ask(p).kind = "configure" => installedLocation \in tools /\ exe[installedLocation] # None
          /\ ask(p).kind = "workUpdate" => work.is # "absent"
          /\ Goes(p, StepsOf(p)[1]) /\ UNCHANGED <<failed, faults>>
       \/ AFault /\ Fails(p)
    /\ UNCHANGED <<machine, workRestart, networkRestore, late>>
\* acquireSetupInstallMutex, after two minutes.
GivesUp(p) ==
    /\ At(p, "ready") /\ ask(p).kind = "install" /\ mutex # None
    /\ failed' = [failed EXCEPT ![p] = TRUE] /\ Goes(p, "done")
    /\ UNCHANGED <<faults, machine, mutex, dir, found, workRestart, networkRestore, late>>

\* A step fails before it has changed anything.
CleanSteps == {"stopNetwork", "prepare", "copy", "tools", "config", "alias", "create", "metadata", "home",
               "password", "service"}
StepFails(p) ==
    \E step \in CleanSteps :
      /\ step \in {"config", "tools"} => WithNetwork(p)
      /\ At(p, step) /\ AFault /\ Fails(p)
      /\ networkRestore' = [networkRestore EXCEPT ![p] = @ \/ (step = "stopNetwork" /\ network.is # "absent")]
      /\ UNCHANGED <<machine, mutex, dir, found, workRestart, late>>

\* stopNamedServiceForUpgrade, stopMgrService, and stopAndDeleteNamedService.
RestartIsPending(p) == ask(p).kind = "install" /\ work.is = "running"
StopWork(p) ==
    /\ At(p, "stopWork")
    /\ LET stops == IF work.is = "running" THEN [work EXCEPT !.is = "stopped"] ELSE work IN
         \/ /\ work' = IF ask(p).kind = "uninstall" THEN [work EXCEPT !.is = "absent"] ELSE stops
            /\ workRestart' = [workRestart EXCEPT ![p] = RestartIsPending(p)]
            /\ found' = [found EXCEPT ![p].running = work.is = "running"]
            /\ Proceeds(p, "stopWork") /\ UNCHANGED <<late, faults>>
         \* It stops after all, when the wait for it is over.
         \/ /\ work.is = "running" /\ AFault /\ work' = stops /\ late' = [late EXCEPT ![p] = TRUE]
            /\ Fails(p) /\ UNCHANGED <<found, workRestart, mutex>>
    /\ UNCHANGED <<network, exe, previous, tools, netConfig, alias, metadata, home, password, dir, networkRestore>>

\* queryServiceState and stopAndDeleteNetworkService.
StopNetwork(p) ==
    /\ At(p, "stopNetwork")
    /\ networkRestore' = [networkRestore EXCEPT ![p] = ask(p).kind = "install" /\ network.is # "absent"]
    /\ \/ network' = [network EXCEPT !.is = "absent"] /\ Proceeds(p, "stopNetwork") /\ UNCHANGED faults
       \* It is stopped, and stays.
       \/ network.is = "running" /\ AFault /\ network' = [network EXCEPT !.is = "stopped"] /\ Fails(p) /\ UNCHANGED mutex
    /\ UNCHANGED <<work, exe, previous, tools, netConfig, alias, metadata, home, password, dir, found, workRestart, late>>

\* ensureReplaceable.
Prepare(p) ==
    /\ At(p, "prepare")
    /\ IF Busy(dir[p]) /\ ~ask(p).inPlace THEN Fails(p) /\ UNCHANGED mutex ELSE Proceeds(p, "prepare")
    /\ UNCHANGED <<faults, machine, dir, found, workRestart, networkRestore, late>>
\* copyFile: the file is emptied before it is written.
Copy(p) ==
    /\ At(p, "copy")
    /\ IF ask(p).inPlace THEN Proceeds(p, "copy") /\ UNCHANGED <<exe, faults>>
       ELSE IF Busy(dir[p]) THEN Fails(p) /\ UNCHANGED <<exe, faults, mutex>>
       ELSE \/ exe' = [exe EXCEPT ![dir[p]] = p] /\ Proceeds(p, "copy") /\ UNCHANGED faults
            \/ exe' = [exe EXCEPT ![dir[p]] = "broken"] /\ AFault /\ Fails(p) /\ UNCHANGED mutex
    /\ Steady /\ UNCHANGED <<work, network, previous, tools, netConfig, alias, metadata, home, password>>
Tools(p) ==
    /\ At(p, "tools") /\ Proceeds(p, "tools")
    /\ tools' = IF ask(p).network THEN tools \cup {dir[p]} ELSE tools \ {dir[p]}
    /\ Steady /\ UNCHANGED <<faults, work, network, exe, previous, netConfig, alias, metadata, home, password>>

-----------------------------------------------------------------------------
(* The configuration of the product.                                       *)

OfProcess(p) == [of |-> p, dir |-> dir[p]]
WriteConfig(p) ==
    /\ At(p, "config")
    /\ \/ /\ netConfig' = IF WithNetwork(p) THEN OfProcess(p) ELSE NoConfig
          /\ Proceeds(p, "config") /\ UNCHANGED faults
       \* Written in part, or without its protection.
       \/ /\ WithNetwork(p) /\ AFault /\ Fails(p) /\ UNCHANGED mutex
          /\ \E of \in {p, "broken"} : netConfig' = [of |-> of, dir |-> dir[p]]
    /\ Steady /\ UNCHANGED <<work, network, exe, previous, tools, alias, metadata, home, password>>
\* updateHostsAlias and removeHostsAlias.
Alias(p) ==
    /\ At(p, "alias") /\ alias' = (IF WithNetwork(p) THEN p ELSE None) /\ Proceeds(p, "alias")
    /\ Steady /\ UNCHANGED <<faults, work, network, exe, previous, tools, netConfig, metadata, home, password>>
\* createAndStartNetworkService.
CreateNetwork(p) ==
    /\ At(p, "create")
    /\ IF network.is # "absent" THEN Fails(p) /\ UNCHANGED <<network, faults, networkRestore, mutex>>
       ELSE \/ /\ NetworkStarts(dir[p]) /\ network' = [is |-> "running", dir |-> dir[p]]
               /\ networkRestore' = [networkRestore EXCEPT ![p] = FALSE]
               /\ Proceeds(p, "create") /\ UNCHANGED faults
            \/ /\ network' = [is |-> "stopped", dir |-> dir[p]]
               /\ IF NetworkStarts(dir[p]) THEN AFault ELSE UNCHANGED faults
               /\ Fails(p) /\ UNCHANGED <<networkRestore, mutex>>
    /\ UNCHANGED <<work, exe, previous, tools, netConfig, alias, metadata, home, password, dir, found, workRestart, late>>
Metadata(p) ==
    /\ At(p, "metadata") /\ metadata' = OfProcess(p) /\ Proceeds(p, "metadata")
    /\ Steady /\ UNCHANGED <<faults, work, network, exe, previous, tools, netConfig, alias, home, password>>
\* configureHomeClient.
Home(p) ==
    /\ At(p, "home") /\ home' = p /\ Proceeds(p, "home")
    /\ Steady /\ UNCHANGED <<faults, work, network, exe, previous, tools, netConfig, alias, metadata, password>>

\* removeSupersededInstall.
Supersede(p) ==
    /\ At(p, "supersede") /\ Proceeds(p, "supersede")
    /\ IF found[p].dir = dir[p] THEN UNCHANGED <<exe, tools>>
       ELSE exe' = Removed(exe, found[p].dir) /\ tools' = tools \ {found[p].dir}
    /\ networkRestore' = [networkRestore EXCEPT ![p] = FALSE]
    /\ UNCHANGED <<faults, work, network, previous, netConfig, alias, metadata, home, password, dir, found, workRestart, late>>

\* uninstallProduct, after the services are gone.
Wipe(p) ==
    /\ At(p, "wipe") /\ Proceeds(p, "wipe")
    /\ metadata' = NoConfig /\ tools' = tools \ {dir[p]}
    /\ exe' = IF ask(p).inPlace THEN exe ELSE Removed(exe, dir[p])
    /\ Steady /\ UNCHANGED <<faults, work, network, previous, netConfig, alias, home, password>>

-----------------------------------------------------------------------------
(* installOrUpdate of the Work installer.                                  *)

\* The file that the service used is found through the service's configuration.
PasswordStep(p) ==
    LET was == found[p].work   there == password[dir[p]] IN
      /\ At(p, "password") /\ Proceeds(p, "password")
      /\ password' = [password EXCEPT ![dir[p]] =
           CASE ask(p).password = "new"   -> p
             [] ask(p).password = "clear" -> None
             [] OTHER -> IF there = None /\ was.is # "absent" /\ was.password # None THEN password[was.password] ELSE there]
      /\ Steady /\ UNCHANGED <<faults, work, network, exe, previous, tools, netConfig, alias, metadata, home>>
WorkService(p) ==
    /\ At(p, "service") /\ Proceeds(p, "service")
    /\ work' = [is |-> IF work.is = "absent" THEN "stopped" ELSE work.is, dir |-> dir[p],
                password |-> IF password[dir[p]] # None THEN dir[p] ELSE None]
    /\ Steady /\ UNCHANGED <<faults, network, exe, previous, tools, netConfig, alias, metadata, home, password>>
\* cleanupLegacyWorkInstall.
Cleanup(p) ==
    /\ At(p, "cleanup") /\ Proceeds(p, "cleanup")
    /\ LET was == found[p].work IN
         IF was.is = "absent" \/ was.dir = dir[p] THEN UNCHANGED <<exe, password>>
         ELSE /\ exe' = Removed(exe, was.dir)
              /\ password' = IF was.password \in {None, work.password} THEN password
                             ELSE [password EXCEPT ![was.password] = None]
    /\ Steady /\ UNCHANGED <<faults, work, network, previous, tools, netConfig, alias, metadata, home>>

\* The start at the end of an install or of an update.  An update goes back to
\* the previous program when the new one does not start, or not in time.
StartFailed(p) == IF ask(p).kind = "workUpdate"
                    THEN failed' = [failed EXCEPT ![p] = TRUE] /\ Goes(p, "rollback") ELSE Fails(p)
StartWork(p) ==
    /\ At(p, "startWork")
    /\ IF ask(p).kind = "install" /\ ~workRestart[p]
         THEN Proceeds(p, "startWork") /\ UNCHANGED <<work, faults, workRestart>>
       ELSE \/ /\ WorkStarts \/ work.is = "running"
               /\ work' = [work EXCEPT !.is = "running"]
               /\ workRestart' = [workRestart EXCEPT ![p] = FALSE]
               /\ Proceeds(p, "startWork") /\ UNCHANGED faults
            \/ /\ work.is # "running"
               /\ IF WorkStarts THEN AFault ELSE UNCHANGED faults
               /\ StartFailed(p) /\ UNCHANGED <<work, workRestart, mutex>>
    /\ UNCHANGED <<network, exe, previous, tools, netConfig, alias, metadata, home, password, dir, found, networkRestore, late>>

-----------------------------------------------------------------------------
(* updateServiceBinary; the new program lies beside the old one.           *)

Preserve(p) ==
    /\ At(p, "preserve")
    /\ \/ /\ exe[dir[p]] # None
          /\ previous' = [previous EXCEPT ![dir[p]] = exe[dir[p]]] /\ exe' = [exe EXCEPT ![dir[p]] = None]
          /\ Proceeds(p, "preserve") /\ UNCHANGED <<work, faults>>
       \/ /\ IF exe[dir[p]] # None THEN AFault ELSE UNCHANGED faults
          /\ work' = IF WorkStarts THEN [work EXCEPT !.is = "running"] ELSE work
          /\ Fails(p) /\ UNCHANGED <<exe, previous, mutex>>
    /\ Steady /\ UNCHANGED <<network, tools, netConfig, alias, metadata, home, password>>
Swap(p) ==
    /\ At(p, "swap")
    /\ \/ exe' = [exe EXCEPT ![dir[p]] = p] /\ Proceeds(p, "swap") /\ UNCHANGED faults
       \/ AFault /\ failed' = [failed EXCEPT ![p] = TRUE] /\ Goes(p, "rollback") /\ UNCHANGED <<exe, mutex>>
    /\ Steady /\ UNCHANGED <<work, network, previous, tools, netConfig, alias, metadata, home, password>>
Rollback(p) ==
    /\ At(p, "rollback") /\ Goes(p, "done")
    /\ exe' = [exe EXCEPT ![dir[p]] = previous[dir[p]]] /\ previous' = [previous EXCEPT ![dir[p]] = None]
    /\ work' = IF WorkStartsWith(exe'[work.dir]) THEN [work EXCEPT !.is = "running"] ELSE work
    /\ Steady /\ UNCHANGED <<faults, mutex, failed, network, tools, netConfig, alias, metadata, home, password>>
Forget(p) ==
    /\ At(p, "forget")
    /\ IF network.is = "running" /\ network.dir = dir[p] THEN Fails(p) /\ UNCHANGED <<previous, faults, mutex>>
       ELSE \/ previous' = [previous EXCEPT ![dir[p]] = None] /\ Proceeds(p, "forget") /\ UNCHANGED faults
            \/ AFault /\ Fails(p) /\ UNCHANGED <<previous, mutex>>
    /\ Steady /\ UNCHANGED <<work, network, exe, tools, netConfig, alias, metadata, home, password>>

-----------------------------------------------------------------------------
(* The deferred calls of installProduct, the last one first.               *)

RestoreNetwork(p) ==
    /\ At(p, "restoreNetwork") /\ Goes(p, "restoreWork")
    /\ network' = IF ~failed[p] \/ ~networkRestore[p] \/ network.is # "absent" THEN network
                  ELSE [is |-> IF NetworkStarts(dir[p]) THEN "running" ELSE "stopped", dir |-> dir[p]]
    /\ Steady /\ UNCHANGED <<faults, mutex, failed, work, exe, previous, tools, netConfig, alias, metadata, home, password>>
NoRestart(p) == FALSE
RestartsWork(p) == workRestart[p] /\ WorkStarts
RestoreWork(p) ==
    /\ At(p, "restoreWork") /\ Goes(p, "done") /\ mutex' = None
    /\ \/ /\ work' = IF RestartsWork(p) THEN [work EXCEPT !.is = "running"] ELSE work
          /\ UNCHANGED faults
       \/ workRestart[p] /\ AFault /\ UNCHANGED work
    /\ Steady /\ UNCHANGED <<failed, network, exe, previous, tools, netConfig, alias, metadata, home, password>>

Step(p) ==
    \/ Begin(p) \/ GivesUp(p) \/ StepFails(p)
    \/ StopWork(p) \/ StopNetwork(p) \/ Prepare(p) \/ Copy(p) \/ Tools(p)
    \/ WriteConfig(p) \/ Alias(p) \/ CreateNetwork(p) \/ Metadata(p) \/ Home(p) \/ Supersede(p) \/ Wipe(p)
    \/ PasswordStep(p) \/ WorkService(p) \/ Cleanup(p) \/ StartWork(p)
    \/ Preserve(p) \/ Swap(p) \/ Rollback(p) \/ Forget(p)
    \/ RestoreNetwork(p) \/ RestoreWork(p)
Next == \E p \in Process : Step(p)
Spec == Init /\ [][Next]_vars

-----------------------------------------------------------------------------
(* Properties.                                                             *)

SetupTypeOK ==
    /\ work.is \in {"absent", "stopped", "running"} /\ network.is \in {"absent", "stopped", "running"}
    /\ exe \in [Dir -> File] /\ previous \in [Dir -> File] /\ password \in [Dir -> File] /\ tools \subseteq Dir
    /\ {netConfig.of, metadata.of, alias, home} \subseteq File /\ mutex \in Process \cup {None}

\* When the last of the processes to end is an install that succeeded, all that
\* is installed is of it, however many installs ran at once.
InstallsAgree ==
    Idle /\ ~mixed /\ latest # None /\ ask(latest).kind = "install" /\ ~failed[latest] =>
      LET own == OfProcess(latest) IN
        /\ metadata = own /\ home = latest /\ mutex = None
        /\ ask(latest).inPlace \/ exe[own.dir] = latest
        /\ IF ask(latest).network
             THEN netConfig = own /\ alias = latest /\ network = [is |-> "running", dir |-> own.dir]
             ELSE netConfig = NoConfig /\ alias = None /\ network.is = "absent"

\* An install or an update that stopped the Work service leaves it running, if
\* one step of it at most fails, unless that step was the wait for its stop.  An
\* install can take its program away: by a copy that breaks off, and by a move
\* of the product out of the directory that they shared.
WorkSurvives ==
    Idle /\ ~mixed /\ setupPlan.faults <= 1 /\ latest # None /\ ask(latest).kind \in {"install", "workUpdate"}
      /\ found[latest].running =>
        \/ work.is = "running" \/ late[latest]
        \/ ask(latest).kind = "install" /\ ~Whole(exe[work.dir])
=============================================================================
