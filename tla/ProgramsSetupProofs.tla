-------------------------- MODULE ProgramsSetupProofs --------------------------
(***************************************************************************)
(* The inductive invariant of the part of Programs that is ProductSetup:   *)
(* what a process that installs, updates or removes the product has behind *)
(* it at each of its steps, for any number of processes and directories.   *)
(***************************************************************************)
EXTENDS Programs, TLAPS

-----------------------------------------------------------------------------
(* The invariant.                                                          *)

SetupConstants == Setup!SetupAssumption /\ Setup!SetupPlansAssumption
\* The steps of a process, and those of an install after some of its steps.
StepNames(p) ==
    CASE Setup!ask(p).kind = "install" ->
           {"stopWork", "stopNetwork", "prepare", "copy", "tools", "config", "alias", "create",
            "metadata",
            "home", "supersede", "startWork", "restoreNetwork", "restoreWork"} \
             (IF Setup!ask(p).network THEN {} ELSE {"create"})
      [] Setup!ask(p).kind = "configure"   -> {"stopNetwork", "config", "alias", "create",
                                               "metadata"}
      [] Setup!ask(p).kind = "uninstall"   -> {"stopWork", "stopNetwork", "alias", "config",
                                               "wipe"}
      [] Setup!ask(p).kind = "workInstall" -> {"stopWork", "copy", "password", "service",
                                               "startWork", "cleanup"}
      [] Setup!ask(p).kind = "workUpdate"  -> {"stopWork", "preserve", "swap", "startWork",
                                               "forget", "rollback"}
      [] OTHER -> {}
\* What an install has behind it when it is at a step of these.
AfterHome == {"supersede", "startWork", "restoreNetwork", "restoreWork", "done"}
AfterMetadata == AfterHome \cup {"home"}
AfterNetwork == AfterMetadata \cup {"metadata"}

\* What the machine holds: its services, the files of its directories and its configs.
InstalledWork == [is : {"absent", "stopped", "running"}, dir : Dir, password : Dir \cup {None}]
Written == [of : Setup!File, dir : Dir]
MachineState ==
    /\ setupPlan \in SetupPlans /\ setupFaults \in 0..setupPlan.faults
    /\ work \in InstalledWork
    /\ networkService \in [is : {"absent", "stopped", "running"}, dir : Dir]
    /\ exe \in [Dir -> Setup!File] /\ previousExe \in [Dir -> Setup!File]
    /\ password \in [Dir -> Setup!File] /\ tools \subseteq Dir
    /\ netConfig \in Written /\ metadata \in Written /\ alias \in Setup!File
    /\ home \in Setup!File
ProcessState ==
    /\ mutex \in Process \cup {None} /\ latest \in Process \cup {None}
    /\ \A p \in Process : pc[p] \in StepNames(p) \cup {"ready", "done"}
    /\ DOMAIN pc = Process /\ dir \in [Process -> Dir]
    /\ found \in [Process -> [dir : Dir, running : BOOLEAN, work : InstalledWork]]
    /\ workRestart \in [Process -> BOOLEAN] /\ networkRestore \in [Process -> BOOLEAN]
    /\ failed \in [Process -> BOOLEAN] /\ lateStop \in [Process -> BOOLEAN]
SetupState == MachineState /\ ProcessState

\* An install runs with the mutex, and nothing runs beside a process that is not mixed with another.
Alone ==
    /\ \A p \in Process : Setup!ask(p).kind = "install" /\ Setup!Running(p) <=> mutex = p
    /\ ~mixed => \A p \in Process, q \in Process : Setup!Running(p) /\ Setup!Running(q) => p = q
    /\ latest # None => pc[latest] = "done"
\* The process whose work there is to see: the one that runs, or the last one to end.
Seen(p) == ~mixed /\ (Setup!Running(p) \/ (Setup!Idle /\ latest = p))

\* A Work service that runs can be started: it has its program and its password.
HasPassword == work.password # None => password[work.password] # None
RunningStarts == work.is = "running" => Setup!Whole(exe[work.dir]) /\ HasPassword

\* What an install that has not failed has done, step by step.
Installs(p) ==
    LET net == Setup!ask(p).network   stage == pc[p]   own == Setup!OfProcess(p) IN
      /\ stage \notin {"stopWork", "stopNetwork"} \cup (IF net THEN AfterNetwork ELSE {}) =>
             networkService.is = "absent"
      /\ stage \notin {"stopWork", "stopNetwork", "prepare", "copy"} =>
             Setup!ask(p).inPlace \/ exe[dir[p]] = p
      /\ Setup!ask(p).inPlace => Setup!Whole(exe[dir[p]])
      /\ net /\ stage \in {"config", "alias", "create"} => dir[p] \in tools
      /\ net /\ stage \in {"alias", "create"} \cup AfterNetwork => netConfig = own
      /\ ~net /\ stage \in {"tools"} \cup AfterNetwork => netConfig = Setup!NoConfig
      /\ net /\ stage \in {"create"} \cup AfterNetwork => alias = p
      /\ ~net /\ stage \in {"config", "tools"} \cup AfterNetwork => alias = None
      /\ net /\ stage \in AfterNetwork => networkService = [is |-> "running", dir |-> dir[p]]
      /\ stage \in AfterMetadata => metadata = own
      /\ stage \in AfterHome => home = p

\* What becomes of the Work service that an install stopped.
Restarts(p) ==
    LET stage == pc[p]   lost == ~Setup!Whole(exe[work.dir]) IN
      /\ stage = "stopWork" => ~found[p].running
      /\ failed[p] => stage \in {"restoreNetwork", "restoreWork", "done"}
      /\ found[p].running => HasPassword /\ work.is # "absent"
      /\ found[p].running /\ stage # "done" => workRestart[p] \/ work.is = "running"
      /\ found[p].running /\ failed[p] /\ work.is # "running" /\ setupPlan.faults <= 1 =>
             setupFaults = 0 \/ lost
      /\ found[p].running /\ ~failed[p] /\ stage \in {"restoreNetwork", "restoreWork", "done"} =>
             work.is = "running"
      /\ found[p].running /\ stage = "done" /\ setupPlan.faults <= 1 =>
             work.is = "running" \/ lost
\* What becomes of the one that an update stopped.
Updates(p) ==
    LET stage == pc[p] IN
      /\ Setup!Running(p) => dir[p] = work.dir
      /\ stage = "stopWork" => ~found[p].running
      /\ stage \in {"preserve", "swap", "startWork", "rollback"} =>
           /\ work.is # "running"
           /\ found[p].running => HasPassword /\ work.is # "absent"
      /\ found[p].running /\ stage = "preserve" => Setup!Whole(exe[work.dir])
      /\ found[p].running /\ stage \in {"swap", "startWork", "rollback"} =>
             Setup!Whole(previousExe[work.dir])
      /\ stage = "startWork" => exe[dir[p]] = p
      /\ found[p].running /\ stage \in {"forget", "done"} => work.is = "running"
\* All of it.
Behind(p) ==
    /\ Setup!ask(p).kind = "install" /\ ~failed[p] => Installs(p)
    /\ Setup!ask(p).kind = "install" => Restarts(p)
    /\ Setup!ask(p).kind = "workUpdate" => Updates(p)
    /\ Setup!ask(p).kind = "workInstall" /\ pc[p] \in {"copy", "password", "service"} =>
           work.is # "running"
\* A process has not failed before it begins.
NoneFailedYet == \A p \in Process : pc[p] = "ready" => ~failed[p]
SetupInv ==
    /\ SetupState /\ Alone /\ NoneFailedYet /\ (~mixed => RunningStarts)
    /\ \A p \in Process : Seen(p) => Behind(p)

\* The steps of an install with the network service, in order.
LEMMA AfterAnInstallStep ==
    ASSUME NEW p \in Process, Setup!ask(p).kind = "install", Setup!ask(p).network
    PROVE  /\ Setup!After(p, "stopWork") = "stopNetwork"
           /\ Setup!After(p, "stopNetwork") = "prepare"
           /\ Setup!After(p, "prepare") = "copy"          /\ Setup!After(p, "copy") = "tools"
           /\ Setup!After(p, "tools") = "config"          /\ Setup!After(p, "config") = "alias"
           /\ Setup!After(p, "alias") = "create"          /\ Setup!After(p, "create") = "metadata"
           /\ Setup!After(p, "metadata") = "home"         /\ Setup!After(p, "home") = "supersede"
           /\ Setup!After(p, "supersede") = "startWork"
           /\ Setup!After(p, "startWork") = "restoreNetwork"
           /\ Setup!StepsOf(p)[1] = "stopWork"
BY DEF Setup!After, Setup!StepsOf, Setup!Steps

\* Those of an install without it, which removes the one that is there.
LEMMA AfterAnInstallStepAlone ==
    ASSUME NEW p \in Process, Setup!ask(p).kind = "install", ~Setup!ask(p).network
    PROVE  /\ Setup!After(p, "stopWork") = "stopNetwork"
           /\ Setup!After(p, "stopNetwork") = "prepare"
           /\ Setup!After(p, "prepare") = "copy"          /\ Setup!After(p, "copy") = "alias"
           /\ Setup!After(p, "alias") = "config"          /\ Setup!After(p, "config") = "tools"
           /\ Setup!After(p, "tools") = "metadata"
           /\ Setup!After(p, "metadata") = "home"         /\ Setup!After(p, "home") = "supersede"
           /\ Setup!After(p, "supersede") = "startWork"
           /\ Setup!After(p, "startWork") = "restoreNetwork"
           /\ Setup!StepsOf(p)[1] = "stopWork"
BY DEF Setup!After, Setup!StepsOf, Setup!Steps

\* Those of an update of the Work service.
LEMMA AfterAnUpdateStep ==
    ASSUME NEW p \in Process, Setup!ask(p).kind = "workUpdate"
    PROVE  /\ Setup!After(p, "stopWork") = "preserve"  /\ Setup!After(p, "preserve") = "swap"
           /\ Setup!After(p, "swap") = "startWork"     /\ Setup!After(p, "startWork") = "forget"
           /\ Setup!After(p, "forget") = "done"        /\ Setup!StepsOf(p)[1] = "stopWork"
BY DEF Setup!After, Setup!StepsOf, Setup!Steps

\* Those of an install of the Work service.
LEMMA AfterAWorkInstallStep ==
    ASSUME NEW p \in Process, Setup!ask(p).kind = "workInstall"
    PROVE  /\ Setup!After(p, "stopWork") = "copy"     /\ Setup!After(p, "copy") = "password"
           /\ Setup!After(p, "password") = "service"  /\ Setup!After(p, "service") = "startWork"
           /\ Setup!After(p, "startWork") = "cleanup" /\ Setup!After(p, "cleanup") = "done"
           /\ Setup!StepsOf(p)[1] = "stopWork"
BY DEF Setup!After, Setup!StepsOf, Setup!Steps

\* Those of a configuration and of an uninstall.
LEMMA AfterAnotherStep ==
    ASSUME NEW p \in Process
    PROVE  /\ Setup!ask(p).kind = "configure" =>
                /\ Setup!After(p, "stopNetwork") = "config" /\ Setup!After(p, "config") = "alias"
                /\ Setup!After(p, "alias") = "create"
                /\ Setup!After(p, "create") = "metadata"
                /\ Setup!After(p, "metadata") = "done"      /\ Setup!StepsOf(p)[1] = "stopNetwork"
           /\ Setup!ask(p).kind = "uninstall" =>
                /\ Setup!After(p, "stopWork") = "stopNetwork"
                /\ Setup!After(p, "stopNetwork") = "alias"
                /\ Setup!After(p, "alias") = "config"         /\ Setup!After(p, "config") = "wipe"
                /\ Setup!After(p, "wipe") = "done"            /\ Setup!StepsOf(p)[1] = "stopWork"
<1>1. Setup!ask(p).kind = "configure" =>
         /\ Setup!After(p, "stopNetwork") = "config" /\ Setup!After(p, "config") = "alias"
         /\ Setup!After(p, "alias") = "create"       /\ Setup!After(p, "create") = "metadata"
         /\ Setup!After(p, "metadata") = "done"      /\ Setup!StepsOf(p)[1] = "stopNetwork"
  BY DEF Setup!After, Setup!StepsOf, Setup!Steps
<1>2. Setup!ask(p).kind = "uninstall" =>
         /\ Setup!After(p, "stopWork") = "stopNetwork" /\ Setup!After(p, "stopNetwork") = "alias"
         /\ Setup!After(p, "alias") = "config"         /\ Setup!After(p, "config") = "wipe"
         /\ Setup!After(p, "wipe") = "done"            /\ Setup!StepsOf(p)[1] = "stopWork"
  BY DEF Setup!After, Setup!StepsOf, Setup!Steps
<1> QED  BY <1>1, <1>2

\* What a process may be asked to do.
Kinds == {"none", "install", "configure", "uninstall", "workInstall", "workUpdate"}

\* What a process is asked has its type.
LEMMA SetupAsked ==
    ASSUME Setup!SetupPlansAssumption, setupPlan \in SetupPlans, NEW p \in Process
    PROVE  Setup!ask(p).kind \in Kinds /\ Setup!ask(p).dir \in Dir
           /\ Setup!ask(p).network \in BOOLEAN /\ Setup!ask(p).inPlace \in BOOLEAN
           /\ setupPlan.faults \in Nat
<1>1. setupPlan \in [begins : SUBSET {"product", "work"}, faults : Nat,
        ask : [Process -> [kind : Kinds, dir : Dir, network : BOOLEAN, inPlace : BOOLEAN,
                           password : {"keep", "new", "clear"}]]]
  BY DEF Setup!SetupPlansAssumption, Kinds
<1>2. Setup!ask(p) \in [kind : Kinds, dir : Dir, network : BOOLEAN, inPlace : BOOLEAN,
                        password : {"keep", "new", "clear"}]
  BY <1>1 DEF Setup!ask
<1> QED  BY <1>1, <1>2

\* The steps that are not the last, or followed by one that depends on more than the kind.
Middle(p) == StepNames(p) \ {"restoreNetwork", "restoreWork", "rollback"}

\* After a step of a process comes a step of it, or its end.
LEMMA AfterAStep ==
    ASSUME Setup!SetupPlansAssumption, setupPlan \in SetupPlans, NEW p \in Process,
           NEW step \in Middle(p)
    PROVE  /\ Setup!After(p, step) \in StepNames(p) \cup {"done"}
           /\ Setup!ask(p).kind = "install" => Setup!After(p, step) # "done"
<1>1. Setup!ask(p).kind \in Kinds /\ Setup!ask(p).network \in BOOLEAN
  BY SetupAsked
<1>2. CASE Setup!ask(p).kind = "install" /\ Setup!ask(p).network
  <2>1. step \in {"stopWork", "stopNetwork", "prepare", "copy", "tools", "config", "alias",
                  "create", "metadata",
                  "home", "supersede", "startWork"}
    BY <1>2 DEF Middle, StepNames
  <2> QED  BY <2>1, <1>2, AfterAnInstallStep DEF StepNames
<1>3. CASE Setup!ask(p).kind = "install" /\ ~Setup!ask(p).network
  <2>1. step \in {"stopWork", "stopNetwork", "prepare", "copy", "tools", "config", "alias",
                  "create", "metadata",
                  "home", "supersede", "startWork"}
    BY <1>3 DEF Middle, StepNames
  <2>2. step # "create"
    BY <1>3 DEF Middle, StepNames
  <2> QED  BY <2>1, <2>2, <1>3, AfterAnInstallStepAlone DEF StepNames
<1>4. CASE Setup!ask(p).kind = "workUpdate"
  <2>1. step \in {"stopWork", "preserve", "swap", "startWork", "forget"}
    BY <1>4 DEF Middle, StepNames
  <2> QED  BY <2>1, <1>4, AfterAnUpdateStep DEF StepNames
<1>5. CASE Setup!ask(p).kind = "workInstall"
  <2>1. step \in {"stopWork", "copy", "password", "service", "startWork", "cleanup"}
    BY <1>5 DEF Middle, StepNames
  <2> QED  BY <2>1, <1>5, AfterAWorkInstallStep DEF StepNames
<1>6. CASE Setup!ask(p).kind = "configure"
  <2>1. step \in {"stopNetwork", "config", "alias", "create", "metadata"}
    BY <1>6 DEF Middle, StepNames
  <2> QED  BY <2>1, <1>6, AfterAnotherStep DEF StepNames
<1>7. CASE Setup!ask(p).kind = "uninstall"
  <2>1. step \in {"stopWork", "stopNetwork", "alias", "config", "wipe"}
    BY <1>7 DEF Middle, StepNames
  <2> QED  BY <2>1, <1>7, AfterAnotherStep DEF StepNames
<1>8. CASE Setup!ask(p).kind = "none"
  BY <1>8 DEF Middle, StepNames
<1> QED  BY <1>1, <1>2, <1>3, <1>4, <1>5, <1>6, <1>7, <1>8 DEF Kinds

\* The steps of a process that has begun, and how it goes on after one.
Works(p) ==
    \/ Setup!StepFails(p)
    \/ Setup!StopWork(p) \/ Setup!StopNetwork(p) \/ Setup!Prepare(p) \/ Setup!Copy(p)
    \/ Setup!Tools(p)
    \/ Setup!WriteConfig(p) \/ Setup!Alias(p) \/ Setup!CreateNetwork(p) \/ Setup!Metadata(p)
    \/ Setup!Home(p) \/ Setup!Supersede(p) \/ Setup!Wipe(p)
    \/ Setup!PasswordStep(p) \/ Setup!WorkService(p) \/ Setup!Cleanup(p) \/ Setup!StartWork(p)
    \/ Setup!Preserve(p) \/ Setup!Swap(p) \/ Setup!Rollback(p) \/ Setup!Forget(p)
    \/ Setup!RestoreNetwork(p) \/ Setup!RestoreWork(p)
Following(p, onward) ==
    /\ pc[p] \notin {"ready", "done"} /\ onward \in StepNames(p) \cup {"done"}
    /\ Setup!Goes(p, onward)
    /\ mutex' = IF Setup!ask(p).kind = "install" /\ onward = "done" THEN None ELSE mutex

\* A step that succeeds goes on to such a step.
LEMMA ProceedsFollows ==
    ASSUME Setup!SetupPlansAssumption, SetupState, NEW p \in Process, NEW step \in Middle(p),
           pc[p] = step, Setup!Proceeds(p, step)
    PROVE  \E onward : Following(p, onward)
<1>0. step \notin {"ready", "done"}
  BY DEF Middle, StepNames
<1>1. Setup!After(p, step) \in StepNames(p) \cup {"done"}
      /\ (Setup!ask(p).kind = "install" => Setup!After(p, step) # "done")
  BY AfterAStep DEF SetupState, MachineState
<1>2. Setup!Goes(p, Setup!After(p, step)) /\ mutex' = mutex
  BY DEF Setup!Proceeds
<1>3. Following(p, Setup!After(p, step))
  BY <1>0, <1>1, <1>2 DEF Following
<1> QED  BY <1>3

\* So does one that fails.
LEMMA FailureFollows ==
    ASSUME SetupState, NEW p \in Process, pc[p] \in StepNames(p), Setup!Fails(p), mutex' = mutex
    PROVE  \E onward : Following(p, onward)
<1>0. pc[p] \notin {"ready", "done"}
  BY DEF StepNames
<1>1. Setup!Unwinds(p) \in StepNames(p) \cup {"done"}
      /\ (Setup!ask(p).kind = "install" => Setup!Unwinds(p) # "done")
  BY DEF Setup!Unwinds, StepNames
<1>2. Setup!Goes(p, Setup!Unwinds(p))
  BY DEF Setup!Fails
<1>3. Following(p, Setup!Unwinds(p))
  BY <1>0, <1>1, <1>2 DEF Following
<1> QED  BY <1>3

\* Every step is at its place, and goes on to one of the process.
LEMMA StepFollows ==
    ASSUME Setup!SetupPlansAssumption, SetupState, NEW p \in Process, Works(p)
    PROVE  Setup!At(p, pc[p]) /\ \E onward : Following(p, onward)
<1>0. pc[p] \in StepNames(p) \cup {"ready", "done"}
  BY DEF SetupState, ProcessState
<1>1. CASE Setup!StopWork(p)
  <2>1. Setup!At(p, "stopWork")
    BY <1>1 DEF Setup!StopWork
  <2>2. pc[p] = "stopWork" /\ pc[p] \in StepNames(p)
    BY <2>1, <1>0 DEF Setup!At
  <2>3. pc[p] \in Middle(p)
    BY <2>2 DEF Middle
  <2>4. Setup!Proceeds(p, "stopWork") \/ (Setup!Fails(p) /\ mutex' = mutex)
    BY <1>1 DEF Setup!StopWork
  <2> QED  BY <2>1, <2>2, <2>3, <2>4, ProceedsFollows, FailureFollows
<1>2. CASE Setup!StopNetwork(p)
  <2>1. Setup!At(p, "stopNetwork")
    BY <1>2 DEF Setup!StopNetwork
  <2>2. pc[p] = "stopNetwork" /\ pc[p] \in StepNames(p)
    BY <2>1, <1>0 DEF Setup!At
  <2>3. pc[p] \in Middle(p)
    BY <2>2 DEF Middle
  <2>4. Setup!Proceeds(p, "stopNetwork") \/ (Setup!Fails(p) /\ mutex' = mutex)
    BY <1>2 DEF Setup!StopNetwork
  <2> QED  BY <2>1, <2>2, <2>3, <2>4, ProceedsFollows, FailureFollows
<1>3. CASE Setup!Prepare(p)
  <2>1. Setup!At(p, "prepare")
    BY <1>3 DEF Setup!Prepare
  <2>2. pc[p] = "prepare" /\ pc[p] \in StepNames(p)
    BY <2>1, <1>0 DEF Setup!At
  <2>3. pc[p] \in Middle(p)
    BY <2>2 DEF Middle
  <2>4. Setup!Proceeds(p, "prepare") \/ (Setup!Fails(p) /\ mutex' = mutex)
    BY <1>3 DEF Setup!Prepare
  <2> QED  BY <2>1, <2>2, <2>3, <2>4, ProceedsFollows, FailureFollows
<1>4. CASE Setup!Copy(p)
  <2>1. Setup!At(p, "copy")
    BY <1>4 DEF Setup!Copy
  <2>2. pc[p] = "copy" /\ pc[p] \in StepNames(p)
    BY <2>1, <1>0 DEF Setup!At
  <2>3. pc[p] \in Middle(p)
    BY <2>2 DEF Middle
  <2>4. Setup!Proceeds(p, "copy") \/ (Setup!Fails(p) /\ mutex' = mutex)
    BY <1>4 DEF Setup!Copy
  <2> QED  BY <2>1, <2>2, <2>3, <2>4, ProceedsFollows, FailureFollows
<1>5. CASE Setup!Tools(p)
  <2>1. Setup!At(p, "tools")
    BY <1>5 DEF Setup!Tools
  <2>2. pc[p] = "tools" /\ pc[p] \in StepNames(p)
    BY <2>1, <1>0 DEF Setup!At
  <2>3. pc[p] \in Middle(p)
    BY <2>2 DEF Middle
  <2>4. Setup!Proceeds(p, "tools") \/ (Setup!Fails(p) /\ mutex' = mutex)
    BY <1>5 DEF Setup!Tools
  <2> QED  BY <2>1, <2>2, <2>3, <2>4, ProceedsFollows, FailureFollows
<1>6. CASE Setup!WriteConfig(p)
  <2>1. Setup!At(p, "config")
    BY <1>6 DEF Setup!WriteConfig
  <2>2. pc[p] = "config" /\ pc[p] \in StepNames(p)
    BY <2>1, <1>0 DEF Setup!At
  <2>3. pc[p] \in Middle(p)
    BY <2>2 DEF Middle
  <2>4. Setup!Proceeds(p, "config") \/ (Setup!Fails(p) /\ mutex' = mutex)
    BY <1>6 DEF Setup!WriteConfig
  <2> QED  BY <2>1, <2>2, <2>3, <2>4, ProceedsFollows, FailureFollows
<1>7. CASE Setup!Alias(p)
  <2>1. Setup!At(p, "alias")
    BY <1>7 DEF Setup!Alias
  <2>2. pc[p] = "alias" /\ pc[p] \in StepNames(p)
    BY <2>1, <1>0 DEF Setup!At
  <2>3. pc[p] \in Middle(p)
    BY <2>2 DEF Middle
  <2>4. Setup!Proceeds(p, "alias") \/ (Setup!Fails(p) /\ mutex' = mutex)
    BY <1>7 DEF Setup!Alias
  <2> QED  BY <2>1, <2>2, <2>3, <2>4, ProceedsFollows, FailureFollows
<1>8. CASE Setup!CreateNetwork(p)
  <2>1. Setup!At(p, "create")
    BY <1>8 DEF Setup!CreateNetwork
  <2>2. pc[p] = "create" /\ pc[p] \in StepNames(p)
    BY <2>1, <1>0 DEF Setup!At
  <2>3. pc[p] \in Middle(p)
    BY <2>2 DEF Middle
  <2>4. Setup!Proceeds(p, "create") \/ (Setup!Fails(p) /\ mutex' = mutex)
    BY <1>8 DEF Setup!CreateNetwork
  <2> QED  BY <2>1, <2>2, <2>3, <2>4, ProceedsFollows, FailureFollows
<1>9. CASE Setup!Metadata(p)
  <2>1. Setup!At(p, "metadata")
    BY <1>9 DEF Setup!Metadata
  <2>2. pc[p] = "metadata" /\ pc[p] \in StepNames(p)
    BY <2>1, <1>0 DEF Setup!At
  <2>3. pc[p] \in Middle(p)
    BY <2>2 DEF Middle
  <2>4. Setup!Proceeds(p, "metadata") \/ (Setup!Fails(p) /\ mutex' = mutex)
    BY <1>9 DEF Setup!Metadata
  <2> QED  BY <2>1, <2>2, <2>3, <2>4, ProceedsFollows, FailureFollows
<1>10. CASE Setup!Home(p)
  <2>1. Setup!At(p, "home")
    BY <1>10 DEF Setup!Home
  <2>2. pc[p] = "home" /\ pc[p] \in StepNames(p)
    BY <2>1, <1>0 DEF Setup!At
  <2>3. pc[p] \in Middle(p)
    BY <2>2 DEF Middle
  <2>4. Setup!Proceeds(p, "home") \/ (Setup!Fails(p) /\ mutex' = mutex)
    BY <1>10 DEF Setup!Home
  <2> QED  BY <2>1, <2>2, <2>3, <2>4, ProceedsFollows, FailureFollows
<1>11. CASE Setup!Supersede(p)
  <2>1. Setup!At(p, "supersede")
    BY <1>11 DEF Setup!Supersede
  <2>2. pc[p] = "supersede" /\ pc[p] \in StepNames(p)
    BY <2>1, <1>0 DEF Setup!At
  <2>3. pc[p] \in Middle(p)
    BY <2>2 DEF Middle
  <2>4. Setup!Proceeds(p, "supersede") \/ (Setup!Fails(p) /\ mutex' = mutex)
    BY <1>11 DEF Setup!Supersede
  <2> QED  BY <2>1, <2>2, <2>3, <2>4, ProceedsFollows, FailureFollows
<1>12. CASE Setup!Wipe(p)
  <2>1. Setup!At(p, "wipe")
    BY <1>12 DEF Setup!Wipe
  <2>2. pc[p] = "wipe" /\ pc[p] \in StepNames(p)
    BY <2>1, <1>0 DEF Setup!At
  <2>3. pc[p] \in Middle(p)
    BY <2>2 DEF Middle
  <2>4. Setup!Proceeds(p, "wipe") \/ (Setup!Fails(p) /\ mutex' = mutex)
    BY <1>12 DEF Setup!Wipe
  <2> QED  BY <2>1, <2>2, <2>3, <2>4, ProceedsFollows, FailureFollows
<1>13. CASE Setup!PasswordStep(p)
  <2>1. Setup!At(p, "password")
    BY <1>13 DEF Setup!PasswordStep
  <2>2. pc[p] = "password" /\ pc[p] \in StepNames(p)
    BY <2>1, <1>0 DEF Setup!At
  <2>3. pc[p] \in Middle(p)
    BY <2>2 DEF Middle
  <2>4. Setup!Proceeds(p, "password") \/ (Setup!Fails(p) /\ mutex' = mutex)
    BY <1>13 DEF Setup!PasswordStep
  <2> QED  BY <2>1, <2>2, <2>3, <2>4, ProceedsFollows, FailureFollows
<1>14. CASE Setup!WorkService(p)
  <2>1. Setup!At(p, "service")
    BY <1>14 DEF Setup!WorkService
  <2>2. pc[p] = "service" /\ pc[p] \in StepNames(p)
    BY <2>1, <1>0 DEF Setup!At
  <2>3. pc[p] \in Middle(p)
    BY <2>2 DEF Middle
  <2>4. Setup!Proceeds(p, "service") \/ (Setup!Fails(p) /\ mutex' = mutex)
    BY <1>14 DEF Setup!WorkService
  <2> QED  BY <2>1, <2>2, <2>3, <2>4, ProceedsFollows, FailureFollows
<1>15. CASE Setup!Cleanup(p)
  <2>1. Setup!At(p, "cleanup")
    BY <1>15 DEF Setup!Cleanup
  <2>2. pc[p] = "cleanup" /\ pc[p] \in StepNames(p)
    BY <2>1, <1>0 DEF Setup!At
  <2>3. pc[p] \in Middle(p)
    BY <2>2 DEF Middle
  <2>4. Setup!Proceeds(p, "cleanup") \/ (Setup!Fails(p) /\ mutex' = mutex)
    BY <1>15 DEF Setup!Cleanup
  <2> QED  BY <2>1, <2>2, <2>3, <2>4, ProceedsFollows, FailureFollows
<1>16. CASE Setup!StartWork(p)
  <2>1. Setup!At(p, "startWork")
    BY <1>16 DEF Setup!StartWork
  <2>2. pc[p] = "startWork" /\ pc[p] \in StepNames(p)
    BY <2>1, <1>0 DEF Setup!At
  <2>3. pc[p] \in Middle(p)
    BY <2>2 DEF Middle
  <2>4. Setup!Proceeds(p, "startWork") \/ (Setup!Fails(p) /\ mutex' = mutex)
         \/ (Setup!ask(p).kind = "workUpdate" /\ Setup!Goes(p, "rollback") /\ mutex' = mutex)
    BY <2>2, <1>16 DEF Setup!StartWork, Setup!StartFailed
  <2>5. CASE Setup!ask(p).kind = "workUpdate" /\ Setup!Goes(p, "rollback") /\ mutex' = mutex
    <3>1. "rollback" \in StepNames(p)
      BY <2>5 DEF StepNames
    <3>2. Following(p, "rollback")
      BY <3>1, <2>2, <2>5 DEF Following
    <3> QED  BY <3>2, <2>1, <2>2
  <2> QED  BY <2>1, <2>2, <2>3, <2>4, <2>5, ProceedsFollows, FailureFollows
<1>17. CASE Setup!Preserve(p)
  <2>1. Setup!At(p, "preserve")
    BY <1>17 DEF Setup!Preserve
  <2>2. pc[p] = "preserve" /\ pc[p] \in StepNames(p)
    BY <2>1, <1>0 DEF Setup!At
  <2>3. pc[p] \in Middle(p)
    BY <2>2 DEF Middle
  <2>4. Setup!Proceeds(p, "preserve") \/ (Setup!Fails(p) /\ mutex' = mutex)
    BY <1>17 DEF Setup!Preserve
  <2> QED  BY <2>1, <2>2, <2>3, <2>4, ProceedsFollows, FailureFollows
<1>18. CASE Setup!Swap(p)
  <2>1. Setup!At(p, "swap")
    BY <1>18 DEF Setup!Swap
  <2>2. pc[p] = "swap" /\ pc[p] \in StepNames(p)
    BY <2>1, <1>0 DEF Setup!At
  <2>3. pc[p] \in Middle(p)
    BY <2>2 DEF Middle
  <2>4. Setup!Proceeds(p, "swap") \/ (Setup!Fails(p) /\ mutex' = mutex)
         \/ (Setup!ask(p).kind = "workUpdate" /\ Setup!Goes(p, "rollback") /\ mutex' = mutex)
    BY <2>2, <1>18 DEF Setup!Swap, Setup!StartFailed, StepNames
  <2>5. CASE Setup!ask(p).kind = "workUpdate" /\ Setup!Goes(p, "rollback") /\ mutex' = mutex
    <3>1. "rollback" \in StepNames(p)
      BY <2>5 DEF StepNames
    <3>2. Following(p, "rollback")
      BY <3>1, <2>2, <2>5 DEF Following
    <3> QED  BY <3>2, <2>1, <2>2
  <2> QED  BY <2>1, <2>2, <2>3, <2>4, <2>5, ProceedsFollows, FailureFollows
<1>19. CASE Setup!Rollback(p)
  <2>1. Setup!At(p, "rollback")
    BY <1>19 DEF Setup!Rollback
  <2>2. pc[p] = "rollback" /\ pc[p] \in StepNames(p)
    BY <2>1, <1>0 DEF Setup!At
  <2>3. "done" \in StepNames(p) \cup {"done"} /\ Setup!ask(p).kind # "install"
    BY <2>2 DEF StepNames
  <2>4. Following(p, "done")
    BY <2>2, <2>3, <1>19 DEF Setup!Rollback, Following
  <2> QED  BY <2>1, <2>2, <2>4
<1>20. CASE Setup!Forget(p)
  <2>1. Setup!At(p, "forget")
    BY <1>20 DEF Setup!Forget
  <2>2. pc[p] = "forget" /\ pc[p] \in StepNames(p)
    BY <2>1, <1>0 DEF Setup!At
  <2>3. pc[p] \in Middle(p)
    BY <2>2 DEF Middle
  <2>4. Setup!Proceeds(p, "forget") \/ (Setup!Fails(p) /\ mutex' = mutex)
    BY <1>20 DEF Setup!Forget
  <2> QED  BY <2>1, <2>2, <2>3, <2>4, ProceedsFollows, FailureFollows
<1>21. CASE Setup!RestoreNetwork(p)
  <2>1. Setup!At(p, "restoreNetwork")
    BY <1>21 DEF Setup!RestoreNetwork
  <2>2. pc[p] = "restoreNetwork" /\ pc[p] \in StepNames(p)
    BY <2>1, <1>0 DEF Setup!At
  <2>3. "restoreWork" \in StepNames(p) \cup {"done"} /\ Setup!ask(p).kind = "install"
    BY <2>2 DEF StepNames
  <2>4. Following(p, "restoreWork")
    BY <2>2, <2>3, <1>21 DEF Setup!RestoreNetwork, Following
  <2> QED  BY <2>1, <2>2, <2>4
<1>22. CASE Setup!RestoreWork(p)
  <2>1. Setup!At(p, "restoreWork")
    BY <1>22 DEF Setup!RestoreWork
  <2>2. pc[p] = "restoreWork" /\ pc[p] \in StepNames(p)
    BY <2>1, <1>0 DEF Setup!At
  <2>3. "done" \in StepNames(p) \cup {"done"} /\ Setup!ask(p).kind = "install"
    BY <2>2 DEF StepNames
  <2>4. Following(p, "done")
    BY <2>2, <2>3, <1>22 DEF Setup!RestoreWork, Following
  <2> QED  BY <2>1, <2>2, <2>4
<1>23. CASE Setup!StepFails(p)
  <2>1. PICK step \in Setup!CleanSteps : Setup!At(p, step) /\ Setup!Fails(p) /\ mutex' = mutex
    BY <1>23 DEF Setup!StepFails
  <2>2. pc[p] = step /\ step \notin {"ready", "done"}
    BY <2>1 DEF Setup!At, Setup!CleanSteps
  <2> QED  BY <2>1, <2>2, <1>0, FailureFollows
<1> QED  BY <1>1, <1>2, <1>3, <1>4, <1>5, <1>6, <1>7, <1>8, <1>9, <1>10, <1>11, <1>12, <1>13,
    <1>14, <1>15, <1>16, <1>17, <1>18, <1>19, <1>20, <1>21, <1>22, <1>23 DEF Works

\* What such a step leaves of the order of the processes: nobody else is seen any more.
LEMMA StepIsAlone ==
    ASSUME Setup!SetupAssumption, SetupState, Alone, NEW p \in Process, Setup!At(p, pc[p]),
           NEW onward, Following(p, onward)
    PROVE  /\ Alone' /\ pc[p]' = onward /\ Setup!Running(p)
           /\ mixed' \in BOOLEAN /\ latest' \in Process \cup {None}
           /\ mutex' \in Process \cup {None}
           /\ DOMAIN pc' = Process
           /\ \A q \in Process : pc[q]' \in StepNames(q) \cup {"ready", "done"}
           /\ \A q \in Process : Seen(q)' => q = p /\ Seen(p)
<1>0. setupPlan' = setupPlan
      /\ mixed' = (mixed
                   \/ (\E q \in Process \ {p} : Setup!Running(q)
                       /\ {Setup!ask(p).kind, Setup!ask(q).kind} # {"install"}))
  BY DEF Setup!At
<1>1. pc' = [pc EXCEPT ![p] = onward] /\ latest' = IF onward = "done" THEN p ELSE latest
  BY DEF Following, Setup!Goes
<1>2. /\ pc[p] \notin {"ready", "done"} /\ onward \in StepNames(p) \cup {"done"}
      /\ onward # "ready"
      /\ mutex' = IF Setup!ask(p).kind = "install" /\ onward = "done" THEN None ELSE mutex
  BY DEF Following, StepNames
<1>3. DOMAIN pc = Process /\ \A q \in Process : pc[q] \in StepNames(q) \cup {"ready", "done"}
  BY DEF SetupState, ProcessState
<1>4. Setup!Running(p) /\ pc[p]' = onward /\ \A q \in Process : q # p => pc[q]' = pc[q]
  BY <1>1, <1>2, <1>3 DEF Setup!Running
<1>5. \A q \in Process : q # p => (Setup!Running(q)' <=> Setup!Running(q))
  BY <1>4 DEF Setup!Running
<1>6. Setup!Running(p)' <=> onward # "done"
  BY <1>2, <1>4 DEF Setup!Running
<1>7. \A q \in Process : (Setup!ask(q).kind = "install")' <=> Setup!ask(q).kind = "install"
  BY <1>0 DEF Setup!ask
<1>8. \A q \in Process : Setup!ask(q).kind = "install" /\ Setup!Running(q) <=> mutex = q
  BY DEF Alone
<1>9. \A q \in Process : (Setup!ask(q).kind = "install" /\ Setup!Running(q))' <=> mutex' = q
  BY <1>2, <1>4, <1>5, <1>6, <1>7, <1>8 DEF Setup!SetupAssumption
<1>10. ~mixed' => ~mixed /\ \A q \in Process : Setup!Running(q)' => q = p
  BY <1>0, <1>4, <1>5 DEF Alone
<1>11. latest' # None => pc[latest]' = "done"
  <2>1. CASE onward = "done"
    BY <2>1, <1>1, <1>4
  <2>2. CASE onward # "done"
    <3>1. latest' = latest
      BY <2>2, <1>1
    <3>2. latest # None => latest # p /\ pc[latest] = "done" /\ latest \in Process
      BY <1>2 DEF Alone, SetupState, ProcessState
    <3> QED  BY <3>1, <3>2, <1>4
  <2> QED  BY <2>1, <2>2
<1>12. Alone'
  BY <1>9, <1>10, <1>11 DEF Alone
<1>13. \A q \in Process : Seen(q)' => q = p /\ Seen(p)
  <2> SUFFICES ASSUME NEW q \in Process, Seen(q)' PROVE q = p /\ Seen(p)
    OBVIOUS
  <2>1. ~mixed' /\ (Setup!Running(q)' \/ (Setup!Idle' /\ latest' = q))
    BY DEF Seen
  <2>2. Seen(p)
    BY <2>1, <1>4, <1>10 DEF Seen
  <2>3. CASE Setup!Running(q)'
    BY <2>1, <2>2, <2>3, <1>10
  <2>4. CASE Setup!Idle' /\ latest' = q
    <3>1. onward = "done"
      BY <2>4, <1>6 DEF Setup!Idle
    <3> QED  BY <3>1, <2>2, <2>4, <1>1
  <2> QED  BY <2>1, <2>2, <2>3, <2>4
<1>14. \A q \in Process : pc[q]' \in StepNames(q) \cup {"ready", "done"}
  BY <1>2, <1>3, <1>4
<1>15. /\ mixed' \in BOOLEAN /\ latest' \in Process \cup {None} /\ mutex' \in Process \cup {None}
       /\ DOMAIN pc' = Process
  <2>1. mixed' \in BOOLEAN
    BY <1>0 DEF SetupState, ProcessState
  <2>2. latest' \in Process \cup {None} /\ mutex' \in Process \cup {None} /\ DOMAIN pc' = Process
    BY <1>1, <1>2 DEF SetupState, ProcessState
  <2> QED  BY <2>1, <2>2
<1> QED  BY <1>4, <1>12, <1>13, <1>14, <1>15

\* A process that begins.
LEMMA BeginIsAlone ==
    ASSUME SetupConstants, SetupState, Alone, NEW p \in Process, Setup!Begin(p)
    PROVE  /\ Alone' /\ setupPlan' = setupPlan /\ pc[p]' \in StepNames(p) \cup {"done"}
           /\ mixed' \in BOOLEAN /\ latest' \in Process \cup {None}
           /\ mutex' \in Process \cup {None}
           /\ DOMAIN pc' = Process
           /\ \A q \in Process : pc[q]' \in StepNames(q) \cup {"ready", "done"}
           /\ ~mixed' => ~mixed /\ \A q \in Process : Seen(q)' => q = p
<1>0. setupPlan' = setupPlan /\ pc[p] = "ready"
      /\ mixed' = (mixed
                   \/ (\E q \in Process \ {p} : Setup!Running(q)
                       /\ {Setup!ask(p).kind, Setup!ask(q).kind} # {"install"}))
  BY DEF Setup!Begin, Setup!At
<1>1. PICK onward : Setup!Goes(p, onward) /\ onward \in {Setup!StepsOf(p)[1], Setup!Unwinds(p)}
  BY DEF Setup!Begin, Setup!Fails
<1>a. Setup!ask(p).kind \in Kinds \ {"none"} /\ Setup!ask(p).network \in BOOLEAN
  BY SetupAsked DEF SetupConstants, SetupState, MachineState, Setup!Begin
<1>b. Setup!StepsOf(p)[1] \in StepNames(p)
  BY <1>a, AfterAnInstallStep, AfterAnInstallStepAlone, AfterAnUpdateStep, AfterAWorkInstallStep,
      AfterAnotherStep
     DEF StepNames, Kinds
<1>2. /\ onward \in StepNames(p) \cup {"done"} /\ onward # "ready"
      /\ (Setup!ask(p).kind = "install" => onward # "done")
      /\ pc' = [pc EXCEPT ![p] = onward] /\ latest' = IF onward = "done" THEN p ELSE latest
  BY <1>1, <1>b DEF Setup!Unwinds, StepNames, Setup!Goes
<1>3. DOMAIN pc = Process /\ \A q \in Process : pc[q] \in StepNames(q) \cup {"ready", "done"}
  BY DEF SetupState, ProcessState
<1>4. pc[p]' = onward /\ \A q \in Process : q # p => pc[q]' = pc[q]
  BY <1>2, <1>3
<1>5. /\ ~Setup!Running(p) /\ \A q \in Process : q # p => (Setup!Running(q)' <=> Setup!Running(q))
  BY <1>0, <1>4 DEF Setup!Running
<1>6. Setup!Running(p)' <=> onward # "done"
  BY <1>2, <1>4 DEF Setup!Running
<1>7. \A q \in Process : (Setup!ask(q).kind = "install")' <=> Setup!ask(q).kind = "install"
  BY <1>0 DEF Setup!ask
<1>8. /\ \A q \in Process : Setup!ask(q).kind = "install" /\ Setup!Running(q) <=> mutex = q
      /\ mutex' = IF Setup!ask(p).kind = "install" THEN p ELSE mutex
      /\ Setup!ask(p).kind = "install" => mutex = None
  BY DEF Alone, Setup!Begin, Setup!MutexFree
<1>9. \A q \in Process : (Setup!ask(q).kind = "install" /\ Setup!Running(q))' <=> mutex' = q
  <2>1. CASE Setup!ask(p).kind = "install"
    <3>1. mutex' = p /\ onward # "done" /\ mutex = None
      BY <2>1, <1>2, <1>8
    <3>2. \A q \in Process : q # p => ~(Setup!ask(q).kind = "install" /\ Setup!Running(q))
      BY <3>1, <1>8 DEF SetupConstants, Setup!SetupAssumption
    <3> QED  BY <2>1, <3>1, <3>2, <1>5, <1>6, <1>7
  <2>2. CASE Setup!ask(p).kind # "install"
    BY <2>2, <1>5, <1>7, <1>8
  <2> QED  BY <2>1, <2>2
<1>10. ~mixed' => ~mixed /\ \A q \in Process : q # p => ~Setup!Running(q)
  BY <1>0, <1>8 DEF SetupConstants, Setup!SetupAssumption
<1>11. latest' # None => pc[latest]' = "done"
  <2>1. CASE onward = "done"
    BY <2>1, <1>2, <1>4
  <2>2. CASE onward # "done"
    <3>1. latest' = latest
      BY <2>2, <1>2
    <3>2. latest # None => latest # p /\ pc[latest] = "done" /\ latest \in Process
      BY <1>0 DEF Alone, SetupState, ProcessState
    <3> QED  BY <3>1, <3>2, <1>4
  <2> QED  BY <2>1, <2>2
<1>12. Alone'
  BY <1>5, <1>9, <1>10, <1>11 DEF Alone
<1>13. ~mixed' => ~mixed /\ \A q \in Process : Seen(q)' => q = p
  <2> SUFFICES ASSUME NEW q \in Process, Seen(q)', ~mixed' PROVE q = p
    BY <1>10
  <2>1. Setup!Running(q)' \/ (Setup!Idle' /\ latest' = q)
    BY DEF Seen
  <2>3. CASE Setup!Running(q)'
    BY <2>3, <1>10, <1>5
  <2>4. CASE Setup!Idle' /\ latest' = q
    <3>1. onward = "done"
      BY <2>4, <1>6 DEF Setup!Idle
    <3> QED  BY <3>1, <2>4, <1>2
  <2> QED  BY <2>1, <2>3, <2>4
<1>14. \A q \in Process : pc[q]' \in StepNames(q) \cup {"ready", "done"}
  BY <1>2, <1>3, <1>4
<1>15. /\ mixed' \in BOOLEAN /\ latest' \in Process \cup {None} /\ mutex' \in Process \cup {None}
       /\ DOMAIN pc' = Process
  <2>1. mixed' \in BOOLEAN
    BY <1>0 DEF SetupState, ProcessState
  <2>2. latest' \in Process \cup {None} /\ mutex' \in Process \cup {None} /\ DOMAIN pc' = Process
    BY <1>2, <1>8 DEF SetupState, ProcessState
  <2> QED  BY <2>1, <2>2
<1> QED  BY <1>0, <1>2, <1>4, <1>12, <1>13, <1>14, <1>15

\* One that gives up does not see the others' work, and is not the last to end.
LEMMA GivesUpIsAlone ==
    ASSUME SetupConstants, SetupState, Alone, NEW p \in Process, Setup!GivesUp(p)
    PROVE  /\ Alone' /\ setupPlan' = setupPlan
           /\ mixed' \in BOOLEAN /\ latest' \in Process \cup {None}
           /\ mutex' \in Process \cup {None}
           /\ DOMAIN pc' = Process
           /\ \A q \in Process : pc[q]' \in StepNames(q) \cup {"ready", "done"}
           /\ \A q \in Process : Seen(q)' => q # p /\ Seen(q) /\ pc[q]' = pc[q]
           /\ ~mixed' => ~mixed
<1>0. setupPlan' = setupPlan /\ pc[p] = "ready"
      /\ mixed' = (mixed
                   \/ (\E q \in Process \ {p} : Setup!Running(q)
                       /\ {Setup!ask(p).kind, Setup!ask(q).kind} # {"install"}))
  BY DEF Setup!GivesUp, Setup!At
<1>2. pc' = [pc EXCEPT ![p] = "done"] /\ latest' = p /\ mutex' = mutex /\ mutex # None
  BY DEF Setup!GivesUp, Setup!Goes
<1>3. DOMAIN pc = Process /\ \A q \in Process : pc[q] \in StepNames(q) \cup {"ready", "done"}
  BY DEF SetupState, ProcessState
<1>4. pc[p]' = "done" /\ \A q \in Process : q # p => pc[q]' = pc[q]
  BY <1>2, <1>3
<1>5. /\ ~Setup!Running(p) /\ ~Setup!Running(p)' /\ \A q \in Process : Setup!Running(q)' <=>
             Setup!Running(q)
  BY <1>0, <1>4 DEF Setup!Running
<1>7. \A q \in Process : (Setup!ask(q).kind = "install")' <=> Setup!ask(q).kind = "install"
  BY <1>0 DEF Setup!ask
<1>8. \A q \in Process : Setup!ask(q).kind = "install" /\ Setup!Running(q) <=> mutex = q
  BY DEF Alone
<1>9. \A q \in Process : (Setup!ask(q).kind = "install" /\ Setup!Running(q))' <=> mutex' = q
  BY <1>2, <1>5, <1>7, <1>8
<1>10. ~mixed' => ~mixed
  BY <1>0
<1>12. Alone'
  BY <1>2, <1>4, <1>5, <1>9, <1>10 DEF Alone
<1>13. \A q \in Process : Seen(q)' => q # p /\ Seen(q) /\ pc[q]' = pc[q]
  <2> SUFFICES ASSUME NEW q \in Process, Seen(q)' PROVE q # p /\ Seen(q) /\ pc[q]' = pc[q]
    OBVIOUS
  <2>1. mutex \in Process /\ Setup!Running(mutex)
    BY <1>2, <1>8 DEF SetupState, ProcessState
  <2>2. ~Setup!Idle'
    BY <2>1, <1>5 DEF Setup!Idle
  <2>3. Setup!Running(q)' /\ ~mixed'
    BY <2>2 DEF Seen
  <2> QED  BY <2>3, <1>4, <1>5, <1>10 DEF Seen
<1>14. \A q \in Process : pc[q]' \in StepNames(q) \cup {"ready", "done"}
  BY <1>3, <1>4
<1>15. /\ mixed' \in BOOLEAN /\ latest' \in Process \cup {None} /\ mutex' \in Process \cup {None}
       /\ DOMAIN pc' = Process
  <2>1. mixed' \in BOOLEAN
    BY <1>0 DEF SetupState, ProcessState
  <2>2. latest' \in Process \cup {None} /\ mutex' \in Process \cup {None} /\ DOMAIN pc' = Process
    BY <1>2 DEF SetupState, ProcessState
  <2> QED  BY <2>1, <2>2
<1> QED  BY <1>0, <1>10, <1>12, <1>13, <1>14, <1>15

LocalsState ==
    /\ dir \in [Process -> Dir]
    /\ found \in [Process -> [dir : Dir, running : BOOLEAN, work : InstalledWork]]
    /\ workRestart \in [Process -> BOOLEAN] /\ networkRestore \in [Process -> BOOLEAN]
    /\ failed \in [Process -> BOOLEAN] /\ lateStop \in [Process -> BOOLEAN]

\* No more faults are taken than the plan has.
LEMMA StepKeepsFaults ==
    ASSUME Setup!SetupPlansAssumption, SetupState, NEW p \in Process, Works(p)
    PROVE  setupFaults' \in 0..setupPlan.faults
<1>1. setupPlan.faults \in Nat /\ setupFaults \in 0..setupPlan.faults
  BY SetupAsked DEF SetupState, MachineState
<1>2. setupFaults' = setupFaults \/ Setup!AFault
  BY DEF Works, Setup!StepFails, Setup!StopWork, Setup!StopNetwork, Setup!Prepare, Setup!Copy,
         Setup!Tools, Setup!WriteConfig, Setup!Alias, Setup!CreateNetwork,
         Setup!Metadata, Setup!Home, Setup!Supersede, Setup!Wipe, Setup!PasswordStep,
         Setup!WorkService, Setup!Cleanup, Setup!StartWork, Setup!Preserve, Setup!Swap,
         Setup!Rollback, Setup!Forget, Setup!RestoreNetwork, Setup!RestoreWork
<1> QED  BY <1>1, <1>2 DEF Setup!AFault

\* A step may mark its own process as failed.
LEMMA StepKeepsFailed ==
    ASSUME SetupState, NEW p \in Process, Works(p)
    PROVE  failed' \in [Process -> BOOLEAN]
<1>1. failed' = failed \/ failed' = [failed EXCEPT ![p] = TRUE]
  BY DEF Works, Setup!StepFails, Setup!StopWork, Setup!StopNetwork, Setup!Prepare, Setup!Copy,
         Setup!Tools, Setup!WriteConfig, Setup!Alias, Setup!CreateNetwork,
         Setup!Metadata, Setup!Home, Setup!Supersede, Setup!Wipe, Setup!PasswordStep,
         Setup!WorkService, Setup!Cleanup, Setup!StartWork, Setup!Preserve, Setup!Swap,
         Setup!Rollback, Setup!Forget, Setup!RestoreNetwork, Setup!RestoreWork, Setup!Proceeds,
         Setup!Fails, Setup!StartFailed
<1> QED  BY <1>1 DEF SetupState, ProcessState

\* What a step writes to the machine and to the process has its type.
LEMMA StepKeepsTypes ==
    ASSUME SetupConstants, SetupState, NEW p \in Process, Works(p)
    PROVE  setupPlan' = setupPlan /\ MachineState' /\ LocalsState'
<1>0. setupPlan' = setupPlan /\ setupPlan' \in SetupPlans
      /\ setupFaults' \in 0..setupPlan'.faults /\ failed' \in [Process -> BOOLEAN]
  BY StepFollows, StepKeepsFaults, StepKeepsFailed DEF SetupConstants, SetupState, MachineState,
      Setup!At
<1> USE <1>0 DEF SetupState, MachineState, ProcessState, LocalsState, SetupConstants,
    Setup!SetupAssumption
<1>1. CASE Setup!StepFails(p)
  <2>1. UNCHANGED <<work, networkService, exe, previousExe, password, tools, netConfig, metadata,
                    alias, home, dir, found, workRestart, lateStop>>
    BY <1>1 DEF Setup!StepFails, Setup!machine, Setup!Steady
  <2>2. networkRestore' \in [Process -> BOOLEAN]
    BY <1>1 DEF Setup!StepFails, InstalledWork, Written, Setup!File, Setup!OfProcess,
                Setup!NoConfig, Setup!Removed, Setup!RestartIsPending, Setup!RestartsWork
  <2> QED  BY <2>1, <2>2
<1>2. CASE Setup!StopWork(p)
  <2>1. UNCHANGED <<networkService, exe, previousExe, password, tools, netConfig, metadata,
                    alias, home, dir, networkRestore>>
    BY <1>2 DEF Setup!StopWork, Setup!machine, Setup!Steady
  <2>2. work' \in InstalledWork
    BY <1>2 DEF Setup!StopWork, InstalledWork, Written, Setup!File, Setup!OfProcess,
                Setup!NoConfig, Setup!Removed, Setup!RestartIsPending, Setup!RestartsWork
  <2>3. workRestart' \in [Process -> BOOLEAN]
    <3>1. workRestart' = workRestart
              \/ workRestart' = [workRestart EXCEPT ![p] = Setup!RestartIsPending(p)]
      BY <1>2 DEF Setup!StopWork
    <3>2. Setup!RestartIsPending(p) \in BOOLEAN
      BY Zenon DEF Setup!RestartIsPending
    <3> QED  BY <3>1, <3>2
  <2>4. found' \in [Process -> [dir : Dir, running : BOOLEAN, work : InstalledWork]]
    <3>1. found' = found \/ found' = [found EXCEPT ![p].running = work.is = "running"]
      BY <1>2 DEF Setup!StopWork
    <3>2. (work.is = "running") \in BOOLEAN
      BY Zenon
    <3>3. found[p] \in [dir : Dir, running : BOOLEAN, work : InstalledWork]
      OBVIOUS
    <3>4. [found[p] EXCEPT !.running = (work.is = "running")] \in [dir : Dir, running : BOOLEAN,
              work : InstalledWork]
      BY <3>2, <3>3
    <3>5. found \in [Process -> [dir : Dir, running : BOOLEAN, work : InstalledWork]]
      OBVIOUS
    <3> HIDE DEF SetupState, MachineState, ProcessState, LocalsState, SetupConstants
    <3> QED  BY <3>1, <3>4, <3>5
  <2>5. lateStop' \in [Process -> BOOLEAN]
    <3>1. lateStop' = lateStop \/ lateStop' = [lateStop EXCEPT ![p] = TRUE]
      BY <1>2 DEF Setup!StopWork
    <3>2. lateStop \in [Process -> BOOLEAN]
      OBVIOUS
    <3> HIDE DEF SetupState, MachineState, ProcessState, LocalsState, SetupConstants
    <3> QED  BY <3>1, <3>2
  <2> QED  BY <2>1, <2>2, <2>3, <2>4, <2>5
<1>3. CASE Setup!StopNetwork(p)
  <2>1. UNCHANGED <<work, exe, previousExe, password, tools, netConfig, metadata, alias, home,
                    dir, found, workRestart, lateStop>>
    BY <1>3 DEF Setup!StopNetwork, Setup!machine, Setup!Steady
  <2>2. networkService' \in [is : {"absent", "stopped", "running"}, dir : Dir]
    BY <1>3 DEF Setup!StopNetwork, InstalledWork, Written, Setup!File, Setup!OfProcess,
                Setup!NoConfig, Setup!Removed, Setup!RestartIsPending, Setup!RestartsWork
  <2>3. networkRestore' \in [Process -> BOOLEAN]
    BY <1>3 DEF Setup!StopNetwork, InstalledWork, Written, Setup!File, Setup!OfProcess,
                Setup!NoConfig, Setup!Removed, Setup!RestartIsPending, Setup!RestartsWork
  <2> QED  BY <2>1, <2>2, <2>3
<1>4. CASE Setup!Prepare(p)
  <2>1. UNCHANGED <<work, networkService, exe, previousExe, password, tools, netConfig, metadata,
                    alias, home, dir, found, workRestart, networkRestore, lateStop>>
    BY <1>4 DEF Setup!Prepare, Setup!machine, Setup!Steady
  <2> QED  BY <2>1
<1>5. CASE Setup!Copy(p)
  <2>1. UNCHANGED <<work, networkService, previousExe, password, tools, netConfig, metadata,
                    alias, home, dir, found, workRestart, networkRestore, lateStop>>
    BY <1>5 DEF Setup!Copy, Setup!machine, Setup!Steady
  <2>2. exe' \in [Dir -> Setup!File]
    <3>1. exe' = exe \/ \E f \in {p, "broken"} : exe' = [exe EXCEPT ![dir[p]] = f]
      BY <1>5 DEF Setup!Copy
    <3>2. exe \in [Dir -> Setup!File] /\ {p, "broken"} \subseteq Setup!File
      BY DEF Setup!File
    <3> HIDE DEF SetupState, MachineState, ProcessState, LocalsState, SetupConstants
    <3> QED  BY <3>1, <3>2
  <2> QED  BY <2>1, <2>2
<1>6. CASE Setup!Tools(p)
  <2>1. UNCHANGED <<work, networkService, exe, previousExe, password, netConfig, metadata, alias,
                    home, dir, found, workRestart, networkRestore, lateStop>>
    BY <1>6 DEF Setup!Tools, Setup!machine, Setup!Steady
  <2>2. tools' \subseteq Dir
    BY <1>6 DEF Setup!Tools, InstalledWork, Written, Setup!File, Setup!OfProcess, Setup!NoConfig,
                Setup!Removed, Setup!RestartIsPending, Setup!RestartsWork
  <2> QED  BY <2>1, <2>2
<1>7. CASE Setup!WriteConfig(p)
  <2>1. UNCHANGED <<work, networkService, exe, previousExe, password, tools, metadata, alias,
                    home, dir, found, workRestart, networkRestore, lateStop>>
    BY <1>7 DEF Setup!WriteConfig, Setup!machine, Setup!Steady
  <2>2. netConfig' \in Written
    BY <1>7 DEF Setup!WriteConfig, InstalledWork, Written, Setup!File, Setup!OfProcess,
                Setup!NoConfig, Setup!Removed, Setup!RestartIsPending, Setup!RestartsWork
  <2> QED  BY <2>1, <2>2
<1>8. CASE Setup!Alias(p)
  <2>1. UNCHANGED <<work, networkService, exe, previousExe, password, tools, netConfig, metadata,
                    home, dir, found, workRestart, networkRestore, lateStop>>
    BY <1>8 DEF Setup!Alias, Setup!machine, Setup!Steady
  <2>2. alias' \in Setup!File
    BY <1>8 DEF Setup!Alias, InstalledWork, Written, Setup!File, Setup!OfProcess, Setup!NoConfig,
                Setup!Removed, Setup!RestartIsPending, Setup!RestartsWork
  <2> QED  BY <2>1, <2>2
<1>9. CASE Setup!CreateNetwork(p)
  <2>1. UNCHANGED <<work, exe, previousExe, password, tools, netConfig, metadata, alias, home,
                    dir, found, workRestart, lateStop>>
    BY <1>9 DEF Setup!CreateNetwork, Setup!machine, Setup!Steady
  <2>a. dir[p] \in Dir /\ networkRestore \in [Process -> BOOLEAN]
        /\ networkService \in [is : {"absent", "stopped", "running"}, dir : Dir]
    OBVIOUS
  <2>b. \/ networkService' = networkService
        \/ networkService' = [is |-> "running", dir |-> dir[p]]
        \/ networkService' = [is |-> "stopped", dir |-> dir[p]]
    BY <1>9 DEF Setup!CreateNetwork
  <2>c. networkRestore' = networkRestore \/ networkRestore' = [networkRestore EXCEPT ![p] = FALSE]
    BY <1>9 DEF Setup!CreateNetwork
  <2>2. networkService' \in [is : {"absent", "stopped", "running"}, dir : Dir]
    BY <2>a, <2>b
  <2>3. networkRestore' \in [Process -> BOOLEAN]
    BY <2>a, <2>c
  <2> QED  BY <2>1, <2>2, <2>3
<1>10. CASE Setup!Metadata(p)
  <2>1. UNCHANGED <<work, networkService, exe, previousExe, password, tools, netConfig, alias,
                    home, dir, found, workRestart, networkRestore, lateStop>>
    BY <1>10 DEF Setup!Metadata, Setup!machine, Setup!Steady
  <2>2. metadata' \in Written
    BY <1>10 DEF Setup!Metadata, InstalledWork, Written, Setup!File, Setup!OfProcess,
                 Setup!NoConfig, Setup!Removed, Setup!RestartIsPending, Setup!RestartsWork
  <2> QED  BY <2>1, <2>2
<1>11. CASE Setup!Home(p)
  <2>1. UNCHANGED <<work, networkService, exe, previousExe, password, tools, netConfig, metadata,
                    alias, dir, found, workRestart, networkRestore, lateStop>>
    BY <1>11 DEF Setup!Home, Setup!machine, Setup!Steady
  <2>2. home' \in Setup!File
    BY <1>11 DEF Setup!Home, InstalledWork, Written, Setup!File, Setup!OfProcess, Setup!NoConfig,
                 Setup!Removed, Setup!RestartIsPending, Setup!RestartsWork
  <2> QED  BY <2>1, <2>2
<1>12. CASE Setup!Supersede(p)
  <2>1. UNCHANGED <<work, networkService, previousExe, password, netConfig, metadata, alias,
                    home, dir, found, workRestart, lateStop>>
    BY <1>12 DEF Setup!Supersede, Setup!machine, Setup!Steady
  <2>2. exe' \in [Dir -> Setup!File]
    <3>1. exe' = exe \/ \E d : exe' = [exe EXCEPT ![d] = None]
      BY <1>12 DEF Setup!Supersede, Setup!Removed
    <3>2. exe \in [Dir -> Setup!File] /\ None \in Setup!File
      BY DEF Setup!File
    <3> HIDE DEF SetupState, MachineState, ProcessState, LocalsState, SetupConstants
    <3> QED  BY <3>1, <3>2
  <2>3. tools' \subseteq Dir
    BY <1>12 DEF Setup!Supersede, InstalledWork, Written, Setup!File, Setup!OfProcess,
                 Setup!NoConfig, Setup!Removed, Setup!RestartIsPending, Setup!RestartsWork
  <2>4. networkRestore' \in [Process -> BOOLEAN]
    BY <1>12 DEF Setup!Supersede, InstalledWork, Written, Setup!File, Setup!OfProcess,
                 Setup!NoConfig, Setup!Removed, Setup!RestartIsPending, Setup!RestartsWork
  <2> QED  BY <2>1, <2>2, <2>3, <2>4
<1>13. CASE Setup!Wipe(p)
  <2>1. UNCHANGED <<work, networkService, previousExe, password, netConfig, alias, home, dir,
                    found, workRestart, networkRestore, lateStop>>
    BY <1>13 DEF Setup!Wipe, Setup!machine, Setup!Steady
  <2>2. exe' \in [Dir -> Setup!File]
    BY <1>13 DEF Setup!Wipe, InstalledWork, Written, Setup!File, Setup!OfProcess, Setup!NoConfig,
                 Setup!Removed, Setup!RestartIsPending, Setup!RestartsWork
  <2>3. tools' \subseteq Dir
    BY <1>13 DEF Setup!Wipe, InstalledWork, Written, Setup!File, Setup!OfProcess, Setup!NoConfig,
                 Setup!Removed, Setup!RestartIsPending, Setup!RestartsWork
  <2>4. metadata' \in Written
    BY <1>13 DEF Setup!Wipe, InstalledWork, Written, Setup!File, Setup!OfProcess, Setup!NoConfig,
                 Setup!Removed, Setup!RestartIsPending, Setup!RestartsWork
  <2> QED  BY <2>1, <2>2, <2>3, <2>4
<1>14. CASE Setup!PasswordStep(p)
  <2>1. UNCHANGED <<work, networkService, exe, previousExe, tools, netConfig, metadata, alias,
                    home, dir, found, workRestart, networkRestore, lateStop>>
    BY <1>14 DEF Setup!PasswordStep, Setup!machine, Setup!Steady
  <2>2. password' \in [Dir -> Setup!File]
    BY <1>14 DEF Setup!PasswordStep, InstalledWork, Written, Setup!File, Setup!OfProcess,
                 Setup!NoConfig, Setup!Removed, Setup!RestartIsPending, Setup!RestartsWork
  <2> QED  BY <2>1, <2>2
<1>15. CASE Setup!WorkService(p)
  <2>1. UNCHANGED <<networkService, exe, previousExe, password, tools, netConfig, metadata,
                    alias, home, dir, found, workRestart, networkRestore, lateStop>>
    BY <1>15 DEF Setup!WorkService, Setup!machine, Setup!Steady
  <2>2. work' \in InstalledWork
    BY <1>15 DEF Setup!WorkService, InstalledWork, Written, Setup!File, Setup!OfProcess,
                 Setup!NoConfig, Setup!Removed, Setup!RestartIsPending, Setup!RestartsWork
  <2> QED  BY <2>1, <2>2
<1>16. CASE Setup!Cleanup(p)
  <2>1. UNCHANGED <<work, networkService, previousExe, tools, netConfig, metadata, alias, home,
                    dir, found, workRestart, networkRestore, lateStop>>
    BY <1>16 DEF Setup!Cleanup, Setup!machine, Setup!Steady
  <2>2. exe' \in [Dir -> Setup!File]
    BY <1>16 DEF Setup!Cleanup, InstalledWork, Written, Setup!File, Setup!OfProcess,
                 Setup!NoConfig, Setup!Removed, Setup!RestartIsPending, Setup!RestartsWork
  <2>3. password' \in [Dir -> Setup!File]
    <3>1. password' = password \/ \E d : password' = [password EXCEPT ![d] = None]
      BY <1>16 DEF Setup!Cleanup
    <3>2. password \in [Dir -> Setup!File] /\ None \in Setup!File
      BY DEF Setup!File
    <3> HIDE DEF SetupState, MachineState, ProcessState, LocalsState, SetupConstants
    <3> QED  BY <3>1, <3>2
  <2> QED  BY <2>1, <2>2, <2>3
<1>17. CASE Setup!StartWork(p)
  <2>1. UNCHANGED <<networkService, exe, previousExe, password, tools, netConfig, metadata,
                    alias, home, dir, found, networkRestore, lateStop>>
    BY <1>17 DEF Setup!StartWork, Setup!machine, Setup!Steady
  <2>2. work' \in InstalledWork
    <3>1. work' = work \/ work' = [work EXCEPT !.is = "running"]
      BY <1>17 DEF Setup!StartWork
    <3>2. work \in InstalledWork
      OBVIOUS
    <3> HIDE DEF SetupState, MachineState, ProcessState, LocalsState, SetupConstants
    <3> QED  BY <3>1, <3>2 DEF InstalledWork
  <2>3. workRestart' \in [Process -> BOOLEAN]
    <3>1. workRestart' = workRestart \/ workRestart' = [workRestart EXCEPT ![p] = FALSE]
      BY <1>17 DEF Setup!StartWork
    <3>2. TRUE
      BY Zenon DEF Setup!RestartIsPending
    <3> QED  BY <3>1, <3>2
  <2> QED  BY <2>1, <2>2, <2>3
<1>18. CASE Setup!Preserve(p)
  <2>1. UNCHANGED <<networkService, password, tools, netConfig, metadata, alias, home, dir,
                    found, workRestart, networkRestore, lateStop>>
    BY <1>18 DEF Setup!Preserve, Setup!machine, Setup!Steady
  <2>2. exe' \in [Dir -> Setup!File]
    BY <1>18 DEF Setup!Preserve, InstalledWork, Written, Setup!File, Setup!OfProcess,
                 Setup!NoConfig, Setup!Removed, Setup!RestartIsPending, Setup!RestartsWork
  <2>3. previousExe' \in [Dir -> Setup!File]
    BY <1>18 DEF Setup!Preserve, InstalledWork, Written, Setup!File, Setup!OfProcess,
                 Setup!NoConfig, Setup!Removed, Setup!RestartIsPending, Setup!RestartsWork
  <2>4. work' \in InstalledWork
    BY <1>18 DEF Setup!Preserve, InstalledWork, Written, Setup!File, Setup!OfProcess,
                 Setup!NoConfig, Setup!Removed, Setup!RestartIsPending, Setup!RestartsWork
  <2> QED  BY <2>1, <2>2, <2>3, <2>4
<1>19. CASE Setup!Swap(p)
  <2>1. UNCHANGED <<work, networkService, previousExe, password, tools, netConfig, metadata,
                    alias, home, dir, found, workRestart, networkRestore, lateStop>>
    BY <1>19 DEF Setup!Swap, Setup!machine, Setup!Steady
  <2>2. exe' \in [Dir -> Setup!File]
    <3>1. exe' = exe \/ exe' = [exe EXCEPT ![dir[p]] = p]
      BY <1>19 DEF Setup!Swap
    <3>2. exe \in [Dir -> Setup!File] /\ p \in Setup!File
      BY DEF Setup!File
    <3> HIDE DEF SetupState, MachineState, ProcessState, LocalsState, SetupConstants
    <3> QED  BY <3>1, <3>2
  <2> QED  BY <2>1, <2>2
<1>20. CASE Setup!Rollback(p)
  <2>1. UNCHANGED <<networkService, password, tools, netConfig, metadata, alias, home, dir,
                    found, workRestart, networkRestore, lateStop>>
    BY <1>20 DEF Setup!Rollback, Setup!machine, Setup!Steady
  <2>2. exe' \in [Dir -> Setup!File]
    BY <1>20 DEF Setup!Rollback, InstalledWork, Written, Setup!File, Setup!OfProcess,
                 Setup!NoConfig, Setup!Removed, Setup!RestartIsPending, Setup!RestartsWork
  <2>3. previousExe' \in [Dir -> Setup!File]
    BY <1>20 DEF Setup!Rollback, InstalledWork, Written, Setup!File, Setup!OfProcess,
                 Setup!NoConfig, Setup!Removed, Setup!RestartIsPending, Setup!RestartsWork
  <2>4. work' \in InstalledWork
    BY <1>20 DEF Setup!Rollback, InstalledWork, Written, Setup!File, Setup!OfProcess,
                 Setup!NoConfig, Setup!Removed, Setup!RestartIsPending, Setup!RestartsWork
  <2> QED  BY <2>1, <2>2, <2>3, <2>4
<1>21. CASE Setup!Forget(p)
  <2>1. UNCHANGED <<work, networkService, exe, password, tools, netConfig, metadata, alias, home,
                    dir, found, workRestart, networkRestore, lateStop>>
    BY <1>21 DEF Setup!Forget, Setup!machine, Setup!Steady
  <2>2. previousExe' \in [Dir -> Setup!File]
    BY <1>21 DEF Setup!Forget, InstalledWork, Written, Setup!File, Setup!OfProcess,
                 Setup!NoConfig, Setup!Removed, Setup!RestartIsPending, Setup!RestartsWork
  <2> QED  BY <2>1, <2>2
<1>22. CASE Setup!RestoreNetwork(p)
  <2>1. UNCHANGED <<work, exe, previousExe, password, tools, netConfig, metadata, alias, home,
                    dir, found, workRestart, networkRestore, lateStop>>
    BY <1>22 DEF Setup!RestoreNetwork, Setup!machine, Setup!Steady
  <2>2. networkService' \in [is : {"absent", "stopped", "running"}, dir : Dir]
    BY <1>22 DEF Setup!RestoreNetwork, InstalledWork, Written, Setup!File, Setup!OfProcess,
                 Setup!NoConfig, Setup!Removed, Setup!RestartIsPending, Setup!RestartsWork
  <2> QED  BY <2>1, <2>2
<1>23. CASE Setup!RestoreWork(p)
  <2>1. UNCHANGED <<networkService, exe, previousExe, password, tools, netConfig, metadata,
                    alias, home, dir, found, workRestart, networkRestore, lateStop>>
    BY <1>23 DEF Setup!RestoreWork, Setup!machine, Setup!Steady
  <2>2. work' \in InstalledWork
    BY <1>23 DEF Setup!RestoreWork, InstalledWork, Written, Setup!File, Setup!OfProcess,
                 Setup!NoConfig, Setup!Removed, Setup!RestartIsPending, Setup!RestartsWork
  <2> QED  BY <2>1, <2>2
<1> QED  BY <1>1, <1>2, <1>3, <1>4, <1>5, <1>6, <1>7, <1>8, <1>9, <1>10, <1>11, <1>12, <1>13,
    <1>14, <1>15, <1>16, <1>17, <1>18, <1>19, <1>20, <1>21, <1>22, <1>23 DEF Works

\* No step of a process alone takes a Work service's program or password while it runs.
LEMMA StepKeepsRunningStarts ==
    ASSUME SetupConstants, SetupState, NEW p \in Process, Works(p), RunningStarts, Behind(p)
    PROVE  RunningStarts'
<1>0. /\ work \in InstalledWork /\ exe \in [Dir -> Setup!File]
      /\ password \in [Dir -> Setup!File] /\ dir[p] \in Dir
      /\ previousExe \in [Dir -> Setup!File] /\ found[p].work \in InstalledWork
      /\ None \notin Process
      /\ pc[p] \in StepNames(p) \cup {"ready", "done"}
  BY DEF SetupConstants, Setup!SetupAssumption, SetupState, MachineState, ProcessState
<1> USE DEF RunningStarts, HasPassword
<1>1. CASE Setup!StepFails(p) \/ Setup!StopNetwork(p) \/ Setup!Prepare(p) \/ Setup!Tools(p)
               \/ Setup!WriteConfig(p) \/ Setup!Alias(p) \/ Setup!CreateNetwork(p)
               \/ Setup!Metadata(p) \/ Setup!Home(p) \/ Setup!Forget(p) \/ Setup!RestoreNetwork(p)
  <2>1. UNCHANGED <<work, exe, password>>
    BY <1>1 DEF Setup!StepFails, Setup!StopNetwork, Setup!Prepare, Setup!Tools, Setup!WriteConfig,
                Setup!Alias, Setup!CreateNetwork, Setup!Metadata, Setup!Home, Setup!Forget,
                Setup!RestoreNetwork, Setup!machine, Setup!Steady
  <2> QED  BY <2>1
<1>2. CASE Setup!StopWork(p)
  <2>1. UNCHANGED <<exe, password>>
    BY <1>2 DEF Setup!StopWork, Setup!machine, Setup!Steady
  <2> QED  BY <2>1, <1>0, <1>2 DEF Setup!StopWork, InstalledWork
<1>3. CASE Setup!Copy(p)
  <2>1. UNCHANGED <<work, password>>
    BY <1>3 DEF Setup!Copy, Setup!machine, Setup!Steady
  <2> QED  BY <2>1, <1>0, <1>3 DEF Setup!Copy, Setup!Busy, InstalledWork
<1>4. CASE Setup!Supersede(p)
  <2>1. UNCHANGED <<work, password>>
    BY <1>4 DEF Setup!Supersede, Setup!machine, Setup!Steady
  <2> QED  BY <2>1, <1>0, <1>4 DEF Setup!Supersede, Setup!Removed, Setup!Busy, InstalledWork
<1>5. CASE Setup!Wipe(p)
  <2>1. UNCHANGED <<work, password>>
    BY <1>5 DEF Setup!Wipe, Setup!machine, Setup!Steady
  <2> QED  BY <2>1, <1>0, <1>5 DEF Setup!Wipe, Setup!Removed, Setup!Busy, InstalledWork
<1>6. CASE Setup!PasswordStep(p)
  <2>1. UNCHANGED <<work, exe>>
    BY <1>6 DEF Setup!PasswordStep, Setup!machine, Setup!Steady
  <2> QED  BY <2>1, <1>0, <1>6 DEF Setup!PasswordStep, Behind, Setup!At, StepNames, InstalledWork
<1>7. CASE Setup!WorkService(p)
  <2>1. UNCHANGED <<exe, password>>
    BY <1>7 DEF Setup!WorkService, Setup!machine, Setup!Steady
  <2> QED  BY <2>1, <1>0, <1>7 DEF Setup!WorkService, Behind, Setup!At, StepNames, InstalledWork
<1>8. CASE Setup!Cleanup(p)
  <2>1. UNCHANGED <<work>>
    BY <1>8 DEF Setup!Cleanup, Setup!machine, Setup!Steady
  <2> QED  BY <2>1, <1>0, <1>8 DEF Setup!Cleanup, Setup!Removed, Setup!Busy, InstalledWork
<1>9. CASE Setup!StartWork(p)
  <2>1. UNCHANGED <<exe, password>>
    BY <1>9 DEF Setup!StartWork, Setup!machine, Setup!Steady
  <2> QED  BY <2>1, <1>0, <1>9 DEF Setup!StartWork, Setup!WorkStarts, Setup!WorkStartsWith,
                                   InstalledWork
<1>10. CASE Setup!Preserve(p)
  <2>1. UNCHANGED <<password>>
    BY <1>10 DEF Setup!Preserve, Setup!machine, Setup!Steady
  <2> QED  BY <2>1, <1>0, <1>10 DEF Setup!Preserve, Setup!WorkStarts, Setup!WorkStartsWith,
                                    Behind, Updates, Setup!At, StepNames, InstalledWork
<1>11. CASE Setup!Swap(p)
  <2>1. UNCHANGED <<work, password>>
    BY <1>11 DEF Setup!Swap, Setup!machine, Setup!Steady
  <2> QED  BY <2>1, <1>0, <1>11 DEF Setup!Swap, Behind, Updates, Setup!At, StepNames,
                                    InstalledWork
<1>12. CASE Setup!Rollback(p)
  <2>1. UNCHANGED <<password>>
    BY <1>12 DEF Setup!Rollback, Setup!machine, Setup!Steady
  <2> QED  BY <2>1, <1>0, <1>12 DEF Setup!Rollback, Setup!WorkStartsWith, Behind, Updates,
                                    Setup!At, StepNames, InstalledWork
<1>13. CASE Setup!RestoreWork(p)
  <2>1. UNCHANGED <<exe, password>>
    BY <1>13 DEF Setup!RestoreWork, Setup!machine, Setup!Steady
  <2> QED  BY <2>1, <1>0, <1>13 DEF Setup!RestoreWork, Setup!RestartsWork, Setup!WorkStarts,
                                    Setup!WorkStartsWith, InstalledWork
<1> QED  BY <1>1, <1>2, <1>3, <1>4, <1>5, <1>6, <1>7, <1>8, <1>9, <1>10, <1>11, <1>12,
    <1>13 DEF Works

\* What an install has done so far stays done, and each step does its own.
LEMMA StepKeepsInstalls ==
    ASSUME SetupConstants, SetupState, NEW p \in Process, Works(p), Setup!ask(p).kind = "install",
           ~failed[p] => Installs(p), ~failed[p]'
    PROVE  Installs(p)'
<1>0. /\ exe \in [Dir -> Setup!File] /\ dir[p] \in Dir /\ setupPlan' = setupPlan
      /\ Setup!ask(p)' = Setup!ask(p)
      /\ networkService \in [is : {"absent", "stopped", "running"}, dir : Dir]
      /\ pc[p] \in StepNames(p) \cup {"ready", "done"}
      /\ DOMAIN pc = Process /\ DOMAIN failed = Process /\ Setup!ask(p).network \in BOOLEAN
      /\ p \notin {None, "broken"}
  BY StepKeepsTypes, SetupAsked DEF SetupConstants, Setup!SetupAssumption, SetupState,
                                    MachineState, ProcessState, Setup!ask
<1>a. ~failed[p] /\ Installs(p)
  <2>1. failed' = failed \/ failed' = [failed EXCEPT ![p] = TRUE]
    BY DEF Works, Setup!StepFails, Setup!StopWork, Setup!StopNetwork, Setup!Prepare, Setup!Copy,
           Setup!Tools, Setup!WriteConfig, Setup!Alias, Setup!CreateNetwork,
         Setup!Metadata, Setup!Home, Setup!Supersede, Setup!Wipe, Setup!PasswordStep,
         Setup!WorkService, Setup!Cleanup, Setup!StartWork, Setup!Preserve, Setup!Swap,
         Setup!Rollback, Setup!Forget, Setup!RestoreNetwork, Setup!RestoreWork, Setup!Proceeds,
         Setup!Fails, Setup!StartFailed
  <2> QED  BY <2>1, <1>0
<1>b. ~Setup!Fails(p) /\ ~Setup!StartFailed(p)
  BY <1>0 DEF Setup!Fails, Setup!StartFailed
<1>c. Setup!WithNetwork(p) = Setup!ask(p).network
  BY <1>0 DEF Setup!WithNetwork
<1> USE DEF AfterHome, AfterMetadata, AfterNetwork
<1>1. CASE Setup!StepFails(p)
  BY <1>b, <1>1 DEF Setup!StepFails
<1>2. CASE Setup!StopWork(p)
  <2>1. UNCHANGED <<networkService, exe, dir, tools, netConfig, alias, metadata, home>>
    BY <1>2 DEF Setup!StopWork, Setup!machine, Setup!Steady
  <2>2. pc[p] = "stopWork" /\ pc[p]' = Setup!After(p, "stopWork")
    BY <1>0, <1>b, <1>2 DEF Setup!StopWork, Setup!At, Setup!Goes, Setup!Proceeds
  <2>8. CASE Setup!ask(p).network
    BY <2>1, <2>2, <2>8, <1>0, <1>a, AfterAnInstallStep DEF Installs, Setup!Whole,
        Setup!OfProcess, Setup!NoConfig, StepNames
  <2>9. CASE ~Setup!ask(p).network
    BY <2>1, <2>2, <2>9, <1>0, <1>a, AfterAnInstallStepAlone DEF Installs, Setup!Whole,
        Setup!OfProcess, Setup!NoConfig, StepNames
  <2> QED  BY <2>8, <2>9
<1>3. CASE Setup!StopNetwork(p)
  <2>1. UNCHANGED <<exe, dir, tools, netConfig, alias, metadata, home>>
    BY <1>3 DEF Setup!StopNetwork, Setup!machine, Setup!Steady
  <2>2. pc[p] = "stopNetwork" /\ pc[p]' = Setup!After(p, "stopNetwork")
    BY <1>0, <1>b, <1>3 DEF Setup!StopNetwork, Setup!At, Setup!Goes, Setup!Proceeds
  <2>3. networkService'.is = "absent"
    BY <1>0, <1>a, <1>b, <1>c, <1>3 DEF Setup!StopNetwork
  <2>8. CASE Setup!ask(p).network
    BY <2>1, <2>2, <2>3, <2>8, <1>0, <1>a, AfterAnInstallStep DEF Installs, Setup!Whole,
        Setup!OfProcess, Setup!NoConfig, StepNames
  <2>9. CASE ~Setup!ask(p).network
    BY <2>1, <2>2, <2>3, <2>9, <1>0, <1>a, AfterAnInstallStepAlone DEF Installs, Setup!Whole,
        Setup!OfProcess, Setup!NoConfig, StepNames
  <2> QED  BY <2>8, <2>9
<1>4. CASE Setup!Prepare(p)
  <2>1. UNCHANGED <<networkService, exe, dir, tools, netConfig, alias, metadata, home>>
    BY <1>4 DEF Setup!Prepare, Setup!machine, Setup!Steady
  <2>2. pc[p] = "prepare" /\ pc[p]' = Setup!After(p, "prepare")
    BY <1>0, <1>b, <1>4 DEF Setup!Prepare, Setup!At, Setup!Goes, Setup!Proceeds
  <2>8. CASE Setup!ask(p).network
    BY <2>1, <2>2, <2>8, <1>0, <1>a, AfterAnInstallStep DEF Installs, Setup!Whole,
        Setup!OfProcess, Setup!NoConfig, StepNames
  <2>9. CASE ~Setup!ask(p).network
    BY <2>1, <2>2, <2>9, <1>0, <1>a, AfterAnInstallStepAlone DEF Installs, Setup!Whole,
        Setup!OfProcess, Setup!NoConfig, StepNames
  <2> QED  BY <2>8, <2>9
<1>5. CASE Setup!Copy(p)
  <2>1. UNCHANGED <<networkService, dir, tools, netConfig, alias, metadata, home>>
    BY <1>5 DEF Setup!Copy, Setup!machine, Setup!Steady
  <2>2. pc[p] = "copy" /\ pc[p]' = Setup!After(p, "copy")
    BY <1>0, <1>b, <1>5 DEF Setup!Copy, Setup!At, Setup!Goes, Setup!Proceeds
  <2>3. exe' = IF Setup!ask(p).inPlace THEN exe ELSE [exe EXCEPT ![dir[p]] = p]
    BY <1>0, <1>a, <1>b, <1>c, <1>5 DEF Setup!Copy
  <2>8. CASE Setup!ask(p).network
    BY <2>1, <2>2, <2>3, <2>8, <1>0, <1>a, AfterAnInstallStep DEF Installs, Setup!Whole,
        Setup!OfProcess, Setup!NoConfig, StepNames
  <2>9. CASE ~Setup!ask(p).network
    BY <2>1, <2>2, <2>3, <2>9, <1>0, <1>a, AfterAnInstallStepAlone DEF Installs, Setup!Whole,
        Setup!OfProcess, Setup!NoConfig, StepNames
  <2> QED  BY <2>8, <2>9
<1>6. CASE Setup!Tools(p)
  <2>1. UNCHANGED <<networkService, exe, dir, netConfig, alias, metadata, home>>
    BY <1>6 DEF Setup!Tools, Setup!machine, Setup!Steady
  <2>2. pc[p] = "tools" /\ pc[p]' = Setup!After(p, "tools")
    BY <1>0, <1>b, <1>6 DEF Setup!Tools, Setup!At, Setup!Goes, Setup!Proceeds
  <2>3. tools' = IF Setup!ask(p).network THEN tools \cup {dir[p]} ELSE tools \ {dir[p]}
    BY <1>0, <1>a, <1>b, <1>c, <1>6 DEF Setup!Tools
  <2>8. CASE Setup!ask(p).network
    BY <2>1, <2>2, <2>3, <2>8, <1>0, <1>a, AfterAnInstallStep DEF Installs, Setup!Whole,
        Setup!OfProcess, Setup!NoConfig, StepNames
  <2>9. CASE ~Setup!ask(p).network
    BY <2>1, <2>2, <2>3, <2>9, <1>0, <1>a, AfterAnInstallStepAlone DEF Installs, Setup!Whole,
        Setup!OfProcess, Setup!NoConfig, StepNames
  <2> QED  BY <2>8, <2>9
<1>7. CASE Setup!WriteConfig(p)
  <2>1. UNCHANGED <<networkService, exe, dir, tools, alias, metadata, home>>
    BY <1>7 DEF Setup!WriteConfig, Setup!machine, Setup!Steady
  <2>2. pc[p] = "config" /\ pc[p]' = Setup!After(p, "config")
    BY <1>0, <1>b, <1>7 DEF Setup!WriteConfig, Setup!At, Setup!Goes, Setup!Proceeds
  <2>3. netConfig' = IF Setup!ask(p).network THEN Setup!OfProcess(p) ELSE Setup!NoConfig
    BY <1>0, <1>a, <1>b, <1>c, <1>7 DEF Setup!WriteConfig
  <2>8. CASE Setup!ask(p).network
    BY <2>1, <2>2, <2>3, <2>8, <1>0, <1>a, AfterAnInstallStep DEF Installs, Setup!Whole,
        Setup!OfProcess, Setup!NoConfig, StepNames
  <2>9. CASE ~Setup!ask(p).network
    BY <2>1, <2>2, <2>3, <2>9, <1>0, <1>a, AfterAnInstallStepAlone DEF Installs, Setup!Whole,
        Setup!OfProcess, Setup!NoConfig, StepNames
  <2> QED  BY <2>8, <2>9
<1>8. CASE Setup!Alias(p)
  <2>1. UNCHANGED <<networkService, exe, dir, tools, netConfig, metadata, home>>
    BY <1>8 DEF Setup!Alias, Setup!machine, Setup!Steady
  <2>2. pc[p] = "alias" /\ pc[p]' = Setup!After(p, "alias")
    BY <1>0, <1>b, <1>8 DEF Setup!Alias, Setup!At, Setup!Goes, Setup!Proceeds
  <2>3. alias' = IF Setup!ask(p).network THEN p ELSE None
    BY <1>0, <1>a, <1>b, <1>c, <1>8 DEF Setup!Alias
  <2>8. CASE Setup!ask(p).network
    BY <2>1, <2>2, <2>3, <2>8, <1>0, <1>a, AfterAnInstallStep DEF Installs, Setup!Whole,
        Setup!OfProcess, Setup!NoConfig, StepNames
  <2>9. CASE ~Setup!ask(p).network
    BY <2>1, <2>2, <2>3, <2>9, <1>0, <1>a, AfterAnInstallStepAlone DEF Installs, Setup!Whole,
        Setup!OfProcess, Setup!NoConfig, StepNames
  <2> QED  BY <2>8, <2>9
<1>9. CASE Setup!CreateNetwork(p)
  <2>1. UNCHANGED <<exe, dir, tools, netConfig, alias, metadata, home>>
    BY <1>9 DEF Setup!CreateNetwork, Setup!machine, Setup!Steady
  <2>2. pc[p] = "create" /\ pc[p]' = Setup!After(p, "create")
    BY <1>0, <1>b, <1>9 DEF Setup!CreateNetwork, Setup!At, Setup!Goes, Setup!Proceeds
  <2>3. networkService' = [is |-> "running", dir |-> dir[p]]
    BY <1>0, <1>a, <1>b, <1>c, <1>9 DEF Setup!CreateNetwork
  <2>8. CASE Setup!ask(p).network
    BY <2>1, <2>2, <2>3, <2>8, <1>0, <1>a, AfterAnInstallStep DEF Installs, Setup!Whole,
        Setup!OfProcess, Setup!NoConfig, StepNames
  <2>9. CASE ~Setup!ask(p).network
    BY <2>1, <2>2, <2>3, <2>9, <1>0, <1>a, AfterAnInstallStepAlone DEF Installs, Setup!Whole,
        Setup!OfProcess, Setup!NoConfig, StepNames
  <2> QED  BY <2>8, <2>9
<1>10. CASE Setup!Metadata(p)
  <2>1. UNCHANGED <<networkService, exe, dir, tools, netConfig, alias, home>>
    BY <1>10 DEF Setup!Metadata, Setup!machine, Setup!Steady
  <2>2. pc[p] = "metadata" /\ pc[p]' = Setup!After(p, "metadata")
    BY <1>0, <1>b, <1>10 DEF Setup!Metadata, Setup!At, Setup!Goes, Setup!Proceeds
  <2>3. metadata' = Setup!OfProcess(p)
    BY <1>0, <1>a, <1>b, <1>c, <1>10 DEF Setup!Metadata
  <2>8. CASE Setup!ask(p).network
    BY <2>1, <2>2, <2>3, <2>8, <1>0, <1>a, AfterAnInstallStep DEF Installs, Setup!Whole,
        Setup!OfProcess, Setup!NoConfig, StepNames
  <2>9. CASE ~Setup!ask(p).network
    BY <2>1, <2>2, <2>3, <2>9, <1>0, <1>a, AfterAnInstallStepAlone DEF Installs, Setup!Whole,
        Setup!OfProcess, Setup!NoConfig, StepNames
  <2> QED  BY <2>8, <2>9
<1>11. CASE Setup!Home(p)
  <2>1. UNCHANGED <<networkService, exe, dir, tools, netConfig, alias, metadata>>
    BY <1>11 DEF Setup!Home, Setup!machine, Setup!Steady
  <2>2. pc[p] = "home" /\ pc[p]' = Setup!After(p, "home")
    BY <1>0, <1>b, <1>11 DEF Setup!Home, Setup!At, Setup!Goes, Setup!Proceeds
  <2>3. home' = p
    BY <1>0, <1>a, <1>b, <1>c, <1>11 DEF Setup!Home
  <2>8. CASE Setup!ask(p).network
    BY <2>1, <2>2, <2>3, <2>8, <1>0, <1>a, AfterAnInstallStep DEF Installs, Setup!Whole,
        Setup!OfProcess, Setup!NoConfig, StepNames
  <2>9. CASE ~Setup!ask(p).network
    BY <2>1, <2>2, <2>3, <2>9, <1>0, <1>a, AfterAnInstallStepAlone DEF Installs, Setup!Whole,
        Setup!OfProcess, Setup!NoConfig, StepNames
  <2> QED  BY <2>8, <2>9
<1>12. CASE Setup!Supersede(p)
  <2>1. UNCHANGED <<networkService, dir, netConfig, alias, metadata, home>>
    BY <1>12 DEF Setup!Supersede, Setup!machine, Setup!Steady
  <2>2. pc[p] = "supersede" /\ pc[p]' = Setup!After(p, "supersede")
    BY <1>0, <1>b, <1>12 DEF Setup!Supersede, Setup!At, Setup!Goes, Setup!Proceeds
  <2>3. exe' = exe \/ (found[p].dir # dir[p] /\ exe' = Setup!Removed(exe, found[p].dir))
    BY <1>0, <1>a, <1>b, <1>c, <1>12 DEF Setup!Supersede
  <2>8. CASE Setup!ask(p).network
    BY <2>1, <2>2, <2>3, <2>8, <1>0, <1>a, AfterAnInstallStep DEF Installs, Setup!Whole,
        Setup!OfProcess, Setup!NoConfig, StepNames, Setup!Removed
  <2>9. CASE ~Setup!ask(p).network
    BY <2>1, <2>2, <2>3, <2>9, <1>0, <1>a, AfterAnInstallStepAlone DEF Installs, Setup!Whole,
        Setup!OfProcess, Setup!NoConfig, StepNames, Setup!Removed
  <2> QED  BY <2>8, <2>9
<1>13. CASE Setup!StartWork(p)
  <2>1. UNCHANGED <<networkService, exe, dir, tools, netConfig, alias, metadata, home>>
    BY <1>13 DEF Setup!StartWork, Setup!machine, Setup!Steady
  <2>2. pc[p] = "startWork" /\ pc[p]' = Setup!After(p, "startWork")
    BY <1>0, <1>b, <1>13 DEF Setup!StartWork, Setup!At, Setup!Goes, Setup!Proceeds
  <2>8. CASE Setup!ask(p).network
    BY <2>1, <2>2, <2>8, <1>0, <1>a, AfterAnInstallStep DEF Installs, Setup!Whole,
        Setup!OfProcess, Setup!NoConfig, StepNames
  <2>9. CASE ~Setup!ask(p).network
    BY <2>1, <2>2, <2>9, <1>0, <1>a, AfterAnInstallStepAlone DEF Installs, Setup!Whole,
        Setup!OfProcess, Setup!NoConfig, StepNames
  <2> QED  BY <2>8, <2>9
<1>14. CASE Setup!RestoreNetwork(p)
  <2>1. UNCHANGED <<exe, dir, tools, netConfig, alias, metadata, home>>
    BY <1>14 DEF Setup!RestoreNetwork, Setup!machine, Setup!Steady
  <2>2. pc[p] = "restoreNetwork" /\ pc[p]' = "restoreWork"
    BY <1>0, <1>14 DEF Setup!RestoreNetwork, Setup!At, Setup!Goes
  <2>3. networkService' = networkService
    BY <1>0, <1>a, <1>b, <1>c, <1>14 DEF Setup!RestoreNetwork
  <2>8. CASE Setup!ask(p).network
    BY <2>1, <2>2, <2>3, <2>8, <1>0, <1>a, AfterAnInstallStep DEF Installs, Setup!Whole,
        Setup!OfProcess, Setup!NoConfig, StepNames
  <2>9. CASE ~Setup!ask(p).network
    BY <2>1, <2>2, <2>3, <2>9, <1>0, <1>a, AfterAnInstallStepAlone DEF Installs, Setup!Whole,
        Setup!OfProcess, Setup!NoConfig, StepNames
  <2> QED  BY <2>8, <2>9
<1>15. CASE Setup!RestoreWork(p)
  <2>1. UNCHANGED <<networkService, exe, dir, tools, netConfig, alias, metadata, home>>
    BY <1>15 DEF Setup!RestoreWork, Setup!machine, Setup!Steady
  <2>2. pc[p] = "restoreWork" /\ pc[p]' = "done"
    BY <1>0, <1>15 DEF Setup!RestoreWork, Setup!At, Setup!Goes
  <2>8. CASE Setup!ask(p).network
    BY <2>1, <2>2, <2>8, <1>0, <1>a, AfterAnInstallStep DEF Installs, Setup!Whole,
        Setup!OfProcess, Setup!NoConfig, StepNames
  <2>9. CASE ~Setup!ask(p).network
    BY <2>1, <2>2, <2>9, <1>0, <1>a, AfterAnInstallStepAlone DEF Installs, Setup!Whole,
        Setup!OfProcess, Setup!NoConfig, StepNames
  <2> QED  BY <2>8, <2>9
<1>16. CASE Setup!Wipe(p) \/ Setup!PasswordStep(p) \/ Setup!WorkService(p) \/ Setup!Cleanup(p)
                \/ Setup!Preserve(p) \/ Setup!Swap(p) \/ Setup!Rollback(p) \/ Setup!Forget(p)
  BY <1>0, <1>16 DEF Setup!Wipe, Setup!PasswordStep, Setup!WorkService, Setup!Cleanup,
                     Setup!Preserve, Setup!Swap, Setup!Rollback, Setup!Forget, Setup!At, StepNames
<1> QED  BY <1>1, <1>2, <1>3, <1>4, <1>5, <1>6, <1>7, <1>8, <1>9, <1>10, <1>11, <1>12, <1>13,
    <1>14, <1>15, <1>16 DEF Works

\* A step of an install that fails, if it need not have, takes the only fault.
LEMMA FailureTakesAFault ==
    ASSUME SetupConstants, SetupState, NEW p \in Process, Works(p),
           Setup!ask(p).kind = "install", ~failed[p], Installs(p),
           failed[p]', setupPlan.faults <= 1
    PROVE  setupFaults' = 0 \/ ~Setup!WorkStarts \/ work.is = "running"
<1>0. /\ exe \in [Dir -> Setup!File] /\ dir[p] \in Dir /\ Setup!ask(p).network \in BOOLEAN
      /\ p \notin {None, "broken"}
      /\ setupPlan.faults \in Nat /\ setupFaults \in 0..setupPlan.faults
      /\ DOMAIN failed = Process
      /\ pc[p] \in StepNames(p) \cup {"ready", "done"}
  BY SetupAsked DEF SetupConstants, Setup!SetupAssumption, SetupState, MachineState, ProcessState
<1>1. Setup!AFault => setupFaults' = 0
  BY <1>0 DEF Setup!AFault
<1>2. failed' # failed
  OBVIOUS
<1>3. CASE Setup!StepFails(p)
  BY <1>1, <1>2, <1>3 DEF Setup!StepFails, Setup!Proceeds
<1>4. CASE Setup!StopWork(p)
  BY <1>1, <1>2, <1>4 DEF Setup!StopWork, Setup!Proceeds
<1>5. CASE Setup!StopNetwork(p)
  BY <1>1, <1>2, <1>5 DEF Setup!StopNetwork, Setup!Proceeds
<1>6. CASE Setup!Prepare(p)
  <2>1. Setup!Busy(dir[p]) => work.is = "running"
    BY <1>6, <1>0 DEF Setup!Prepare, Setup!Busy, Installs, Setup!At, AfterNetwork, AfterMetadata,
                      AfterHome
  <2> QED  BY <2>1, <1>1, <1>2, <1>6 DEF Setup!Prepare, Setup!Proceeds, Setup!WorkStarts
<1>7. CASE Setup!Copy(p)
  <2>1. Setup!Busy(dir[p]) => work.is = "running"
    BY <1>7, <1>0 DEF Setup!Copy, Setup!Busy, Installs, Setup!At, AfterNetwork, AfterMetadata,
                      AfterHome
  <2> QED  BY <2>1, <1>1, <1>2, <1>7 DEF Setup!Copy, Setup!Proceeds, Setup!WorkStarts
<1>8. CASE Setup!Tools(p)
  BY <1>1, <1>2, <1>8 DEF Setup!Tools, Setup!Proceeds
<1>9. CASE Setup!WriteConfig(p)
  BY <1>1, <1>2, <1>9 DEF Setup!WriteConfig, Setup!Proceeds
<1>10. CASE Setup!Alias(p)
  BY <1>1, <1>2, <1>10 DEF Setup!Alias, Setup!Proceeds
<1>11. CASE Setup!CreateNetwork(p)
  <2>1. pc[p] = "create" /\ Setup!ask(p).network
    BY <1>11, <1>0 DEF Setup!CreateNetwork, Setup!At, StepNames
  <2>2. networkService.is = "absent" /\ Setup!NetworkStarts(dir[p])
    BY <2>1, <1>0 DEF Installs, Setup!NetworkStarts, Setup!OfProcess, Setup!Whole, AfterNetwork,
                      AfterMetadata, AfterHome
  <2> QED  BY <2>2, <1>1, <1>2, <1>11 DEF Setup!CreateNetwork, Setup!Proceeds
<1>12. CASE Setup!Metadata(p)
  BY <1>1, <1>2, <1>12 DEF Setup!Metadata, Setup!Proceeds
<1>13. CASE Setup!Home(p)
  BY <1>1, <1>2, <1>13 DEF Setup!Home, Setup!Proceeds
<1>14. CASE Setup!Supersede(p)
  BY <1>1, <1>2, <1>14 DEF Setup!Supersede, Setup!Proceeds
<1>15. CASE Setup!StartWork(p)
  BY <1>1, <1>2, <1>15 DEF Setup!StartWork, Setup!Proceeds
<1>16. CASE Setup!RestoreNetwork(p)
  BY <1>1, <1>2, <1>16 DEF Setup!RestoreNetwork, Setup!Proceeds
<1>17. CASE Setup!RestoreWork(p)
  BY <1>1, <1>2, <1>17 DEF Setup!RestoreWork, Setup!Proceeds
<1>18. CASE Setup!Wipe(p) \/ Setup!PasswordStep(p) \/ Setup!WorkService(p) \/ Setup!Cleanup(p)
                \/ Setup!Preserve(p) \/ Setup!Swap(p) \/ Setup!Rollback(p) \/ Setup!Forget(p)
  BY <1>0, <1>18 DEF Setup!Wipe, Setup!PasswordStep, Setup!WorkService, Setup!Cleanup,
                     Setup!Preserve, Setup!Swap, Setup!Rollback, Setup!Forget, Setup!At, StepNames
<1> QED  BY <1>3, <1>4, <1>5, <1>6, <1>7, <1>8, <1>9, <1>10, <1>11, <1>12, <1>13, <1>14, <1>15,
    <1>16, <1>17, <1>18 DEF Works

\* An install that stopped the Work service still means to start it.
LEMMA StepKeepsRestarts ==
    ASSUME SetupConstants, SetupState, NEW p \in Process, Works(p), Setup!ask(p).kind = "install",
           RunningStarts, Restarts(p), ~failed[p] => Installs(p)
    PROVE  Restarts(p)'
<1>0. /\ exe \in [Dir -> Setup!File] /\ dir[p] \in Dir /\ setupPlan' = setupPlan
      /\ Setup!ask(p)' = Setup!ask(p) /\ work \in InstalledWork
      /\ pc[p] \in StepNames(p) \cup {"ready", "done"}
      /\ found \in [Process -> [dir : Dir, running : BOOLEAN, work : InstalledWork]]
      /\ setupPlan.faults \in Nat /\ setupFaults \in 0..setupPlan.faults /\ DOMAIN pc = Process
      /\ workRestart \in [Process -> BOOLEAN] /\ failed \in [Process -> BOOLEAN]
      /\ Setup!ask(p).network \in BOOLEAN
      /\ p \notin {None, "broken"}
  BY StepKeepsTypes, SetupAsked DEF SetupConstants, Setup!SetupAssumption, SetupState,
                                    MachineState, ProcessState, Setup!ask
<1>a. failed' = failed \/ (Setup!Fails(p) /\ failed' = [failed EXCEPT ![p] = TRUE])
  <2>1. Setup!ask(p).kind # "workUpdate" /\ ~Setup!Swap(p)
    BY <1>0 DEF Setup!Swap, Setup!At, StepNames
  <2> QED  BY <2>1 DEF Works, Setup!StopWork, Setup!StopNetwork, Setup!Prepare, Setup!Copy,
                       Setup!Tools, Setup!WriteConfig, Setup!Alias, Setup!CreateNetwork,
                       Setup!Metadata,
         Setup!Home, Setup!Supersede, Setup!Wipe, Setup!PasswordStep, Setup!WorkService,
         Setup!Cleanup, Setup!StartWork, Setup!Preserve, Setup!Swap, Setup!Rollback,
         Setup!Forget, Setup!RestoreNetwork, Setup!RestoreWork, Setup!StepFails, Setup!Proceeds,
         Setup!Fails, Setup!StartFailed
<1>b. Setup!Fails(p) => pc[p]' = "restoreNetwork"
  BY <1>0 DEF Setup!Fails, Setup!Goes, Setup!Unwinds
<1>c. ~failed[p] /\ failed[p]' /\ setupPlan.faults <= 1 =>
          setupFaults' = 0 \/ ~Setup!WorkStarts \/ work.is = "running"
  BY FailureTakesAFault
<1>d. Setup!WorkStarts <=> work.is # "absent" /\ Setup!Whole(exe[work.dir]) /\ HasPassword
  BY DEF Setup!WorkStarts, Setup!WorkStartsWith, HasPassword
<1>e. ~failed[p] => \A onward : ~(Setup!Proceeds(p, onward) /\ Setup!Fails(p))
  BY <1>0 DEF Setup!Proceeds, Setup!Fails
<1>f. Setup!AFault => setupFaults' = 0 \/ setupPlan.faults > 1
  BY <1>0 DEF Setup!AFault
<1>1. CASE Setup!StepFails(p)
  <2>1. UNCHANGED <<found, work, password, exe, workRestart>>
    BY <1>1 DEF Setup!StepFails, Setup!machine, Setup!Steady
  <2>2. Setup!Fails(p) /\ failed[p]' /\ ~failed[p] /\ pc[p] # "stopWork"
    BY <1>0, <1>1 DEF Setup!StepFails, Setup!Fails, Setup!At, Setup!CleanSteps, Restarts
  <2> QED  BY <2>1, <2>2, <1>0, <1>b, <1>c, <1>d DEF Restarts, HasPassword, Setup!Whole
<1>2. CASE Setup!StopWork(p)
  <2>1. UNCHANGED <<password, exe>>
    BY <1>2 DEF Setup!StopWork, Setup!machine, Setup!Steady
  <2>2. pc[p] = "stopWork" /\ ~failed[p]
        /\ (Setup!Fails(p) \/ (pc[p]' = Setup!After(p, "stopWork") /\ failed' = failed))
    BY <1>0, <1>2 DEF Setup!StopWork, Setup!At, Setup!Goes, Setup!Proceeds, Restarts
  <2>3. pc[p]' # "stopWork" /\ pc[p]' # "done"
        /\ (pc[p]' \in {"restoreNetwork", "restoreWork"} => Setup!Fails(p) \/ pc[p] = "startWork")
    BY <2>2, <1>0, <1>b, AfterAnInstallStep, AfterAnInstallStepAlone DEF StepNames
  <2>4. failed[p]' => pc[p]' = "restoreNetwork"
    BY <2>2, <1>a, <1>b
  <2>5. work' = IF work.is = "running" THEN [work EXCEPT !.is = "stopped"] ELSE work
    BY <1>2 DEF Setup!StopWork
  <2>6. \/ /\ found[p]'.running = (work.is = "running") /\ workRestart[p]' = (work.is = "running")
           /\ ~Setup!Fails(p)
        \/ found' = found /\ workRestart' = workRestart
    <3>1. \/ Setup!Proceeds(p, "stopWork")
             /\ found' = [found EXCEPT ![p].running = (work.is = "running")]
             /\ workRestart' = [workRestart EXCEPT ![p] = Setup!RestartIsPending(p)]
          \/ found' = found /\ workRestart' = workRestart
      BY <1>2 DEF Setup!StopWork
    <3>2. Setup!RestartIsPending(p) = (work.is = "running")
      BY DEF Setup!RestartIsPending
    <3>3. p \in DOMAIN workRestart /\ p \in DOMAIN found
          /\ found[p] \in [dir : Dir, running : BOOLEAN, work : InstalledWork]
      BY <1>0
    <3>4. found' = [found EXCEPT ![p].running = (work.is = "running")] =>
              found[p]'.running = (work.is = "running")
      BY <3>3
    <3>5. workRestart' = [workRestart EXCEPT ![p] = Setup!RestartIsPending(p)] =>
              workRestart[p]' = (work.is = "running")
      BY <3>2, <3>3, Zenon
    <3> QED  BY <3>1, <3>4, <3>5, <2>2, <1>e
  <2>7. HasPassword' <=> HasPassword
    BY <2>1, <2>5, <1>0 DEF HasPassword, InstalledWork
  <2>8. ~found[p].running
    BY <2>2 DEF Restarts
  <2>9. CASE found' = found /\ workRestart' = workRestart
    BY <2>2, <2>3, <2>4, <2>8, <2>9 DEF Restarts
  <2>10. CASE /\ found[p]'.running = (work.is = "running")
              /\ workRestart[p]' = (work.is = "running") /\ ~Setup!Fails(p)
    <3>1. found[p]'.running => workRestart[p]' /\ work.is = "running" /\ work'.is = "stopped"
              /\ HasPassword'
      BY <2>5, <2>7, <2>10, <1>0 DEF RunningStarts, InstalledWork
    <3>2. ~failed[p]'
      BY <2>2, <2>10, <1>a
    <3> QED  BY <3>1, <3>2, <2>2, <2>3, <2>10 DEF Restarts
  <2> QED  BY <2>6, <2>9, <2>10
<1>3. CASE Setup!StopNetwork(p)
  <2>1. UNCHANGED <<found, work, password, exe, workRestart>>
    BY <1>3 DEF Setup!StopNetwork, Setup!machine, Setup!Steady
  <2>2. pc[p] = "stopNetwork" /\ ~failed[p]
        /\ (Setup!Fails(p) \/ (pc[p]' = Setup!After(p, "stopNetwork") /\ failed' = failed))
    BY <1>0, <1>3 DEF Setup!StopNetwork, Setup!At, Setup!Goes, Setup!Proceeds, Restarts
  <2>3. pc[p]' # "stopWork" /\ pc[p]' # "done"
        /\ (pc[p]' \in {"restoreNetwork", "restoreWork"} => Setup!Fails(p) \/ pc[p] = "startWork")
    BY <2>2, <1>0, <1>b, AfterAnInstallStep, AfterAnInstallStepAlone DEF StepNames
  <2>4. failed[p]' => pc[p]' = "restoreNetwork"
    BY <2>2, <1>a, <1>b
  <2>5. HasPassword' <=> HasPassword
    BY <2>1 DEF HasPassword
  <2>7. failed[p]' <=> Setup!Fails(p)
    BY <2>2, <1>a, <1>0 DEF Setup!Fails
  <2> QED  BY <2>1, <2>2, <2>3, <2>4, <1>0, <1>a, <1>b, <1>c, <1>d, <2>5, <2>7 DEF Restarts,
      Setup!Whole
<1>4. CASE Setup!Prepare(p)
  <2>1. UNCHANGED <<found, work, password, exe, workRestart>>
    BY <1>4 DEF Setup!Prepare, Setup!machine, Setup!Steady
  <2>2. pc[p] = "prepare" /\ ~failed[p]
        /\ (Setup!Fails(p) \/ (pc[p]' = Setup!After(p, "prepare") /\ failed' = failed))
    BY <1>0, <1>4 DEF Setup!Prepare, Setup!At, Setup!Goes, Setup!Proceeds, Restarts
  <2>3. pc[p]' # "stopWork" /\ pc[p]' # "done"
        /\ (pc[p]' \in {"restoreNetwork", "restoreWork"} => Setup!Fails(p) \/ pc[p] = "startWork")
    BY <2>2, <1>0, <1>b, AfterAnInstallStep, AfterAnInstallStepAlone DEF StepNames
  <2>4. failed[p]' => pc[p]' = "restoreNetwork"
    BY <2>2, <1>a, <1>b
  <2>5. HasPassword' <=> HasPassword
    BY <2>1 DEF HasPassword
  <2>7. failed[p]' <=> Setup!Fails(p)
    BY <2>2, <1>a, <1>0 DEF Setup!Fails
  <2> QED  BY <2>1, <2>2, <2>3, <2>4, <1>0, <1>a, <1>b, <1>c, <1>d, <2>5, <2>7 DEF Restarts,
      Setup!Whole
<1>5. CASE Setup!Copy(p)
  <2>1. UNCHANGED <<found, work, password, workRestart>>
    BY <1>5 DEF Setup!Copy, Setup!machine, Setup!Steady
  <2>2. pc[p] = "copy" /\ ~failed[p]
        /\ (Setup!Fails(p) \/ (pc[p]' = Setup!After(p, "copy") /\ failed' = failed))
    BY <1>0, <1>5 DEF Setup!Copy, Setup!At, Setup!Goes, Setup!Proceeds, Restarts
  <2>3. pc[p]' # "stopWork" /\ pc[p]' # "done"
        /\ (pc[p]' \in {"restoreNetwork", "restoreWork"} => Setup!Fails(p) \/ pc[p] = "startWork")
    BY <2>2, <1>0, <1>b, AfterAnInstallStep, AfterAnInstallStepAlone DEF StepNames
  <2>4. failed[p]' => pc[p]' = "restoreNetwork"
    BY <2>2, <1>a, <1>b
  <2>5. Setup!Fails(p) => setupFaults' = 0 \/ exe' = exe \/ setupPlan.faults > 1
    BY <1>5, <1>e, <1>f, <2>2 DEF Setup!Copy
  <2>6. HasPassword' <=> HasPassword
    BY <2>1 DEF HasPassword
  <2>7. failed[p]' <=> Setup!Fails(p)
    BY <2>2, <1>a, <1>0 DEF Setup!Fails
  <2> QED  BY <2>1, <2>2, <2>3, <2>4, <1>0, <1>a, <1>b, <1>c, <1>d, <2>5, <2>6, <2>7 DEF Restarts
<1>6. CASE Setup!Tools(p)
  <2>1. UNCHANGED <<found, work, password, exe, workRestart>>
    BY <1>6 DEF Setup!Tools, Setup!machine, Setup!Steady
  <2>2. pc[p] = "tools" /\ ~failed[p]
        /\ (Setup!Fails(p) \/ (pc[p]' = Setup!After(p, "tools") /\ failed' = failed))
    BY <1>0, <1>6 DEF Setup!Tools, Setup!At, Setup!Goes, Setup!Proceeds, Restarts
  <2>3. pc[p]' # "stopWork" /\ pc[p]' # "done"
        /\ (pc[p]' \in {"restoreNetwork", "restoreWork"} => Setup!Fails(p) \/ pc[p] = "startWork")
    BY <2>2, <1>0, <1>b, AfterAnInstallStep, AfterAnInstallStepAlone DEF StepNames
  <2>4. failed[p]' => pc[p]' = "restoreNetwork"
    BY <2>2, <1>a, <1>b
  <2>5. HasPassword' <=> HasPassword
    BY <2>1 DEF HasPassword
  <2>7. failed[p]' <=> Setup!Fails(p)
    BY <2>2, <1>a, <1>0 DEF Setup!Fails
  <2> QED  BY <2>1, <2>2, <2>3, <2>4, <1>0, <1>a, <1>b, <1>c, <1>d, <2>5, <2>7 DEF Restarts,
      Setup!Whole
<1>7. CASE Setup!WriteConfig(p)
  <2>1. UNCHANGED <<found, work, password, exe, workRestart>>
    BY <1>7 DEF Setup!WriteConfig, Setup!machine, Setup!Steady
  <2>2. pc[p] = "config" /\ ~failed[p]
        /\ (Setup!Fails(p) \/ (pc[p]' = Setup!After(p, "config") /\ failed' = failed))
    BY <1>0, <1>7 DEF Setup!WriteConfig, Setup!At, Setup!Goes, Setup!Proceeds, Restarts
  <2>3. pc[p]' # "stopWork" /\ pc[p]' # "done"
        /\ (pc[p]' \in {"restoreNetwork", "restoreWork"} => Setup!Fails(p) \/ pc[p] = "startWork")
    BY <2>2, <1>0, <1>b, AfterAnInstallStep, AfterAnInstallStepAlone DEF StepNames
  <2>4. failed[p]' => pc[p]' = "restoreNetwork"
    BY <2>2, <1>a, <1>b
  <2>5. HasPassword' <=> HasPassword
    BY <2>1 DEF HasPassword
  <2>7. failed[p]' <=> Setup!Fails(p)
    BY <2>2, <1>a, <1>0 DEF Setup!Fails
  <2> QED  BY <2>1, <2>2, <2>3, <2>4, <1>0, <1>a, <1>b, <1>c, <1>d, <2>5, <2>7 DEF Restarts,
      Setup!Whole
<1>8. CASE Setup!Alias(p)
  <2>1. UNCHANGED <<found, work, password, exe, workRestart>>
    BY <1>8 DEF Setup!Alias, Setup!machine, Setup!Steady
  <2>2. pc[p] = "alias" /\ ~failed[p]
        /\ (Setup!Fails(p) \/ (pc[p]' = Setup!After(p, "alias") /\ failed' = failed))
    BY <1>0, <1>8 DEF Setup!Alias, Setup!At, Setup!Goes, Setup!Proceeds, Restarts
  <2>3. pc[p]' # "stopWork" /\ pc[p]' # "done"
        /\ (pc[p]' \in {"restoreNetwork", "restoreWork"} => Setup!Fails(p) \/ pc[p] = "startWork")
    BY <2>2, <1>0, <1>b, AfterAnInstallStep, AfterAnInstallStepAlone DEF StepNames
  <2>4. failed[p]' => pc[p]' = "restoreNetwork"
    BY <2>2, <1>a, <1>b
  <2>5. HasPassword' <=> HasPassword
    BY <2>1 DEF HasPassword
  <2>7. failed[p]' <=> Setup!Fails(p)
    BY <2>2, <1>a, <1>0 DEF Setup!Fails
  <2> QED  BY <2>1, <2>2, <2>3, <2>4, <1>0, <1>a, <1>b, <1>c, <1>d, <2>5, <2>7 DEF Restarts,
      Setup!Whole
<1>9. CASE Setup!CreateNetwork(p)
  <2>1. UNCHANGED <<found, work, password, exe, workRestart>>
    BY <1>9 DEF Setup!CreateNetwork, Setup!machine, Setup!Steady
  <2>2. pc[p] = "create" /\ ~failed[p]
        /\ (Setup!Fails(p) \/ (pc[p]' = Setup!After(p, "create") /\ failed' = failed))
    BY <1>0, <1>9 DEF Setup!CreateNetwork, Setup!At, Setup!Goes, Setup!Proceeds, Restarts
  <2>3. pc[p]' # "stopWork" /\ pc[p]' # "done"
        /\ (pc[p]' \in {"restoreNetwork", "restoreWork"} => Setup!Fails(p) \/ pc[p] = "startWork")
    BY <2>2, <1>0, <1>b, AfterAnInstallStep, AfterAnInstallStepAlone DEF StepNames
  <2>4. failed[p]' => pc[p]' = "restoreNetwork"
    BY <2>2, <1>a, <1>b
  <2>5. HasPassword' <=> HasPassword
    BY <2>1 DEF HasPassword
  <2>7. failed[p]' <=> Setup!Fails(p)
    BY <2>2, <1>a, <1>0 DEF Setup!Fails
  <2> QED  BY <2>1, <2>2, <2>3, <2>4, <1>0, <1>a, <1>b, <1>c, <1>d, <2>5, <2>7 DEF Restarts,
      Setup!Whole
<1>10. CASE Setup!Metadata(p)
  <2>1. UNCHANGED <<found, work, password, exe, workRestart>>
    BY <1>10 DEF Setup!Metadata, Setup!machine, Setup!Steady
  <2>2. pc[p] = "metadata" /\ ~failed[p]
        /\ (Setup!Fails(p) \/ (pc[p]' = Setup!After(p, "metadata") /\ failed' = failed))
    BY <1>0, <1>10 DEF Setup!Metadata, Setup!At, Setup!Goes, Setup!Proceeds, Restarts
  <2>3. pc[p]' # "stopWork" /\ pc[p]' # "done"
        /\ (pc[p]' \in {"restoreNetwork", "restoreWork"} => Setup!Fails(p) \/ pc[p] = "startWork")
    BY <2>2, <1>0, <1>b, AfterAnInstallStep, AfterAnInstallStepAlone DEF StepNames
  <2>4. failed[p]' => pc[p]' = "restoreNetwork"
    BY <2>2, <1>a, <1>b
  <2>5. HasPassword' <=> HasPassword
    BY <2>1 DEF HasPassword
  <2>7. failed[p]' <=> Setup!Fails(p)
    BY <2>2, <1>a, <1>0 DEF Setup!Fails
  <2> QED  BY <2>1, <2>2, <2>3, <2>4, <1>0, <1>a, <1>b, <1>c, <1>d, <2>5, <2>7 DEF Restarts,
      Setup!Whole
<1>11. CASE Setup!Home(p)
  <2>1. UNCHANGED <<found, work, password, exe, workRestart>>
    BY <1>11 DEF Setup!Home, Setup!machine, Setup!Steady
  <2>2. pc[p] = "home" /\ ~failed[p]
        /\ (Setup!Fails(p) \/ (pc[p]' = Setup!After(p, "home") /\ failed' = failed))
    BY <1>0, <1>11 DEF Setup!Home, Setup!At, Setup!Goes, Setup!Proceeds, Restarts
  <2>3. pc[p]' # "stopWork" /\ pc[p]' # "done"
        /\ (pc[p]' \in {"restoreNetwork", "restoreWork"} => Setup!Fails(p) \/ pc[p] = "startWork")
    BY <2>2, <1>0, <1>b, AfterAnInstallStep, AfterAnInstallStepAlone DEF StepNames
  <2>4. failed[p]' => pc[p]' = "restoreNetwork"
    BY <2>2, <1>a, <1>b
  <2>5. HasPassword' <=> HasPassword
    BY <2>1 DEF HasPassword
  <2>7. failed[p]' <=> Setup!Fails(p)
    BY <2>2, <1>a, <1>0 DEF Setup!Fails
  <2> QED  BY <2>1, <2>2, <2>3, <2>4, <1>0, <1>a, <1>b, <1>c, <1>d, <2>5, <2>7 DEF Restarts,
      Setup!Whole
<1>12. CASE Setup!Supersede(p)
  <2>1. UNCHANGED <<found, work, password, workRestart>>
    BY <1>12 DEF Setup!Supersede, Setup!machine, Setup!Steady
  <2>2. pc[p] = "supersede" /\ ~failed[p]
        /\ (Setup!Fails(p) \/ (pc[p]' = Setup!After(p, "supersede") /\ failed' = failed))
    BY <1>0, <1>12 DEF Setup!Supersede, Setup!At, Setup!Goes, Setup!Proceeds, Restarts
  <2>3. pc[p]' # "stopWork" /\ pc[p]' # "done"
        /\ (pc[p]' \in {"restoreNetwork", "restoreWork"} => Setup!Fails(p) \/ pc[p] = "startWork")
    BY <2>2, <1>0, <1>b, AfterAnInstallStep, AfterAnInstallStepAlone DEF StepNames
  <2>4. failed[p]' => pc[p]' = "restoreNetwork"
    BY <2>2, <1>a, <1>b
  <2>5. ~Setup!Fails(p)
    BY <1>12, <1>b, <1>0, <2>2, AfterAnInstallStep, AfterAnInstallStepAlone DEF Setup!Supersede,
        Setup!Proceeds, Setup!Goes
  <2>6. HasPassword' <=> HasPassword
    BY <2>1 DEF HasPassword
  <2>7. failed[p]' <=> Setup!Fails(p)
    BY <2>2, <1>a, <1>0 DEF Setup!Fails
  <2> QED  BY <2>1, <2>2, <2>3, <2>4, <1>0, <1>a, <1>b, <1>c, <1>d, <2>5, <2>6, <2>7 DEF Restarts
<1>13. CASE Setup!StartWork(p)
  <2>1. UNCHANGED <<found, password, exe>>
    BY <1>13 DEF Setup!StartWork, Setup!machine, Setup!Steady
  <2>2. pc[p] = "startWork" /\ ~failed[p]
        /\ (Setup!Fails(p) \/ (pc[p]' = Setup!After(p, "startWork") /\ failed' = failed))
    BY <1>0, <1>13 DEF Setup!StartWork, Setup!At, Setup!Goes, Setup!Proceeds, Restarts,
                       Setup!StartFailed
  <2>3. pc[p]' # "stopWork" /\ pc[p]' # "done"
        /\ (pc[p]' \in {"restoreNetwork", "restoreWork"} => Setup!Fails(p) \/ pc[p] = "startWork")
    BY <2>2, <1>0, <1>b, AfterAnInstallStep, AfterAnInstallStepAlone DEF StepNames
  <2>4. failed[p]' => pc[p]' = "restoreNetwork"
    BY <2>2, <1>a, <1>b
  <2>5. \/ ~Setup!Fails(p) /\ ~workRestart[p] /\ UNCHANGED <<work, workRestart>>
        \/ ~Setup!Fails(p) /\ work' = [work EXCEPT !.is = "running"]
        \/ Setup!Fails(p) /\ UNCHANGED <<work, workRestart>>
    BY <1>13, <1>e, <2>2 DEF Setup!StartWork, Setup!StartFailed
  <2>6. HasPassword' <=> HasPassword
    BY <2>1, <2>5, <1>0 DEF HasPassword, InstalledWork
  <2>7. CASE ~Setup!Fails(p) /\ ~workRestart[p] /\ UNCHANGED <<work, workRestart>>
    BY <2>1, <2>2, <2>3, <2>4, <2>6, <2>7, <1>a, <1>0 DEF Restarts
  <2>8. CASE ~Setup!Fails(p) /\ work' = [work EXCEPT !.is = "running"]
    BY <2>1, <2>2, <2>3, <2>4, <2>6, <2>8, <1>a, <1>0 DEF Restarts, InstalledWork
  <2>9. CASE Setup!Fails(p) /\ UNCHANGED <<work, workRestart>>
    <3>1. failed[p]'
      BY <2>9, <1>0 DEF Setup!Fails
    <3> QED  BY <3>1, <2>1, <2>2, <2>3, <2>4, <2>6, <2>9, <1>c, <1>d, <1>0 DEF Restarts
  <2> QED  BY <2>5, <2>7, <2>8, <2>9
<1>14. CASE Setup!RestoreNetwork(p)
  <2>1. UNCHANGED <<found, work, password, exe, workRestart>>
    BY <1>14 DEF Setup!RestoreNetwork, Setup!machine, Setup!Steady
  <2>2. pc[p] = "restoreNetwork" /\ pc[p]' = "restoreWork" /\ failed' = failed
        /\ (setupFaults' = setupFaults \/ Setup!AFault)
    BY <1>0, <1>14 DEF Setup!RestoreNetwork, Setup!At, Setup!Goes
  <2>3. setupFaults' = setupFaults
    BY <1>14 DEF Setup!RestoreNetwork
  <2> QED  BY <2>1, <2>2, <2>3, <1>0 DEF Restarts, HasPassword, Setup!Whole
<1>15. CASE Setup!RestoreWork(p)
  <2>1. UNCHANGED <<found, password, exe, workRestart>>
    BY <1>15 DEF Setup!RestoreWork, Setup!machine, Setup!Steady
  <2>2. pc[p] = "restoreWork" /\ pc[p]' = "done" /\ failed' = failed
        /\ (setupFaults' = setupFaults \/ Setup!AFault)
    BY <1>0, <1>15 DEF Setup!RestoreWork, Setup!At, Setup!Goes
  <2>3. work' = work \/ work' = [work EXCEPT !.is = "running"]
    BY <1>15 DEF Setup!RestoreWork
  <2>4. setupFaults' = setupFaults => (workRestart[p] /\ Setup!WorkStarts => work'.is = "running")
    BY <1>0, <1>15 DEF Setup!RestoreWork, Setup!AFault, Setup!RestartsWork, InstalledWork
  <2>5. HasPassword' <=> HasPassword
    BY <2>1, <2>3, <1>0 DEF HasPassword, InstalledWork
  <2>6. setupFaults' # setupFaults => setupFaults > 0
    BY <2>2 DEF Setup!AFault
  <2> QED  BY <2>1, <2>2, <2>3, <2>4, <2>5, <2>6, <1>0, <1>d DEF Restarts, Setup!Whole,
      InstalledWork
<1>16. CASE Setup!Wipe(p) \/ Setup!PasswordStep(p) \/ Setup!WorkService(p) \/ Setup!Cleanup(p)
                \/ Setup!Preserve(p) \/ Setup!Swap(p) \/ Setup!Rollback(p) \/ Setup!Forget(p)
  BY <1>0, <1>16 DEF Setup!Wipe, Setup!PasswordStep, Setup!WorkService, Setup!Cleanup,
                     Setup!Preserve, Setup!Swap, Setup!Rollback, Setup!Forget, Setup!At, StepNames
<1> QED  BY <1>1, <1>2, <1>3, <1>4, <1>5, <1>6, <1>7, <1>8, <1>9, <1>10, <1>11, <1>12, <1>13,
    <1>14, <1>15, <1>16 DEF Works

\* An update that stopped it has a program to go back to.
LEMMA StepKeepsUpdates ==
    ASSUME SetupConstants, SetupState, NEW p \in Process, Works(p),
           Setup!ask(p).kind = "workUpdate", RunningStarts, Updates(p)
    PROVE  Updates(p)'
<1>0. /\ exe \in [Dir -> Setup!File] /\ previousExe \in [Dir -> Setup!File] /\ dir[p] \in Dir
      /\ setupPlan' = setupPlan /\ Setup!ask(p)' = Setup!ask(p)
      /\ work \in InstalledWork /\ p \notin {None, "broken"}
      /\ pc[p] \in StepNames(p) \cup {"ready", "done"}
      /\ found \in [Process -> [dir : Dir, running : BOOLEAN, work : InstalledWork]]
      /\ DOMAIN pc = Process
  BY StepKeepsTypes DEF SetupConstants, Setup!SetupAssumption, SetupState, MachineState,
                        ProcessState, Setup!ask
<1>1. \A onward : Setup!Goes(p, onward) =>
          pc[p]' = onward /\ (Setup!Running(p)' <=> onward \notin {"ready", "done"})
  BY <1>0 DEF Setup!Goes, Setup!Running
<1>2. Setup!Fails(p) => pc[p]' = "done"
  BY <1>1 DEF Setup!Fails, Setup!Unwinds
<1>3. \A onward : Setup!Proceeds(p, onward) => pc[p]' = Setup!After(p, onward)
  BY <1>1 DEF Setup!Proceeds
<1>4. Setup!WorkStarts <=> work.is # "absent" /\ Setup!Whole(exe[work.dir]) /\ HasPassword
  BY DEF Setup!WorkStarts, Setup!WorkStartsWith, HasPassword
<1>5. /\ dir' = dir /\ work'.dir = work.dir /\ work'.password = work.password
      /\ (work'.is = "absent" <=> work.is = "absent")
      /\ password' = password /\ (pc[p] # "stopWork" => found' = found)
  <2>1. Setup!StopWork(p) \/ Setup!Preserve(p) \/ Setup!Swap(p) \/ Setup!StartWork(p)
            \/ Setup!Rollback(p) \/ Setup!Forget(p)
    BY <1>0 DEF Setup!At, StepNames, Setup!CleanSteps, Works, Setup!StopWork, Setup!StopNetwork,
                Setup!Prepare, Setup!Copy, Setup!Tools, Setup!WriteConfig, Setup!Alias,
                Setup!CreateNetwork, Setup!Metadata,
         Setup!Home, Setup!Supersede, Setup!Wipe, Setup!PasswordStep, Setup!WorkService,
         Setup!Cleanup, Setup!StartWork, Setup!Preserve, Setup!Swap, Setup!Rollback,
         Setup!Forget, Setup!RestoreNetwork, Setup!RestoreWork, Setup!StepFails
  <2>2. dir' = dir /\ password' = password /\ (pc[p] # "stopWork" => found' = found)
    BY <2>1 DEF Setup!StopWork, Setup!Preserve, Setup!Swap, Setup!StartWork, Setup!Rollback,
                Setup!Forget, Setup!Steady, Setup!At
  <2>3. \/ work' = work
        \/ work.is # "absent" /\ work' = [work EXCEPT !.is = "stopped"]
        \/ work.is # "absent" /\ work' = [work EXCEPT !.is = "running"]
    BY <2>1 DEF Setup!StopWork, Setup!Preserve, Setup!Swap, Setup!StartWork, Setup!Rollback,
                Setup!Forget, Setup!WorkStarts, Setup!WorkStartsWith
  <2> QED  BY <2>2, <2>3, <1>0 DEF InstalledWork
<1>6. Setup!Running(p) /\ HasPassword' = HasPassword /\ dir[p] = work.dir
  <2>1. Setup!Running(p)
    BY StepFollows, <1>0 DEF Following, Setup!Running, SetupConstants
  <2> QED  BY <2>1, <1>5 DEF HasPassword, Updates
<1>7. CASE Setup!StopWork(p)
  <2>1. pc[p] = "stopWork" /\ ~found[p].running /\ exe' = exe
    BY <1>7 DEF Setup!StopWork, Setup!At, Updates
  <2>2. work'.is # "running" /\ (work.is = "running" => work'.is = "stopped")
    BY <1>0, <1>7 DEF Setup!StopWork, InstalledWork
  <2>3. CASE Setup!Proceeds(p, "stopWork")
             /\ found' = [found EXCEPT ![p].running = (work.is = "running")]
    <3>1. pc[p]' = "preserve" /\ found[p]'.running = (work.is = "running")
      BY <2>3, <1>0, <1>3, AfterAnUpdateStep
    <3> QED  BY <3>1, <2>1, <2>2, <1>5, <1>6 DEF Updates, RunningStarts
  <2>4. CASE Setup!Fails(p) /\ found' = found
    BY <2>1, <2>4, <1>2, <1>5, <1>6 DEF Updates, Setup!Running
  <2> QED  BY <2>3, <2>4, <1>7 DEF Setup!StopWork
<1>8. CASE Setup!Preserve(p)
  <2>1. pc[p] = "preserve" /\ found' = found
    BY <1>8, <1>5 DEF Setup!Preserve, Setup!At
  <2>2. CASE /\ previousExe' = [previousExe EXCEPT ![dir[p]] = exe[dir[p]]]
             /\ Setup!Proceeds(p, "preserve") /\ work' = work
    <3>1. pc[p]' = "swap" /\ previousExe[dir[p]]' = exe[dir[p]]
      BY <2>2, <1>0, <1>3, <1>5, AfterAnUpdateStep
    <3> QED  BY <3>1, <2>1, <2>2, <1>5, <1>6 DEF Updates
  <2>3. CASE Setup!Fails(p) /\ work' = IF Setup!WorkStarts THEN [work EXCEPT !.is = "running"]
                 ELSE work
    <3>1. pc[p]' = "done" /\ (Setup!WorkStarts => work'.is = "running")
      BY <2>3, <1>0, <1>2 DEF InstalledWork
    <3> QED  BY <3>1, <2>1, <1>4, <1>5, <1>6 DEF Updates, Setup!Running
  <2> QED  BY <2>2, <2>3, <1>8 DEF Setup!Preserve
<1>9. CASE Setup!Swap(p)
  <2>1. pc[p] = "swap" /\ found' = found /\ previousExe' = previousExe /\ work' = work
    BY <1>9, <1>5 DEF Setup!Swap, Setup!At
  <2>2. CASE Setup!Proceeds(p, "swap") /\ exe' = [exe EXCEPT ![dir[p]] = p]
    <3>1. pc[p]' = "startWork" /\ exe[dir[p]]' = p
      BY <2>2, <1>0, <1>3, <1>5, AfterAnUpdateStep
    <3> QED  BY <3>1, <2>1, <1>5, <1>6 DEF Updates
  <2>3. CASE Setup!Goes(p, "rollback")
    BY <2>1, <2>3, <1>1, <1>5, <1>6 DEF Updates
  <2> QED  BY <2>2, <2>3, <1>9 DEF Setup!Swap
<1>10. CASE Setup!StartWork(p)
  <2>1. pc[p] = "startWork" /\ found' = found /\ previousExe' = previousExe /\ exe' = exe
    BY <1>10, <1>5 DEF Setup!StartWork, Setup!At
  <2>2. CASE Setup!Proceeds(p, "startWork") /\ work' = [work EXCEPT !.is = "running"]
    <3>1. pc[p]' = "forget" /\ work'.is = "running"
      BY <2>2, <1>0, <1>3, AfterAnUpdateStep DEF InstalledWork
    <3> QED  BY <3>1, <2>1, <1>5, <1>6 DEF Updates
  <2>3. CASE Setup!Goes(p, "rollback") /\ work' = work
    BY <2>1, <2>3, <1>1, <1>5, <1>6 DEF Updates
  <2> QED  BY <2>2, <2>3, <1>10 DEF Setup!StartWork, Setup!StartFailed
<1>11. CASE Setup!Rollback(p)
  <2>1. pc[p] = "rollback" /\ pc[p]' = "done" /\ found' = found
        /\ exe[dir[p]]' = previousExe[dir[p]]
    BY <1>0, <1>1, <1>5, <1>11 DEF Setup!Rollback, Setup!At
  <2>2. Setup!WorkStartsWith(exe'[work.dir]) => work'.is = "running"
    BY <1>0, <1>11 DEF Setup!Rollback, InstalledWork
  <2>3. found[p].running => work.is # "absent" /\ HasPassword /\ Setup!Whole(exe'[work.dir])
    BY <2>1, <1>5, <1>6 DEF Updates
  <2> QED  BY <2>1, <2>2, <2>3, <1>5, <1>6 DEF Updates, Setup!Running, Setup!WorkStartsWith,
                                               HasPassword
<1>12. CASE Setup!Forget(p)
  <2>1. pc[p] = "forget" /\ pc[p]' = "done" /\ found' = found /\ work' = work
    BY <1>0, <1>2, <1>3, <1>5, <1>12, AfterAnUpdateStep DEF Setup!Forget, Setup!At
  <2> QED  BY <2>1, <1>5, <1>6 DEF Updates, Setup!Running
<1>13. CASE Setup!StopNetwork(p) \/ Setup!Prepare(p) \/ Setup!Copy(p) \/ Setup!Tools(p)
                \/ Setup!WriteConfig(p) \/ Setup!Alias(p) \/ Setup!CreateNetwork(p)
                \/ Setup!Metadata(p) \/ Setup!Home(p) \/ Setup!Supersede(p) \/ Setup!Wipe(p)
                \/ Setup!PasswordStep(p) \/ Setup!WorkService(p) \/ Setup!Cleanup(p)
                \/ Setup!RestoreNetwork(p) \/ Setup!RestoreWork(p) \/ Setup!StepFails(p)
  BY <1>0, <1>13 DEF Setup!StopNetwork, Setup!Prepare, Setup!Copy, Setup!Tools, Setup!WriteConfig,
                     Setup!Alias, Setup!CreateNetwork, Setup!Metadata, Setup!Home,
                     Setup!Supersede, Setup!Wipe, Setup!PasswordStep, Setup!WorkService,
                     Setup!Cleanup, Setup!RestoreNetwork, Setup!RestoreWork, Setup!StepFails,
                     Setup!At, StepNames, Setup!CleanSteps
<1> QED  BY <1>7, <1>8, <1>9, <1>10, <1>11, <1>12, <1>13 DEF Works

\* An install of the Work service has it stopped until it starts it.
LEMMA StepKeepsWorkInstall ==
    ASSUME SetupConstants, SetupState, NEW p \in Process, Works(p),
           Setup!ask(p).kind = "workInstall",
           pc[p] \in {"copy", "password", "service"} =>
               work.is # "running", pc[p]' \in {"copy", "password", "service"}
    PROVE  work'.is # "running"
<1>0. work \in InstalledWork /\ DOMAIN pc = Process
      /\ pc[p] \in StepNames(p) \cup {"ready", "done"}
  BY DEF SetupState, MachineState, ProcessState
<1>1. Setup!Fails(p) => pc[p]' = "done"
  BY <1>0 DEF Setup!Fails, Setup!Unwinds, Setup!Goes
<1>2. \A onward : Setup!Proceeds(p, onward) => pc[p]' = Setup!After(p, onward)
  BY <1>0 DEF Setup!Proceeds, Setup!Goes
<1>3. CASE Setup!StepFails(p)
  BY <1>1, <1>3 DEF Setup!StepFails
<1>4. CASE Setup!StopWork(p)
  BY <1>0, <1>4 DEF Setup!StopWork, InstalledWork
<1>5. CASE Setup!Copy(p) \/ Setup!PasswordStep(p)
  BY <1>0, <1>5 DEF Setup!Copy, Setup!PasswordStep, Setup!At
<1>6. CASE Setup!WorkService(p) \/ Setup!StartWork(p) \/ Setup!Cleanup(p)
  <2>1. \/ Setup!Proceeds(p, "service") \/ Setup!Proceeds(p, "startWork")
        \/ Setup!Proceeds(p, "cleanup") \/ Setup!Fails(p)
    BY <1>6 DEF Setup!WorkService, Setup!StartWork, Setup!Cleanup, Setup!StartFailed
  <2> QED  BY <2>1, <1>1, <1>2, AfterAWorkInstallStep
<1>7. CASE Setup!StopNetwork(p) \/ Setup!Prepare(p) \/ Setup!Tools(p) \/ Setup!WriteConfig(p)
               \/ Setup!Alias(p) \/ Setup!CreateNetwork(p) \/ Setup!Metadata(p) \/ Setup!Home(p)
               \/ Setup!Supersede(p) \/ Setup!Wipe(p) \/ Setup!Preserve(p) \/ Setup!Swap(p)
               \/ Setup!Rollback(p) \/ Setup!Forget(p) \/ Setup!RestoreNetwork(p)
               \/ Setup!RestoreWork(p)
  BY <1>0, <1>7 DEF Setup!StopNetwork, Setup!Prepare, Setup!Tools, Setup!WriteConfig, Setup!Alias,
                    Setup!CreateNetwork, Setup!Metadata, Setup!Home, Setup!Supersede, Setup!Wipe,
                    Setup!Preserve, Setup!Swap, Setup!Rollback, Setup!Forget,
                    Setup!RestoreNetwork, Setup!RestoreWork, Setup!At, StepNames
<1> QED  BY <1>3, <1>4, <1>5, <1>6, <1>7 DEF Works

\* What a step does not touch of a process keeps what there is behind it.
Facts(p) ==
    <<setupPlan, setupFaults, Setup!machine, pc[p], dir[p], found[p], workRestart[p],
      networkRestore[p], failed[p]>>

\* What is behind a process depends on the machine and on the process.
LEMMA BehindSame ==
    ASSUME NEW p, Behind(p), UNCHANGED Facts(p)
    PROVE  Behind(p)'
BY DEF Facts, Behind, Setup!machine, Installs, Restarts, Updates, Setup!Running, HasPassword,
       Setup!ask, Setup!OfProcess, Setup!NoConfig, Setup!Whole

\* Every step of a process keeps the invariant,
LEMMA WorksKeepsSetupInv ==
    ASSUME SetupConstants, SetupInv, NEW p \in Process, Works(p)
    PROVE  SetupInv'
<1>0. SetupState /\ Alone /\ NoneFailedYet /\ (~mixed => RunningStarts)
          /\ \A q \in Process : Seen(q) => Behind(q)
  BY DEF SetupInv
<1>1. setupPlan' = setupPlan /\ MachineState' /\ LocalsState'
  BY <1>0, StepKeepsTypes
<1>2. PICK onward : Setup!At(p, pc[p]) /\ Following(p, onward)
  BY <1>0, StepFollows DEF SetupConstants
<1>3. /\ Alone' /\ pc[p]' = onward /\ Setup!Running(p)
      /\ mixed' \in BOOLEAN /\ latest' \in Process \cup {None} /\ mutex' \in Process \cup {None}
      /\ DOMAIN pc' = Process /\ \A q \in Process : pc[q]' \in StepNames(q) \cup {"ready", "done"}
      /\ \A q \in Process : Seen(q)' => q = p /\ Seen(p)
  BY <1>0, <1>2, StepIsAlone DEF SetupConstants
<1>4. \A q \in Process : StepNames(q)' = StepNames(q)
  BY <1>1 DEF StepNames, Setup!ask
<1>5. SetupState'
  BY <1>1, <1>3, <1>4 DEF SetupState, ProcessState, LocalsState
<1>6. NoneFailedYet'
  <2>1. \A q \in Process : q # p => failed[q]' = failed[q] /\ pc[q]' = pc[q]
    <3>1. failed' = failed \/ failed' = [failed EXCEPT ![p] = TRUE]
      BY DEF Works, Setup!StopWork, Setup!StopNetwork, Setup!Prepare, Setup!Copy, Setup!Tools,
             Setup!WriteConfig, Setup!Alias, Setup!CreateNetwork, Setup!Metadata,
         Setup!Home, Setup!Supersede, Setup!Wipe, Setup!PasswordStep, Setup!WorkService,
         Setup!Cleanup, Setup!StartWork, Setup!Preserve, Setup!Swap, Setup!Rollback,
         Setup!Forget, Setup!RestoreNetwork, Setup!RestoreWork, Setup!StepFails, Setup!Proceeds,
         Setup!Fails, Setup!StartFailed
    <3>2. DOMAIN failed = Process /\ DOMAIN pc = Process
      BY <1>0 DEF SetupState, ProcessState
    <3> QED  BY <3>1, <3>2, <1>2 DEF Following, Setup!Goes
  <2>2. pc[p]' # "ready"
    BY <1>2, <1>3 DEF Following, StepNames
  <2> QED  BY <2>1, <2>2, <1>0 DEF NoneFailedYet
<1>7. ~mixed' => ~mixed /\ Seen(p) /\ RunningStarts /\ Behind(p)
  <2>1. ~mixed' => ~mixed
    BY <1>2 DEF Setup!At
  <2> QED  BY <2>1, <1>0, <1>3 DEF Seen
<1>8. ~mixed' => RunningStarts'
  BY <1>0, <1>7, StepKeepsRunningStarts
<1>9. ASSUME ~mixed' PROVE Behind(p)'
  <2>0. Setup!ask(p)' = Setup!ask(p)
    BY <1>1 DEF Setup!ask
  <2>1. CASE Setup!ask(p).kind = "install"
    <3>1. Restarts(p)'
      BY <2>1, <1>0, <1>7, <1>9, StepKeepsRestarts DEF Behind
    <3>2. ~failed[p]' => Installs(p)'
      BY <2>1, <1>0, <1>7, <1>9, StepKeepsInstalls DEF Behind
    <3> QED  BY <3>1, <3>2, <2>0, <2>1 DEF Behind
  <2>2. CASE Setup!ask(p).kind = "workUpdate"
    <3>1. Updates(p)'
      BY <2>2, <1>0, <1>7, <1>9, StepKeepsUpdates DEF Behind
    <3> QED  BY <3>1, <2>0, <2>2 DEF Behind
  <2>3. CASE Setup!ask(p).kind = "workInstall"
    <3>1. pc[p]' \in {"copy", "password", "service"} => work'.is # "running"
      BY <2>3, <1>0, <1>7, <1>9, StepKeepsWorkInstall DEF Behind
    <3> QED  BY <3>1, <2>0, <2>3 DEF Behind
  <2> QED  BY <2>0, <2>1, <2>2, <2>3 DEF Behind
<1>10. \A q \in Process : Seen(q)' => Behind(q)'
  <2> SUFFICES ASSUME NEW q \in Process, Seen(q)' PROVE Behind(q)'
    OBVIOUS
  <2>1. q = p /\ ~mixed'
    BY <1>3 DEF Seen
  <2> QED  BY <2>1, <1>9
<1> QED  BY <1>3, <1>5, <1>6, <1>8, <1>10 DEF SetupInv

\* so does its beginning,
LEMMA BeginKeepsSetupInv ==
    ASSUME SetupConstants, SetupInv, NEW p \in Process, Setup!Begin(p)
    PROVE  SetupInv'
<1>0. SetupState /\ Alone /\ NoneFailedYet /\ (~mixed => RunningStarts)
          /\ \A q \in Process : Seen(q) => Behind(q)
  BY DEF SetupInv
<1>1. /\ Alone' /\ setupPlan' = setupPlan /\ pc[p]' \in StepNames(p) \cup {"done"}
      /\ mixed' \in BOOLEAN /\ latest' \in Process \cup {None} /\ mutex' \in Process \cup {None}
      /\ DOMAIN pc' = Process /\ \A q \in Process : pc[q]' \in StepNames(q) \cup {"ready", "done"}
      /\ ~mixed' => ~mixed /\ \A q \in Process : Seen(q)' => q = p
  BY <1>0, BeginIsAlone
<1>2. \A q \in Process : StepNames(q)' = StepNames(q) /\ Setup!ask(q)' = Setup!ask(q)
  BY <1>1 DEF StepNames, Setup!ask
<1>3. UNCHANGED <<Setup!machine, workRestart, networkRestore, lateStop>> /\ pc[p] = "ready"
  BY DEF Setup!Begin, Setup!At
<1>4. /\ found'
             = [found EXCEPT ![p] = [dir |-> Setup!installedLocation, running |-> FALSE,
                                     work |-> work]]
      /\ \E d \in Dir : dir' = [dir EXCEPT ![p] = d]
  <2>1. metadata.dir \in Dir /\ work.dir \in Dir /\ dir[p] \in Dir
    BY <1>0 DEF SetupState, MachineState, ProcessState, InstalledWork, Written
  <2> QED  BY <2>1 DEF Setup!Begin, Setup!installedLocation
<1>5. \/ failed' = failed /\ setupFaults' = setupFaults /\ pc[p]' = Setup!StepsOf(p)[1]
      \/ Setup!AFault /\ failed' = [failed EXCEPT ![p] = TRUE] /\ pc[p]' = Setup!Unwinds(p)
  BY <1>0 DEF Setup!Begin, Setup!Fails, Setup!Goes, SetupState, ProcessState
<1>6. MachineState'
  <2>1. setupPlan.faults \in Nat /\ setupFaults \in 0..setupPlan.faults
    BY <1>0, SetupAsked DEF SetupState, MachineState, SetupConstants
  <2>2. setupFaults' \in 0..setupPlan.faults
    BY <2>1, <1>5 DEF Setup!AFault
  <2> QED  BY <2>2, <1>0, <1>1, <1>3 DEF SetupState, MachineState, Setup!machine
<1>7. LocalsState'
  <2>1. Setup!installedLocation \in Dir /\ work \in InstalledWork
    BY <1>0 DEF SetupState, MachineState, Written, Setup!installedLocation
  <2>2. found' \in [Process -> [dir : Dir, running : BOOLEAN, work : InstalledWork]]
    BY <2>1, <1>0, <1>4 DEF SetupState, ProcessState
  <2>3. dir' \in [Process -> Dir] /\ failed' \in [Process -> BOOLEAN]
    BY <1>0, <1>4, <1>5 DEF SetupState, ProcessState
  <2> QED  BY <2>2, <2>3, <1>0, <1>3 DEF LocalsState, SetupState, ProcessState
<1>8. SetupState'
  BY <1>1, <1>2, <1>6, <1>7 DEF SetupState, ProcessState, LocalsState
<1>9. NoneFailedYet'
  <2>1. \A q \in Process : q # p => failed[q]' = failed[q] /\ pc[q]' = pc[q]
    <3>1. \E onward : pc' = [pc EXCEPT ![p] = onward]
      BY DEF Setup!Begin, Setup!Goes, Setup!Fails
    <3> QED  BY <3>1, <1>0, <1>5 DEF SetupState, ProcessState
  <2>2. pc[p]' # "ready"
    BY <1>1 DEF StepNames
  <2> QED  BY <2>1, <2>2, <1>0 DEF NoneFailedYet
<1>10. ~mixed' => RunningStarts'
  BY <1>0, <1>1, <1>3 DEF RunningStarts, HasPassword, Setup!machine, Setup!Whole
<1>11. Behind(p)'
  <2>1. ~found[p]'.running /\ ~failed[p]
    BY <1>0, <1>3, <1>4 DEF SetupState, ProcessState, NoneFailedYet
  <2>2. CASE Setup!ask(p).kind = "install"
    <3>1. Setup!ask(p).inPlace => Setup!Whole(exe'[dir'[p]])
      BY <1>3 DEF Setup!Begin, Setup!machine
    <3>2. (failed[p]' /\ pc[p]' = "restoreNetwork") \/ (~failed[p]' /\ pc[p]' = "stopWork")
      <4>1. Setup!StepsOf(p)[1] = "stopWork" /\ Setup!Unwinds(p) = "restoreNetwork"
        <5>1. Setup!ask(p).network \in BOOLEAN
          BY <1>0, SetupAsked DEF SetupState, MachineState, SetupConstants
        <5> QED  BY <5>1, <2>2, AfterAnInstallStep, AfterAnInstallStepAlone DEF Setup!Unwinds
      <4> QED  BY <4>1, <2>1, <1>0, <1>5 DEF SetupState, ProcessState
    <3>3. Restarts(p)'
      BY <2>1, <3>2 DEF Restarts
    <3>4. ~failed[p]' => Installs(p)'
      BY <3>1, <3>2, <1>2 DEF Installs, AfterNetwork, AfterMetadata, AfterHome, Setup!Whole
    <3> QED  BY <2>2, <3>3, <3>4, <1>2 DEF Behind
  <2>3. CASE Setup!ask(p).kind = "workUpdate"
    <3>1. dir[p]' = work.dir /\ work' = work
      BY <2>3, <1>0, <1>3 DEF Setup!Begin, Setup!machine, SetupState, ProcessState
    <3>2. pc[p]' = "stopWork" \/ pc[p]' = "done"
      BY <2>3, <1>5, AfterAnUpdateStep DEF Setup!Unwinds
    <3>3. Updates(p)'
      BY <2>1, <3>1, <3>2 DEF Updates
    <3> QED  BY <2>3, <3>3, <1>2 DEF Behind
  <2>4. CASE Setup!ask(p).kind = "workInstall"
    <3>1. pc[p]' = "stopWork" \/ pc[p]' = "done"
      BY <2>4, <1>5, AfterAWorkInstallStep DEF Setup!Unwinds
    <3> QED  BY <2>4, <3>1, <1>2 DEF Behind
  <2> QED  BY <2>2, <2>3, <2>4, <1>2 DEF Behind
<1>12. \A q \in Process : Seen(q)' => Behind(q)'
  <2> SUFFICES ASSUME NEW q \in Process, Seen(q)' PROVE Behind(q)'
    OBVIOUS
  <2>1. q = p
    BY <1>1 DEF Seen
  <2> QED  BY <2>1, <1>11
<1> QED  BY <1>1, <1>8, <1>9, <1>10, <1>12 DEF SetupInv

\* and so does giving up.
LEMMA GivesUpKeepsSetupInv ==
    ASSUME SetupConstants, SetupInv, NEW p \in Process, Setup!GivesUp(p)
    PROVE  SetupInv'
<1>0. SetupState /\ Alone /\ NoneFailedYet /\ (~mixed => RunningStarts)
          /\ \A q \in Process : Seen(q) => Behind(q)
  BY DEF SetupInv
<1>1. /\ Alone' /\ setupPlan' = setupPlan
      /\ mixed' \in BOOLEAN /\ latest' \in Process \cup {None} /\ mutex' \in Process \cup {None}
      /\ DOMAIN pc' = Process /\ \A q \in Process : pc[q]' \in StepNames(q) \cup {"ready", "done"}
      /\ \A q \in Process : Seen(q)' => q # p /\ Seen(q) /\ pc[q]' = pc[q]
      /\ ~mixed' => ~mixed
  BY <1>0, GivesUpIsAlone
<1>2. \A q \in Process : StepNames(q)' = StepNames(q)
  BY <1>1 DEF StepNames, Setup!ask
<1>3. UNCHANGED <<setupFaults, Setup!machine, dir, found, workRestart, networkRestore, lateStop>>
      /\ failed' = [failed EXCEPT ![p] = TRUE] /\ pc' = [pc EXCEPT ![p] = "done"]
  BY DEF Setup!GivesUp, Setup!Goes
<1>4. SetupState'
  <2>1. MachineState'
    BY <1>0, <1>1, <1>3 DEF SetupState, MachineState, Setup!machine
  <2>2. failed' \in [Process -> BOOLEAN]
    BY <1>0, <1>3 DEF SetupState, ProcessState
  <2> QED  BY <2>1, <2>2, <1>0, <1>1, <1>2, <1>3 DEF SetupState, ProcessState
<1>5. NoneFailedYet'
  <2>1. DOMAIN failed = Process /\ DOMAIN pc = Process
    BY <1>0 DEF SetupState, ProcessState
  <2> QED  BY <2>1, <1>0, <1>3 DEF NoneFailedYet
<1>6. ~mixed' => RunningStarts'
  BY <1>0, <1>1, <1>3 DEF RunningStarts, HasPassword, Setup!machine, Setup!Whole
<1>7. \A q \in Process : Seen(q)' => Behind(q)'
  <2> SUFFICES ASSUME NEW q \in Process, Seen(q)' PROVE Behind(q)'
    OBVIOUS
  <2>1. q # p /\ Behind(q) /\ pc[q]' = pc[q]
    BY <1>0, <1>1
  <2>2. failed[q]' = failed[q]
    BY <2>1, <1>3
  <2>3. UNCHANGED Facts(q)
    BY <2>1, <2>2, <1>1, <1>3 DEF Facts
  <2> QED  BY <2>1, <2>3, BehindSame
<1> QED  BY <1>1, <1>4, <1>5, <1>6, <1>7 DEF SetupInv

\* Every step of the part is one of these.
LEMMA SetupInvNext ==
    ASSUME SetupConstants, SetupInv, Setup!Next
    PROVE  SetupInv'
<1>1. PICK p \in Process : Setup!Begin(p) \/ Setup!GivesUp(p) \/ Works(p)
  BY DEF Setup!Next, Setup!Step, Works
<1> QED  BY <1>1, BeginKeepsSetupInv, GivesUpKeepsSetupInv, WorksKeepsSetupInv

\* A step of another part changes nothing of this one.
LEMMA SetupInvSame ==
    ASSUME SetupInv, UNCHANGED Setup!vars
    PROVE  SetupInv'
<1> USE DEF Setup!vars, Setup!machine, Setup!locals
<1>1. SetupState'
  BY DEF SetupInv, SetupState, MachineState, ProcessState, StepNames, Setup!ask
<1>2. (\A q \in Process : Setup!Running(q)' <=> Setup!Running(q))
          /\ \A q \in Process : Setup!ask(q)' = Setup!ask(q)
  BY DEF Setup!Running, Setup!ask
<1>3. Alone' /\ NoneFailedYet'
  BY <1>2 DEF SetupInv, Alone, NoneFailedYet
<1>4. ~mixed' => RunningStarts'
  BY DEF SetupInv, RunningStarts, HasPassword, Setup!Whole
<1>5. \A q \in Process : Seen(q)' => Behind(q)'
  <2> SUFFICES ASSUME NEW q \in Process, Seen(q)' PROVE Behind(q)'
    OBVIOUS
  <2>1. Seen(q)
    BY <1>2 DEF Seen, Setup!Idle
  <2>2. UNCHANGED Facts(q)
    BY DEF Facts
  <2> QED  BY <2>1, <2>2, BehindSame DEF SetupInv
<1> QED  BY <1>1, <1>3, <1>4, <1>5 DEF SetupInv

\* The machine that a plan begins with satisfies the invariant.
LEMMA SetupBegins ==
    ASSUME SetupConstants, Setup!Init
    PROVE  SetupInv
<1>1. setupPlan \in SetupPlans /\ DefaultDir \in Dir
  BY DEF Setup!Init, SetupConstants, Setup!SetupAssumption
<1>2. \A p \in Process : Setup!ask(p).dir \in Dir /\ setupPlan.faults \in Nat
  BY <1>1, SetupAsked DEF SetupConstants
<1>3. setupPlan.faults \in Nat
  BY <1>1 DEF SetupConstants, Setup!SetupPlansAssumption
<1>4. work \in InstalledWork
  BY <1>1 DEF Setup!Init, InstalledWork
<1>5. /\ exe \in [Dir -> Setup!File] /\ previousExe \in [Dir -> Setup!File]
      /\ password \in [Dir -> Setup!File] /\ tools \subseteq Dir
      /\ networkService \in [is : {"absent", "stopped", "running"}, dir : Dir]
  BY <1>1 DEF Setup!Init, Setup!File
<1>6. netConfig \in Written /\ metadata \in Written /\ alias \in Setup!File /\ home \in Setup!File
  BY <1>1 DEF Setup!Init, Setup!File, Written, Setup!NoConfig
<1>7. MachineState
  BY <1>1, <1>3, <1>4, <1>5, <1>6 DEF MachineState, Setup!Init
<1>8. /\ DOMAIN pc = Process /\ dir \in [Process -> Dir]
      /\ found \in [Process -> [dir : Dir, running : BOOLEAN, work : InstalledWork]]
      /\ \A p \in Process : pc[p] = "ready" /\ ~failed[p]
  BY <1>1, <1>2, <1>4 DEF Setup!Init
<1>9. ProcessState
  BY <1>8 DEF Setup!Init, ProcessState
<1>10. Alone /\ NoneFailedYet /\ \A p \in Process : ~Seen(p)
  BY <1>8 DEF Setup!Init, Alone, NoneFailedYet, Seen, Setup!Running, SetupConstants,
              Setup!SetupAssumption
<1>11. RunningStarts
  BY <1>1 DEF Setup!Init, RunningStarts, HasPassword, Setup!Whole, SetupConstants,
              Setup!SetupAssumption
<1> QED  BY <1>7, <1>9, <1>10, <1>11 DEF SetupInv, SetupState

\* The invariant says that the types, the installation and the Work service are right.
LEMMA SetupInvMeans ==
    ASSUME SetupConstants, SetupInv
    PROVE  Setup!SetupTypeOK /\ Setup!InstallsAgree /\ Setup!WorkSurvives
<1>1. Setup!SetupTypeOK
  BY DEF SetupInv, SetupState, MachineState, ProcessState, Setup!SetupTypeOK, InstalledWork,
         Written
<1>2. ASSUME Setup!Idle, ~mixed, latest # None
      PROVE  latest \in Process /\ pc[latest] = "done" /\ Behind(latest)
  BY <1>2 DEF SetupInv, SetupState, ProcessState, Alone, Seen
<1>3. Setup!InstallsAgree
  <2> SUFFICES ASSUME Setup!Idle, ~mixed, latest # None, Setup!ask(latest).kind = "install",
                      ~failed[latest]
               PROVE  LET own == Setup!OfProcess(latest) IN
                        /\ metadata = own /\ home = latest /\ mutex = None
                        /\ Setup!ask(latest).inPlace \/ exe[own.dir] = latest
                        /\ IF Setup!ask(latest).network
                             THEN netConfig = own /\ alias = latest
                             /\ networkService = [is |-> "running", dir |-> own.dir]
                             ELSE netConfig = Setup!NoConfig /\ alias = None
                             /\ networkService.is = "absent"
    BY DEF Setup!InstallsAgree
  <2>1. mutex = None
    BY DEF SetupInv, SetupState, ProcessState, Alone, Setup!Idle
  <2>2. pc[latest] = "done" /\ Installs(latest) /\ Setup!ask(latest).network \in BOOLEAN
    BY <1>2, SetupAsked DEF Behind, SetupConstants, SetupInv, SetupState, MachineState
  <2> QED  BY <2>1, <2>2 DEF Installs, Setup!OfProcess, AfterNetwork, AfterMetadata, AfterHome
<1>4. Setup!WorkSurvives
  BY <1>2 DEF Setup!WorkSurvives, Behind, Restarts, Updates, Setup!Whole
<1> QED  BY <1>1, <1>3, <1>4

=============================================================================
