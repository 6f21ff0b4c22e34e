------------------------------- MODULE MCPrograms -------------------------------
EXTENDS Programs, TLC

CONSTANTS d1, d2, plain, tls,              \* dialing
          t1, t2,                          \* log targets, and tiles
          w1, w2, x1, c1, c2,              \* pairing
          a1, a2, b1,                      \* configs
          p1, p2, dir1, dir2,              \* setup programs and directories
          r1, r2, r3,                      \* WinRM commands
          s1, s2                           \* sessions

\* RelayDialing: a Home profile's list and a Work loop's one relay, a restart, and
\* networks in which one relay is down, a proxy refuses upgrades or CONNECT, or
\* asks for a login.
MCLists == {<<plain, tls>>, <<tls>>}
Net(up, upgrades, connect, forwards, authorizes) ==
    [secure |-> {tls}, up |-> up, upgrades |-> upgrades, connect |-> connect,
     forwards |-> forwards, authorizes |-> authorizes]
MCNetworks ==
    LET all == {plain, tls} IN
      {Net({tls}, all, {tls}, TRUE, TRUE), Net({plain}, all, {tls}, TRUE, TRUE),
       Net(all, all, {}, TRUE, TRUE), Net(all, {}, {tls}, FALSE, TRUE), Net(all, all, all, TRUE, FALSE)}

\* DiagnosticLog: days and file faults; two targets; lost and late answers.
MCLogPlans ==
    {[targets |-> {}, lines |-> 5, days |-> 2, fileFaults |-> 2, linkFaults |-> 0],
     [targets |-> {t1, t2}, lines |-> 3, days |-> 0, fileFaults |-> 0, linkFaults |-> 0],
     [targets |-> {t1}, lines |-> 5, days |-> 0, fileFaults |-> 0, linkFaults |-> 2]}

\* LegacyPairing: two sockets of one slot.
MCSlotOf == [w \in {w1, w2} |-> x1]

\* HomeWindow: saves and logins; connections; a listener that fails.
MCDestinationOf == (a1 :> "a") @@ (a2 :> "a") @@ (b1 :> "b")
MCWindowPlans ==
    {[configs |-> {a1, a2, b1}, conns |-> {}, tunnels |-> 2, saves |-> 2, faults |-> FALSE],
     [configs |-> {a1}, conns |-> {c1, c2}, tunnels |-> 2, saves |-> 0, faults |-> FALSE],
     [configs |-> {a1}, conns |-> {c1}, tunnels |-> 2, saves |-> 0, faults |-> TRUE]}

\* HomeProfiles: the default profile, and the one that a Work install leaves.
MCDefault == [name |-> <<"Work", 1>>, relays |-> "known", room |-> "r", proxy |-> "env", proof |-> None]
MCWorkProfile == [MCDefault EXCEPT !.room = "s", !.proof = "s"]

\* ProductSetup: pairs of programs that may run at once.
Nothing == [kind |-> "none", dir |-> dir1, network |-> FALSE, inPlace |-> FALSE, password |-> "keep"]
Installs(d, net) == [Nothing EXCEPT !.kind = "install", !.dir = d, !.network = net]
Does(kind) == [Nothing EXCEPT !.kind = kind]
Installed(parts, faults, x, y) == [begins |-> parts, faults |-> faults, ask |-> (p1 :> x) @@ (p2 :> y)]
MCSetupPlans ==
    LET all == {"product", "work"}
        elsewhere == [Does("workInstall") EXCEPT !.dir = dir2] IN
      {Installed(all, 1, Installs(dir1, TRUE), Installs(dir1, FALSE)),
       Installed(all, 1, Installs(dir2, TRUE), Does("configure")),
       Installed(all, 1, [Installs(dir1, FALSE) EXCEPT !.inPlace = TRUE], Does("workUpdate")),
       Installed(all, 1, Does("uninstall"), Installs(dir1, TRUE)),
       Installed({"work"}, 1, Does("workUpdate"), elsewhere),
       Installed({"work"}, 1, [elsewhere EXCEPT !.password = "new"], Installs(dir2, TRUE)),
       Installed({}, 0, [Does("workInstall") EXCEPT !.password = "clear"], Installs(dir1, TRUE))}

\* WinRMSession: two commands of one login and one of another.
MCKeyOf == (r1 :> "k") @@ (r2 :> "k") @@ (r3 :> "l")

\* ScreenView: a screen that changes; captures that fail; two users, one at the
\* console; nobody's session active; nobody logged in; a stream with one failure.
Views(users, activeSessions, at_, modes, files, n, redraws, failing) ==
    [users |-> users, states |-> [s \in {s1, s2} |-> IF s \in activeSessions THEN "active" ELSE "disconnected"],
     console |-> at_, modes |-> modes, count |-> files, streams |-> n, changes |-> redraws, faults |-> failing]
MCScreenPlans ==
    {Views({s1}, {s1}, s1, {"stream"}, 0, 1, 2, 0), Views({s1}, {s1}, s1, {"single"}, 0, 1, 0, 2),
     Views({s1, s2}, {s1, s2}, s2, {"single"}, 0, 2, 0, 0), Views({s1, s2}, {}, s1, {"files"}, 1, 1, 1, 1),
     Views({s1}, {s2}, s2, {"files"}, 0, 1, 0, 1), Views({}, {s1}, s1, {"single"}, 0, 1, 0, 0),
     Views({s1}, {s1}, s1, {"stream"}, 0, 1, 1, 1)}
=============================================================================
