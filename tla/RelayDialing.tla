----------------------------- MODULE RelayDialing -----------------------------
(***************************************************************************)
(* How a program reaches a relay through a web proxy:                      *)
(* internal/tunnel/websocket.go, DialMessageConnWithHeaders, and the loops *)
(* that call it: those of windows/home go through a list of relays and     *)
(* save what was learned, the Work agent's have one relay each.  A         *)
(* WebSocket is always set up through CONNECT; the HTTP stream goes        *)
(* through CONNECT to a relay with TLS, and is forwarded to one without.   *)
(* What an attempt shows of the proxy is kept in three marks, shared by    *)
(* all the dials of the program and, the candidate aside, saved.           *)
(*                                                                         *)
(* One proxy.  An attempt has its outcome in one step; its marks are set   *)
(* in the same step.  The saved file is written from a snapshot of the     *)
(* marks that was taken before the lock.                                   *)
(***************************************************************************)
EXTENDS Naturals, Sequences

CONSTANTS Dial,            \* the loops that dial
          Relay, Lists,    \* the relays, and the lists of them a loop may have
          Networks,        \* the conditions that may hold one after the other
          MaxChanges, MaxRestarts   \* bounds

\* secure: relays with TLS; up: relays that answer; upgrades: relays that can be
\* upgraded; connect: relays the proxy opens a tunnel to; forwards: it forwards;
\* authorizes: it takes the identity of this program, at the second try if need be.
NetworkType == [secure : SUBSET Relay, up : SUBSET Relay, upgrades : SUBSET Relay,
                connect : SUBSET Relay, forwards : BOOLEAN, authorizes : BOOLEAN]
NetworksAssumption == Networks \subseteq NetworkType
ListsAssumption == Lists \subseteq Seq(Relay) \ {<<>>}

VARIABLES
    relays,        \* relays[d]: the loop's list
    network,
    preferred,     \* httpStreamPreferredProxies
    unsupported,   \* proxyCONNECTUnsupportedStore
    candidate,     \* proxyCONNECTRejectedCandidates
    dial,          \* dial[d]: where the attempt of a loop stands
    at,            \* at[d]: the relay of the list it tries
    snapshot,      \* snapshot[d]: what it is about to save
    saved, signature,   \* the file, and what the program believes it holds
    changes, restarts

markVars == <<preferred, unsupported, candidate>>
saveVars == <<snapshot, saved, signature>>
vars == <<relays, network, markVars, dial, at, saveVars, changes, restarts>>

DialStates == {"begin", "stream", "socket", "fallback", "after rejection",
               "won", "lost", "winner saves", "loser saves", "over"}
Marks == [preferred : BOOLEAN, unsupported : BOOLEAN]
NoMarks == [preferred |-> FALSE, unsupported |-> FALSE]

Init ==
    /\ relays \in [Dial -> Lists] /\ network \in Networks
    /\ saved = NoMarks /\ signature = NoMarks
    /\ preferred = FALSE /\ unsupported = FALSE /\ candidate = FALSE
    /\ dial = [d \in Dial |-> "begin"] /\ at = [d \in Dial |-> 1]
    /\ snapshot = [d \in Dial |-> NoMarks] /\ changes = 0 /\ restarts = 0

DialRelay(d) == relays[d][at[d]]
Secure(r) == r \in network.secure

\* Outcomes.  A proxy also rejects a CONNECT to a relay it cannot reach.
Tunnel(r) == CASE ~network.authorizes -> "failed"
               [] network.authorizes /\ r \in network.connect /\ r \in network.up -> "ok"
               [] OTHER -> "rejected"
DialSocket(r) == IF Tunnel(r) = "ok" /\ r \notin network.upgrades THEN "failed" ELSE Tunnel(r)
Stream(r) == IF Secure(r) THEN Tunnel(r)
             ELSE IF network.forwards /\ network.authorizes /\ r \in network.up THEN "ok" ELSE "failed"

Go(d, where) == dial' = [dial EXCEPT ![d] = where]

-----------------------------------------------------------------------------
(* DialMessageConnWithHeaders.                                             *)

\* A relay with TLS is refused untried while both marks are set.
Refused(d) == preferred /\ unsupported /\ Secure(DialRelay(d))
Begin(d) ==
    /\ dial[d] = "begin"
    /\ Go(d, IF Refused(d) THEN "lost" ELSE IF preferred THEN "stream" ELSE "socket")
    /\ UNCHANGED <<relays, network, markVars, at, saveVars, changes, restarts>>

\* The stream first, if the proxy is known for it; if it fails for another
\* reason than CONNECT, the proxy no longer is.
PreferredForGood(r) == TRUE
StillPreferred(r) == Stream(r) = "ok" \/ (Stream(r) = "rejected" /\ Secure(r))
TryStream(d) ==
    /\ dial[d] = "stream"
    /\ LET r == DialRelay(d) IN
         /\ preferred' = (preferred /\ StillPreferred(r))
         /\ unsupported' = CASE Stream(r) # "ok" -> unsupported
                              [] Stream(r) = "ok" /\ Secure(r) -> FALSE
                              [] Stream(r) = "ok" /\ ~Secure(r) -> unsupported \/ candidate
         /\ candidate' = (Stream(r) = "rejected" /\ Secure(r))
         /\ Go(d, CASE Stream(r) = "ok" -> "won" [] Stream(r) = "rejected" -> "lost"
                    [] Stream(r) = "failed" -> "socket")
    /\ UNCHANGED <<relays, network, at, saveVars, changes, restarts>>

TrySocket(d) ==
    /\ dial[d] = "socket"
    /\ LET outcome == DialSocket(DialRelay(d)) IN
         /\ Go(d, CASE outcome = "ok" -> "won" [] outcome = "rejected" -> "after rejection"
                    [] outcome = "failed" -> "fallback")
         /\ IF outcome = "ok" THEN preferred' = FALSE /\ unsupported' = FALSE /\ candidate' = FALSE
            ELSE UNCHANGED markVars
    /\ UNCHANGED <<relays, network, at, saveVars, changes, restarts>>

\* A rejected CONNECT and a stream that was forwarded mark the proxy.
TryFallback(d) ==
    /\ dial[d] \in {"fallback", "after rejection"}
    /\ LET r == DialRelay(d) IN
         IF Stream(r) = "ok"
           THEN /\ Go(d, "won") /\ preferred' = TRUE /\ candidate' = FALSE
                /\ unsupported' = (~Secure(r) /\ (unsupported \/ candidate \/ dial[d] = "after rejection"))
           ELSE /\ Go(d, "lost") /\ candidate' = (candidate \/ (Stream(r) = "rejected" /\ Secure(r)))
                /\ UNCHANGED <<preferred, unsupported>>
    /\ UNCHANGED <<relays, network, at, saveVars, changes, restarts>>

-----------------------------------------------------------------------------
(* persistProxyCapabilitiesIfChanged, after every attempt; the loop then   *)
(* ends, or tries the list's next relay and at its end begins again.  (The *)
(* client's loop gives up after five minutes; here it is one that goes on, *)
(* as the connections that a user opens after it would.)                   *)

TakeSnapshot(d) ==
    /\ dial[d] \in {"won", "lost"}
    /\ snapshot' = [snapshot EXCEPT ![d] = [preferred |-> preferred, unsupported |-> unsupported]]
    /\ Go(d, IF dial[d] = "won" THEN "winner saves" ELSE "loser saves")
    /\ UNCHANGED <<relays, network, markVars, at, saved, signature, changes, restarts>>

Save(d) ==
    /\ dial[d] \in {"winner saves", "loser saves"}
    /\ IF snapshot[d] = signature THEN UNCHANGED <<saved, signature>>
       ELSE saved' = snapshot[d] /\ signature' = snapshot[d]
    /\ IF dial[d] = "winner saves" THEN Go(d, "over") /\ UNCHANGED at
       ELSE Go(d, "begin") /\ at' = [at EXCEPT ![d] = (@ % Len(relays[d])) + 1]
    /\ UNCHANGED <<relays, network, markVars, snapshot, changes, restarts>>

Step(d) == Begin(d) \/ TryStream(d) \/ TrySocket(d) \/ TryFallback(d) \/ TakeSnapshot(d) \/ Save(d)

-----------------------------------------------------------------------------
(* The network, and the program's own end.                                 *)

\* A connection to a relay that is gone is dialed again.
Change ==
    /\ changes < MaxChanges /\ changes' = changes + 1
    /\ network' \in Networks \ {network}
    /\ LET lost == {d \in Dial : dial[d] = "over" /\ DialRelay(d) \notin network'.up} IN
         /\ dial' = [d \in Dial |-> IF d \in lost THEN "begin" ELSE dial[d]]
         /\ at' = [d \in Dial |-> IF d \in lost THEN 1 ELSE at[d]]
    /\ UNCHANGED <<relays, markVars, saveVars, restarts>>

\* loadProxyCapabilities, when the program is started again.
Restart ==
    /\ restarts < MaxRestarts /\ restarts' = restarts + 1
    /\ preferred' = saved.preferred /\ unsupported' = saved.unsupported /\ candidate' = FALSE
    /\ signature' = saved
    /\ dial' = [d \in Dial |-> "begin"] /\ at' = [d \in Dial |-> 1]
    /\ UNCHANGED <<relays, network, snapshot, saved, changes>>

Next == (\E d \in Dial : Step(d)) \/ Change \/ Restart
Spec == Init /\ [][Next]_vars
FairSpec == Spec /\ \A d \in Dial : WF_vars(Step(d))

-----------------------------------------------------------------------------
(* Properties.                                                             *)

DialingTypeOK ==
    /\ relays \in [Dial -> Lists] /\ network \in Networks
    /\ preferred \in BOOLEAN /\ unsupported \in BOOLEAN /\ candidate \in BOOLEAN
    /\ dial \in [Dial -> DialStates] /\ \A d \in Dial : at[d] \in 1..Len(relays[d])
    /\ snapshot \in [Dial -> Marks] /\ saved \in Marks /\ signature \in Marks

\* A loop with no relay without TLS is refused by what another loop, or an
\* earlier program, learned of the proxy: no dial of its own can clear the marks.
Reachable(d) == \E i \in 1..Len(relays[d]) : Stream(relays[d][i]) = "ok" \/ DialSocket(relays[d][i]) = "ok"
ShutOut(d) == preferred /\ unsupported /\ \A i \in 1..Len(relays[d]) : Secure(relays[d][i])

\* What was learned of a proxy, and saved, never keeps a loop from a relay it
\* could reach: while one of its list can be reached, the loop gets to one,
\* unless it is shut out.
RelayIsReached == \A d \in Dial : []<>(Reachable(d) /\ ~ShutOut(d) => dial[d] = "over")
=============================================================================
