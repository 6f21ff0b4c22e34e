----------------------------- MODULE MCWorkAgent ------------------------------
EXTENDS WorkAgent, TLC

CONSTANTS a1, a2, s1, s2, rdp, smb, p1

MCAgent == {a1, a2}
MCClient == {s1, s2}
MCService == {rdp, smb}
MCProof == {NoProof, p1}

Both(x) == [a \in Agent |-> x]
Each(x) == [s \in Client |-> x]
\* An agent with one place, two clients, nothing that fails.
Plain == [dials |-> <<a1, a1>>, agentProof |-> Both(p1), services |-> Both({rdp}), limit |-> Both(1),
          clients |-> MCClient, proof |-> Each(p1), service |-> Each(rdp),
          cuts |-> 0, late |-> {}, failing |-> {}, watched |-> FALSE]

\* A control breaks, and the agent's next one replaces it.
Replaced == [Plain EXCEPT !.clients = {s1}, !.cuts = 1, !.late = {s1}]
\* A session that does not start.
Failing == [Plain EXCEPT !.clients = {s1}, !.late = {s1}, !.failing = {s1}]
\* Two agents bring different proofs; a client with the one's asks for the
\* other's service.
TwoProofs == [Plain EXCEPT !.dials = <<a1, a2>>, !.agentProof = (a1 :> p1 @@ a2 :> NoProof),
                           !.services = (a1 :> {rdp} @@ a2 :> {smb}),
                           !.proof = Each(NoProof), !.clients = {s1}, !.late = {s1}]
\* Two agents with a service each.
TwoServices == [Plain EXCEPT !.dials = <<a1, a2>>, !.services = (a1 :> {rdp} @@ a2 :> {smb}),
                             !.service = (s1 :> rdp @@ s2 :> smb)]
\* A dashboard watches a client that comes and goes.
Watched == [Plain EXCEPT !.clients = {s1}, !.watched = TRUE]
\* A dashboard watches two clients, of whom the agent can serve one at a time.
WatchedRefusal == [Plain EXCEPT !.watched = TRUE]
MCPlans == {Plain, Replaced, Failing, TwoProofs, TwoServices, Watched, WatchedRefusal}
=============================================================================
