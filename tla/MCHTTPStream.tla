----------------------------- MODULE MCHTTPStream -----------------------------
(* The module TLC runs for HTTPStream, and the plans it runs it with.      *)
EXTENDS HTTPStream

Plan(up, down, loss, restart, lives, loops, close, abort) ==
    [write |-> [e \in Ends |-> IF e = Client THEN up ELSE down], loss |-> loss,
     restart |-> restart, lives |-> lives, loops |-> loops, close |-> close, abort |-> abort]

\* Losses in one direction at a time, full buffers, and ends of every kind.
MCPlans == {Plan(2, 0, 1, 0, 1, 1, {}, {}), Plan(0, 2, 1, 0, 1, 2, {}, {}),
            Plan(3, 0, 0, 0, 1, 1, {}, {}), Plan(0, 3, 0, 0, 1, 2, {}, {}),
            Plan(1, 0, 0, 0, 1, 1, {Client}, {}), Plan(0, 1, 0, 0, 1, 1, {Relay}, {}),
            Plan(0, 1, 0, 0, 1, 1, {}, {Relay}), Plan(0, 1, 0, 1, 2, 1, {}, {})}

\* The relay aborts the stream, and sweeps it.
MCSweptPlans == {Plan(0, 0, 0, 0, 2, 1, {}, {Relay})}
=============================================================================
