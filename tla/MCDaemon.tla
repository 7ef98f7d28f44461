------------------------------ MODULE MCDaemon ------------------------------
(***************************************************************************)
(* Instances of Daemon for TLC: two tasks, one of them with two steps.     *)
(***************************************************************************)
EXTENDS Daemon, TLC

CONSTANTS t1, t2, f1, f2

Signed == [network |-> "false", signature |-> "valid", needsHandoff |-> FALSE]

Unsigned == [Signed EXCEPT !.signature = "placeholder"]

Online == [Signed EXCEPT !.network = "true"]

Chained == [Signed EXCEPT !.needsHandoff = TRUE]

\* Every package can pass.
AllGood == (t1 :> <<Signed, Signed>>) @@ (t2 :> <<Signed>>)

\* The second step of t1 reads the output of the first; the second step of
\* t2 never passes the gate.
Mixed == (t1 :> <<Signed, Chained>>) @@ (t2 :> <<Signed, Unsigned>>)

\* The same with a package that asks for the network.
Chain == (t1 :> <<Signed, Chained>>) @@ (t2 :> <<Online>>)

OwnFile == (t1 :> f1) @@ (t2 :> f2)

OnlyResume == {TRUE}

AnyMode == BOOLEAN
=============================================================================
