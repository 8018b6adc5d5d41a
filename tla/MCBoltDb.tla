------------------------------ MODULE MCBoltDb ------------------------------
(* Model-checking instance of BoltDb. *)
EXTENDS BoltDb, TLC

MCPages == {[count |-> 1, words |-> <<4>>]}

\* Pages freed by the transactions 0, 1 and 2, of which release() may reach the
\* first two.
MCPendings == {0 :> <<5>> @@ 1 :> <<6>> @@ 2 :> <<7>>}
=============================================================================
