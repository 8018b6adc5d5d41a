----------------------------- MODULE TxContract -----------------------------
(***************************************************************************)
(* What DB::begin and Tx::rollback promise their callers, with the locks    *)
(* abstracted away: any number of read transactions, each pinned to the     *)
(* transaction id it copied from the meta page, at most one write           *)
(* transaction, and page reclamation that never reaches a pinned id.        *)
(***************************************************************************)
EXTENDS Naturals

CONSTANTS TxIds,   \* the Tx objects
          Txids,   \* the values of txid_t
          NoTx     \* the null Tx pointer

VARIABLES writer,    \* the write transaction, or NoTx
          readers,   \* the read transactions that are open
          snapshot,  \* snapshot[x]: the transaction id x was started with
          reclaimed  \* the last reclamation: by which writer, up to which id

vars == <<writer, readers, snapshot, reclaimed>>

Init ==
    /\ writer = NoTx
    /\ readers = {}
    /\ snapshot = [x \in TxIds |-> 0]
    /\ reclaimed = [by |-> NoTx, upto |-> 0]

BeginRead(x, id) ==
    /\ x \notin readers
    /\ readers' = readers \cup {x}
    /\ snapshot' = [snapshot EXCEPT ![x] = id]
    /\ UNCHANGED <<writer, reclaimed>>

EndRead(x) ==
    /\ x \in readers
    /\ readers' = readers \ {x}
    /\ UNCHANGED <<writer, snapshot, reclaimed>>

BeginWrite(x, id) ==
    /\ writer = NoTx
    /\ x \notin readers
    /\ writer' = x
    /\ snapshot' = [snapshot EXCEPT ![x] = id]
    /\ UNCHANGED <<readers, reclaimed>>

\* Pages freed by transactions up to id become allocatable again.
Reclaim(id) ==
    /\ writer # NoTx
    /\ \A x \in readers : id < snapshot[x]
    /\ reclaimed' = [by |-> writer, upto |-> id]
    /\ UNCHANGED <<writer, readers, snapshot>>

EndWrite ==
    /\ writer # NoTx
    /\ writer' = NoTx
    /\ UNCHANGED <<readers, snapshot, reclaimed>>

Next ==
    \/ \E x \in TxIds, id \in Txids : BeginRead(x, id) \/ BeginWrite(x, id)
    \/ \E x \in TxIds : EndRead(x)
    \/ \E id \in Txids : Reclaim(id)
    \/ EndWrite

Spec == Init /\ [][Next]_vars
=============================================================================
