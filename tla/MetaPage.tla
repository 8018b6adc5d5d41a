------------------------------ MODULE MetaPage ------------------------------
(***************************************************************************)
(* The meta pages (meta.cpp): Meta::write fills a page for the slot of its  *)
(* transaction id, Meta::validate decides whether a slot that is read back  *)
(* is accepted.  Tx::write_meta, which would bring the page to the file, is *)
(* a stub: the file is modelled as any writer and any restart that use the  *)
(* two functions would meet it.  A page reaches its slot word by word, in   *)
(* the order of the fields, and the process may die at every step.          *)
(***************************************************************************)
EXTENDS Integers, Sequences

CONSTANTS Magic, Version,  \* the marker and the format version of meta.h
          Pgids,           \* page ids a transaction may use
          TxidMax          \* bounds the transactions

ASSUME MetaAssumption ==
    /\ Magic \in Nat \ {0}
    /\ Version \in Nat
    /\ Pgids \subseteq Nat /\ {2, 4} \subseteq Pgids
    /\ TxidMax \in Nat \ {0}

VARIABLES
    meta,     \* the Meta of the writing transaction
    rootpg,   \* meta.root->root.  The page stores the address root, not this id
    page,     \* the page that write() has filled
    file,     \* file[s]: the Meta in slot s of the file
    pc,       \* "idle", "filled", "written" or "down"
    base,     \* the Meta the database stands at: the last one stored, or the one
              \* that a restart has chosen
    whole     \* whole[s]: the Metas of write() whose checksum slot s may hold

vars == <<meta, rootpg, page, file, pc, base, whole>>

-----------------------------------------------------------------------------
\* The fields in the order in which they lie in memory; page_size, flags and the
\* address root go with version.
Fields == <<"magic", "version", "freelist", "pgid", "txid", "checksum">>

\* fnv-1a over the bytes before checksum, which is the last field.  Two Metas with
\* different fields have different sums, and no sum is zero, which is <<>> here.
sum64(m) == <<m.magic, m.version, m.freelist, m.pgid, m.txid>>

Meta == [magic : {0, Magic}, version : {0, Version}, freelist : Pgids \cup {0},
         pgid : Pgids \cup {0}, txid : 0..TxidMax, checksum : Seq(Nat)]

Zero == [magic |-> 0, version |-> 0, freelist |-> 0, pgid |-> 0, txid |-> 0,
         checksum |-> <<>>]

\* The two Metas of DB::init.
InitialMeta(i) ==
    LET m == [magic |-> Magic, version |-> Version, freelist |-> 2, pgid |-> 4,
              txid |-> i, checksum |-> <<>>]
    IN  [m EXCEPT !.checksum = sum64(m)]

\* A new file, which holds zeros, or one that has been set up.
Init ==
    /\ pc = "idle" /\ rootpg \in Pgids
    /\ page = [id |-> 0, meta |-> Zero]
    /\ \/ /\ file = [s \in 0..1 |-> Zero]
          /\ meta = [InitialMeta(0) EXCEPT !.checksum = <<>>]
          /\ base = Zero /\ whole = [s \in 0..1 |-> {}]
       \/ /\ file = [s \in 0..1 |-> InitialMeta(s)]
          /\ meta = InitialMeta(1)
          /\ base = InitialMeta(1) /\ whole = [s \in 0..1 |-> {InitialMeta(s)}]

TypeOK ==
    /\ meta \in Meta
    /\ rootpg \in Pgids
    /\ page \in [id : 0..1, meta : Meta]
    /\ file \in [0..1 -> Meta]
    /\ pc \in {"idle", "filled", "written", "down"}
    /\ base \in Meta
    /\ whole \in [0..1 -> SUBSET Meta]

\* m is on its way to slot s: the checksum there is its own or stays what it was.
Sent(s, m) ==
    [whole EXCEPT ![s] = {w \in @ : w.checksum = file[s].checksum} \cup {m}]

-----------------------------------------------------------------------------
(* Seeded faults: each replaces the definition it is named after in one run. *)

validate_NoChecksum(m) == m.magic = Magic /\ m.version = Version

Write_FirstSlot ==
    /\ pc = "filled" /\ rootpg < meta.pgid /\ meta.freelist < meta.pgid
    /\ meta' = [meta EXCEPT !.checksum = sum64(meta)]
    /\ page' = [id |-> 0, meta |-> meta']
    /\ whole' = Sent(page'.id, meta')
    /\ pc' = "written"
    /\ UNCHANGED <<rootpg, file, base>>

Write_OwnSlot ==
    /\ pc = "filled" /\ rootpg < meta.pgid /\ meta.freelist < meta.pgid
    /\ meta' = [meta EXCEPT !.checksum = sum64(meta)]
    /\ page' = [id |-> meta.txid, meta |-> meta']
    /\ whole' = Sent(page'.id, meta')
    /\ pc' = "written"
    /\ UNCHANGED <<rootpg, file, base>>

-----------------------------------------------------------------------------
\* Meta::validate throws or not.  A checksum of zero is not compared.
validate(m) ==
    /\ m.magic = Magic
    /\ m.version = Version
    /\ m.checksum = <<>> \/ m.checksum = sum64(m)

\* A write transaction takes the next id (incrementTxID) and sets what it has
\* allocated.
Begin(f, p, r) ==
    /\ pc = "idle" /\ meta.txid < TxidMax
    /\ meta' = [meta EXCEPT !.txid = @ + 1, !.freelist = f, !.pgid = p]
    /\ rootpg' = r
    /\ pc' = "filled"
    /\ UNCHANGED <<page, file, base, whole>>

\* Meta::write: the root bucket or the freelist is above the high water mark.
WriteAborts ==
    /\ pc = "filled" /\ (rootpg >= meta.pgid \/ meta.freelist >= meta.pgid)
    /\ pc' = "down"
    /\ UNCHANGED <<meta, rootpg, page, file, base, whole>>

\* Meta::write: the sum is taken first and copied with the rest.
Write ==
    /\ pc = "filled" /\ rootpg < meta.pgid /\ meta.freelist < meta.pgid
    /\ meta' = [meta EXCEPT !.checksum = sum64(meta)]
    /\ page' = [id |-> meta.txid % 2, meta |-> meta']
    /\ whole' = Sent(page'.id, meta')
    /\ pc' = "written"
    /\ UNCHANGED <<rootpg, file, base>>

-----------------------------------------------------------------------------
(* The file, and a process that dies and starts again.                     *)

Store ==
    /\ pc = "written"
    /\ file' = [file EXCEPT ![page.id] = page.meta]
    /\ base' = page.meta
    /\ pc' = "idle"
    /\ UNCHANGED <<meta, rootpg, page, whole>>

\* The process dies when k fields have reached the slot, or anywhere else.
Crash(k) ==
    /\ pc # "down"
    /\ pc = "written" \/ k = 0
    /\ file' = [file EXCEPT ![page.id] =
                  [f \in DOMAIN Zero |->
                     IF \E i \in 1..k : Fields[i] = f THEN page.meta[f] ELSE @[f]]]
    /\ pc' = "down"
    /\ UNCHANGED <<meta, rootpg, page, base, whole>>

Newest(s) ==
    /\ validate(file[s])
    /\ \A r \in 0..1 : validate(file[r]) => file[r].txid <= file[s].txid

\* A restart takes the accepted slot with the larger id.  The address in root means
\* nothing to the new process: what is read there is arbitrary.
Restart(s) ==
    /\ pc = "down"
    /\ Newest(s)
    /\ meta' = file[s] /\ base' = file[s]
    /\ rootpg' \in Pgids
    /\ pc' = "idle"
    /\ UNCHANGED <<page, file, whole>>

Next ==
    \/ \E f, p, r \in Pgids : Begin(f, p, r)
    \/ WriteAborts \/ Write \/ Store
    \/ \E k \in 0..Len(Fields) : Crash(k)
    \/ \E s \in 0..1 : Restart(s)

Spec == Init /\ [][Next]_vars

-----------------------------------------------------------------------------
(* Properties.                                                             *)

\* A slot that validate() accepts by its checksum is one that write() has put on a
\* page, whole and within the high water mark, however often a process has died
\* while the slot was being overwritten (meta.cpp:16, 22-28, 35-36).
AcceptedIsWhole ==
    \A s \in 0..1 :
        validate(file[s]) /\ file[s].checksum # <<>> => file[s] \in whole[s]

\* As soon as a whole Meta has been stored, a restart finds it or the one that was
\* being written: a write never goes to the slot the database stands at (txid % 2,
\* meta.cpp:32), and a half-written slot is not accepted or, in a new file where its
\* checksum is still zero, does not carry a newer id without the fields before it.
LastMetaSurvives ==
    base.checksum # <<>> =>
        \E s \in 0..1 : Newest(s) /\ sum64(file[s]) \in {sum64(base), sum64(page.meta)}
=============================================================================
