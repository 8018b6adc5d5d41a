--------------------------- MODULE MetaPageProofs ---------------------------
(***************************************************************************)
(* Proofs about MetaPage, for every number of transactions, writes, crashes *)
(* and restarts.                                                            *)
(***************************************************************************)
EXTENDS MetaPage, TLAPS

-----------------------------------------------------------------------------
(* The inductive invariant.                                                *)

\* What write() leaves on a page: its own sum, the marker and the version.
Sealed(m) == m.checksum = sum64(m) /\ m.magic = Magic /\ m.version = Version

\* Every Meta that a slot's checksum may come from is sealed and belongs to the slot.
WholeSealed ==
    \A s \in 0..1 : \A w \in whole[s] : Sealed(w) /\ w.txid % 2 = s

\* The id of the writing transaction is that of the Meta the database stands at, or
\* the next one.
MetaFollowsBase ==
    /\ pc = "idle" => meta.txid = base.txid
    /\ pc \in {"filled", "written"} => meta.txid = base.txid + 1
    /\ pc # "down" => meta.magic = Magic /\ meta.version = Version

\* Between write() and the file, the page is the Meta for the slot of its id.
PageIsMeta ==
    pc = "written" => /\ page.meta = meta
                      /\ page.id = meta.txid % 2
                      /\ meta \in whole[page.id]

\* The slot that was being written when the process died.
Torn(s) == pc = "down" /\ s = page.id

\* A checksum in the file is that of a Meta of write() which is not newer than the
\* one the database stands at, unless the last page has arrived completely.
ChecksumKnown ==
    \A s \in 0..1 : file[s].checksum # <<>> =>
        \E w \in whole[s] :
            /\ w.checksum = file[s].checksum
            /\ \/ w.txid <= base.txid
               \/ Torn(s) /\ w = page.meta /\ file[s] = page.meta

\* A slot without a checksum is not newer either, unless all the fields before the
\* checksum are those of the last page.
ZeroSumOld ==
    \A s \in 0..1 : file[s].checksum = <<>> =>
        \/ file[s].txid <= base.txid
        \/ Torn(s) /\ validate(file[s]) /\ sum64(file[s]) = sum64(page.meta)

\* A database that stands at a Meta without a checksum is new, or has a slot that is
\* accepted and not older.
UnsealedBase ==
    base.checksum = <<>> =>
        \/ base.txid = 0
        \/ \E s \in 0..1 : /\ validate(file[s])
                           /\ file[s].txid >= base.txid
                           /\ pc # "down" => file[s].checksum = <<>>

\* One that stands at a whole Meta has it in its slot, also while the other slot is
\* being written.
SealedBase ==
    base.checksum # <<>> => Sealed(base) /\ file[base.txid % 2] = base

MetaInv ==
    /\ TypeOK /\ WholeSealed /\ MetaFollowsBase /\ PageIsMeta
    /\ ChecksumKnown /\ ZeroSumOld /\ UnsealedBase /\ SealedBase

-----------------------------------------------------------------------------
(* The definitions.                                                        *)

\* A Meta is its six fields.
LEMMA MetaFields ==
  ASSUME NEW m \in Meta, NEW n \in Meta, m.checksum = n.checksum, sum64(m) = sum64(n)
  PROVE  m = n
  BY DEF Meta, sum64

LEMMA InitialMetaSealed ==
  \A i \in 0..1 : /\ InitialMeta(i) \in Meta
                  /\ Sealed(InitialMeta(i))
                  /\ InitialMeta(i).txid = i
                  /\ InitialMeta(i).checksum # <<>>
<1> SUFFICES ASSUME NEW i \in 0..1
             PROVE  /\ InitialMeta(i) \in Meta
                    /\ Sealed(InitialMeta(i))
                    /\ InitialMeta(i).txid = i
                    /\ InitialMeta(i).checksum # <<>>
  OBVIOUS
<1>1. InitialMeta(i) = [magic |-> Magic, version |-> Version, freelist |-> 2, pgid |-> 4,
                        txid |-> i, checksum |-> <<Magic, Version, 2, 4, i>>]
  BY DEF InitialMeta, sum64
<1>2. <<Magic, Version, 2, 4, i>> \in Seq(Nat)
  BY MetaAssumption
<1> QED
  BY <1>1, <1>2, MetaAssumption DEF Meta, Sealed, sum64

\* Sums are sequences of the right type, and none of them is zero.
LEMMA SumType == \A m \in Meta : sum64(m) \in Seq(Nat) /\ sum64(m) # <<>>
<1> SUFFICES ASSUME NEW m \in Meta PROVE sum64(m) \in Seq(Nat) /\ sum64(m) # <<>>
  OBVIOUS
<1>1. /\ m.magic \in {0, Magic} /\ m.version \in {0, Version}
      /\ m.freelist \in Pgids \cup {0} /\ m.pgid \in Pgids \cup {0}
      /\ m.txid \in 0..TxidMax
  BY DEF Meta
<1>2. m.magic \in Nat /\ m.version \in Nat
  BY <1>1, MetaAssumption
<1>3. m.freelist \in Nat /\ m.pgid \in Nat
  <2>1. \A x \in Pgids \cup {0} : x \in Nat
    BY MetaAssumption
  <2> QED
    BY <1>1, <2>1
<1>4. m.txid \in Nat
  BY <1>1, MetaAssumption
<1> QED
  BY <1>2, <1>3, <1>4 DEF sum64

\* The slot after a crash: the first k fields are those of the page.
LEMMA TornSlot ==
  ASSUME TypeOK, NEW k \in 0..Len(Fields), Crash(k)
  PROVE  LET o == file[page.id]
             p == page.meta
         IN  file' = [file EXCEPT ![page.id] =
                [magic    |-> IF k >= 1 THEN p.magic    ELSE o.magic,
                 version  |-> IF k >= 2 THEN p.version  ELSE o.version,
                 freelist |-> IF k >= 3 THEN p.freelist ELSE o.freelist,
                 pgid     |-> IF k >= 4 THEN p.pgid     ELSE o.pgid,
                 txid     |-> IF k >= 5 THEN p.txid     ELSE o.txid,
                 checksum |-> IF k >= 6 THEN p.checksum ELSE o.checksum]]
<1> DEFINE o == file[page.id]
           p == page.meta
           At(f, n) == (\E i \in 1..k : Fields[i] = f) <=> k >= n
           t == [f \in DOMAIN Zero |->
                   IF \E i \in 1..k : Fields[i] = f THEN p[f] ELSE o[f]]
<1>1. k \in 0..6
  BY DEF Fields
<1>2. /\ At("magic", 1) /\ At("version", 2) /\ At("freelist", 3)
      /\ At("pgid", 4) /\ At("txid", 5) /\ At("checksum", 6)
  BY <1>1 DEF Fields
<1>3. file' = [file EXCEPT ![page.id] = t]
  BY DEF Crash, TypeOK
<1>4. DOMAIN Zero = {"magic", "version", "freelist", "pgid", "txid", "checksum"}
  BY DEF Zero
<1> HIDE DEF At
<1>5. t = [magic    |-> IF k >= 1 THEN p.magic    ELSE o.magic,
           version  |-> IF k >= 2 THEN p.version  ELSE o.version,
           freelist |-> IF k >= 3 THEN p.freelist ELSE o.freelist,
           pgid     |-> IF k >= 4 THEN p.pgid     ELSE o.pgid,
           txid     |-> IF k >= 5 THEN p.txid     ELSE o.txid,
           checksum |-> IF k >= 6 THEN p.checksum ELSE o.checksum]
  BY <1>2, <1>4, SMTT(30) DEF At
<1> QED
  BY <1>3, <1>5

-----------------------------------------------------------------------------
(* The initial states and the actions.                                     *)

LEMMA InitMetaInv == Init => MetaInv
<1> SUFFICES ASSUME Init PROVE MetaInv
  OBVIOUS
<1>0. Zero \in Meta /\ Zero.txid = 0 /\ Zero.checksum = <<>>
  BY MetaAssumption DEF Meta, Zero
<1>1. CASE /\ file = [s \in 0..1 |-> Zero]
           /\ meta = [InitialMeta(0) EXCEPT !.checksum = <<>>]
           /\ base = Zero /\ whole = [s \in 0..1 |-> {}]
  <2>1. /\ meta \in Meta /\ meta.txid = 0
        /\ meta.magic = Magic /\ meta.version = Version
    <3>1. <<>> \in Seq(Nat)
      OBVIOUS
    <3>2. /\ InitialMeta(0) \in Meta /\ InitialMeta(0).txid = 0
          /\ InitialMeta(0).magic = Magic /\ InitialMeta(0).version = Version
      BY InitialMetaSealed DEF Sealed
    <3> QED
      BY <1>1, <3>1, <3>2 DEF Meta
  <2>2. TypeOK
    BY <1>0, <1>1, <2>1 DEF Init, TypeOK
  <2>3. WholeSealed /\ MetaFollowsBase /\ PageIsMeta
    BY <1>0, <1>1, <2>1 DEF Init, WholeSealed, MetaFollowsBase, PageIsMeta
  <2>4. ChecksumKnown /\ ZeroSumOld /\ UnsealedBase /\ SealedBase
    BY <1>0, <1>1 DEF ChecksumKnown, ZeroSumOld, UnsealedBase, SealedBase
  <2> QED
    BY <2>2, <2>3, <2>4 DEF MetaInv
<1>2. CASE /\ file = [s \in 0..1 |-> InitialMeta(s)]
           /\ meta = InitialMeta(1)
           /\ base = InitialMeta(1) /\ whole = [s \in 0..1 |-> {InitialMeta(s)}]
  <2>1. TypeOK
    BY <1>0, <1>2, InitialMetaSealed DEF Init, TypeOK
  <2>2. WholeSealed /\ MetaFollowsBase /\ PageIsMeta
    BY <1>2, InitialMetaSealed DEF Init, WholeSealed, MetaFollowsBase, PageIsMeta, Sealed
  <2>3. ChecksumKnown /\ ZeroSumOld /\ UnsealedBase /\ SealedBase
    BY <1>2, InitialMetaSealed DEF ChecksumKnown, ZeroSumOld, UnsealedBase, SealedBase
  <2> QED
    BY <2>1, <2>2, <2>3 DEF MetaInv
<1> QED
  BY <1>1, <1>2 DEF Init

\* The transaction that begins has the next id and touches neither page nor file.
LEMMA BeginStep ==
  ASSUME MetaInv, NEW f \in Pgids, NEW p \in Pgids, NEW r \in Pgids, Begin(f, p, r)
  PROVE  MetaInv'
<1>1. /\ meta' \in Meta /\ meta'.txid = meta.txid + 1
      /\ meta'.magic = meta.magic /\ meta'.version = meta.version
  <2>1. meta \in Meta /\ meta.txid < TxidMax /\ TxidMax \in Nat
    BY MetaAssumption DEF MetaInv, TypeOK, Begin
  <2>2. meta' = [meta EXCEPT !.txid = @ + 1, !.freelist = f, !.pgid = p]
    BY DEF Begin
  <2>3. f \in Pgids \cup {0} /\ p \in Pgids \cup {0}
    OBVIOUS
  <2>4. meta.txid \in Nat /\ meta.txid + 1 \in 0..TxidMax
    BY <2>1 DEF Meta
  <2> QED
    BY <2>1, <2>2, <2>3, <2>4 DEF Meta
<1>2. TypeOK'
  BY <1>1 DEF MetaInv, TypeOK, Begin
<1>3. WholeSealed' /\ MetaFollowsBase' /\ PageIsMeta'
  BY <1>1 DEF MetaInv, Begin, WholeSealed, MetaFollowsBase, PageIsMeta
<1>4. ChecksumKnown' /\ ZeroSumOld' /\ UnsealedBase' /\ SealedBase'
  BY DEF MetaInv, Begin, ChecksumKnown, ZeroSumOld, UnsealedBase, SealedBase, Torn
<1> QED
  BY <1>2, <1>3, <1>4 DEF MetaInv

\* write() aborts before it has filled anything.
LEMMA WriteAbortsStep == ASSUME MetaInv, WriteAborts PROVE MetaInv'
<1>1. TypeOK' /\ WholeSealed' /\ MetaFollowsBase' /\ PageIsMeta'
  BY DEF MetaInv, TypeOK, WriteAborts, WholeSealed, MetaFollowsBase, PageIsMeta
<1>2. ChecksumKnown' /\ ZeroSumOld' /\ UnsealedBase' /\ SealedBase'
  BY DEF MetaInv, WriteAborts, ChecksumKnown, ZeroSumOld, UnsealedBase, SealedBase, Torn
<1> QED
  BY <1>1, <1>2 DEF MetaInv

\* The page is sealed and is for the slot of its id; no checksum of the file loses the
\* Meta it came from.
LEMMA WriteStep == ASSUME MetaInv, Write PROVE MetaInv'
<1>1. /\ meta \in Meta /\ meta'.checksum = sum64(meta) /\ meta'.txid = meta.txid
      /\ meta'.magic = meta.magic /\ meta'.version = meta.version
      /\ sum64(meta') = sum64(meta) /\ meta' \in Meta
  BY SumType DEF MetaInv, TypeOK, Write, Meta, sum64
<1>2. meta.txid \in Nat /\ page'.id \in 0..1 /\ page'.id = meta'.txid % 2 /\ page'.meta = meta'
  BY <1>1 DEF Write, Meta
<1>3. Sealed(meta')
  BY <1>1 DEF MetaInv, Write, MetaFollowsBase, Sealed
<1>4. /\ whole' \in [0..1 -> SUBSET Meta]
      /\ \A s \in 0..1 : \A w \in whole'[s] :
            w \in whole[s] \/ (s = page'.id /\ w = meta')
      /\ \A s \in 0..1 : \A w \in whole[s] :
            w.checksum = file[s].checksum => w \in whole'[s]
      /\ meta' \in whole'[page'.id]
  BY <1>1, <1>2 DEF MetaInv, TypeOK, Write, Sent
<1>5. TypeOK'
  BY <1>1, <1>2, <1>4 DEF MetaInv, TypeOK, Write
<1>6. WholeSealed'
  BY <1>2, <1>3, <1>4 DEF MetaInv, WholeSealed, Sealed
<1>7. MetaFollowsBase' /\ PageIsMeta'
  BY <1>1, <1>2, <1>4 DEF MetaInv, Write, MetaFollowsBase, PageIsMeta
<1>8. ChecksumKnown'
  BY <1>4 DEF MetaInv, Write, ChecksumKnown, Torn
<1>9. ZeroSumOld' /\ UnsealedBase' /\ SealedBase'
  BY DEF MetaInv, Write, ZeroSumOld, UnsealedBase, SealedBase, Torn
<1> QED
  BY <1>5, <1>6, <1>7, <1>8, <1>9 DEF MetaInv

\* The Metas of the state, with the facts about them that the arithmetic needs.
LEMMA Ids ==
  ASSUME TypeOK
  PROVE  /\ meta.txid \in Nat /\ base.txid \in Nat /\ page.meta.txid \in Nat
         /\ \A s \in 0..1 : file[s].txid \in Nat
         /\ \A s \in 0..1 : \A w \in whole[s] : w \in Meta /\ w.txid \in Nat
         /\ page.id \in 0..1 /\ page.meta \in Meta
<1>1. \A m \in Meta : m.txid \in Nat
  BY DEF Meta
<1> QED
  BY <1>1 DEF TypeOK

\* The page that is complete becomes the Meta the database stands at, in the slot
\* the former one is not in.
LEMMA StoreStep == ASSUME MetaInv, Store PROVE MetaInv'
<1>1. /\ page.meta = meta /\ page.id = meta.txid % 2 /\ meta \in whole[page.id]
      /\ meta.txid = base.txid + 1 /\ Sealed(meta)
  BY Ids DEF MetaInv, Store, PageIsMeta, MetaFollowsBase, WholeSealed
<1>2. /\ page.id \in 0..1 /\ meta \in Meta /\ sum64(meta) # <<>>
      /\ meta.txid \in Nat /\ base.txid \in Nat
  BY Ids, SumType DEF MetaInv, TypeOK
<1>3. /\ file' = [file EXCEPT ![page.id] = meta] /\ base' = meta /\ pc' = "idle"
      /\ UNCHANGED <<meta, rootpg, page, whole>> /\ pc = "written"
  BY <1>1 DEF Store
<1>4. TypeOK'
  BY <1>2, <1>3 DEF MetaInv, TypeOK
<1>5. WholeSealed' /\ MetaFollowsBase' /\ PageIsMeta'
  BY <1>1, <1>3 DEF MetaInv, WholeSealed, MetaFollowsBase, PageIsMeta, Sealed
<1>6. ChecksumKnown'
  <2> SUFFICES ASSUME NEW s \in 0..1, file'[s].checksum # <<>>
               PROVE  \E w \in whole[s] : /\ w.checksum = file'[s].checksum
                                          /\ w.txid <= meta.txid
    BY <1>3 DEF ChecksumKnown
  <2>1. CASE s = page.id
    BY <2>1, <1>1, <1>2, <1>3 DEF MetaInv, TypeOK
  <2>2. CASE s # page.id
    <3>1. file'[s] = file[s]
      BY <2>2, <1>3 DEF MetaInv, TypeOK
    <3>2. PICK w \in whole[s] : w.checksum = file[s].checksum /\ w.txid <= base.txid
      BY <3>1, <1>3 DEF MetaInv, ChecksumKnown, Torn
    <3> QED
      BY <3>1, <3>2, <1>1, <1>2, Ids DEF MetaInv
  <2> QED
    BY <2>1, <2>2
<1>7. ZeroSumOld'
  <2> SUFFICES ASSUME NEW s \in 0..1, file'[s].checksum = <<>>
               PROVE  file'[s].txid <= meta.txid
    BY <1>3 DEF ZeroSumOld
  <2>1. CASE s = page.id
    BY <2>1, <1>1, <1>2, <1>3 DEF MetaInv, TypeOK
  <2>2. CASE s # page.id
    <3>1. file'[s] = file[s]
      BY <2>2, <1>3 DEF MetaInv, TypeOK
    <3>2. file[s].txid <= base.txid /\ file[s].txid \in Nat
      BY <3>1, <1>3, Ids DEF MetaInv, ZeroSumOld, Torn
    <3> QED
      BY <3>1, <3>2, <1>1, <1>2
  <2> QED
    BY <2>1, <2>2
<1>8. UnsealedBase'
  BY <1>1, <1>2, <1>3 DEF UnsealedBase, Sealed
<1>9. SealedBase'
  BY <1>1, <1>2, <1>3 DEF MetaInv, TypeOK, SealedBase, Sealed
<1> QED
  BY <1>4, <1>5, <1>6, <1>7, <1>8, <1>9 DEF MetaInv

\* What a crash leaves in the slot: nothing of the page unless it was on its way, and
\* then its first k fields.
LEMMA TornFields ==
  ASSUME MetaInv, NEW k \in 0..Len(Fields), Crash(k)
  PROVE  /\ \A s \in 0..1 : s # page.id => file'[s] = file[s]
         /\ file'[page.id] \in Meta
         /\ k < 6 => file'[page.id].checksum = file[page.id].checksum
         /\ k < 5 => file'[page.id].txid = file[page.id].txid
         /\ k >= 5 => sum64(file'[page.id]) = sum64(page.meta)
         /\ k >= 6 => file'[page.id] = page.meta
         /\ validate(file[page.id]) /\ pc = "written" =>
               file'[page.id].magic = Magic /\ file'[page.id].version = Version
         /\ k = 0 => file' = file
<1> DEFINE o == file[page.id]
           p == page.meta
           t == [magic    |-> IF k >= 1 THEN p.magic    ELSE o.magic,
                 version  |-> IF k >= 2 THEN p.version  ELSE o.version,
                 freelist |-> IF k >= 3 THEN p.freelist ELSE o.freelist,
                 pgid     |-> IF k >= 4 THEN p.pgid     ELSE o.pgid,
                 txid     |-> IF k >= 5 THEN p.txid     ELSE o.txid,
                 checksum |-> IF k >= 6 THEN p.checksum ELSE o.checksum]
<1>1. k \in 0..6 /\ page.id \in 0..1 /\ o \in Meta /\ p \in Meta /\ file \in [0..1 -> Meta]
  BY Ids DEF MetaInv, TypeOK, Fields
<1>2. file' = [file EXCEPT ![page.id] = t]
  BY TornSlot DEF MetaInv
<1>3. t \in Meta
  BY <1>1 DEF Meta
<1>4. /\ k < 6 => t.checksum = o.checksum
      /\ k < 5 => t.txid = o.txid
      /\ k >= 5 => sum64(t) = sum64(p)
  BY <1>1 DEF sum64
<1>5. k >= 6 => t = p
  BY <1>1, SMTT(30) DEF Meta
<1>6. k = 0 => t = o
  BY <1>1 DEF Meta
<1>7. validate(o) /\ pc = "written" => t.magic = Magic /\ t.version = Version
  BY <1>1 DEF MetaInv, validate, PageIsMeta, MetaFollowsBase
<1> HIDE DEF t
<1>8. file'[page.id] = t /\ \A s \in 0..1 : s # page.id => file'[s] = file[s]
  BY <1>1, <1>2
<1>9. k = 0 => file' = file
  BY <1>1, <1>2, <1>6
<1> QED
  BY <1>3, <1>4, <1>5, <1>7, <1>8, <1>9

\* The slot that the database stands at is not the one that is being written.
LEMMA CrashStep ==
  ASSUME MetaInv, NEW k \in 0..Len(Fields), Crash(k) PROVE MetaInv'
<1> DEFINE t == file'[page.id]
<1>1. /\ pc # "down" /\ pc' = "down" /\ UNCHANGED <<meta, rootpg, page, base, whole>>
      /\ pc = "written" \/ k = 0
  BY DEF Crash
<1>2. k \in 0..6 /\ page.id \in 0..1 /\ page.meta \in Meta
  BY Ids DEF MetaInv, Fields
<1>3. TypeOK'
  <2>1. file' \in [0..1 -> Meta]
    <3>1. DOMAIN file' = 0..1 /\ file' = [s \in 0..1 |-> file'[s]]
      BY DEF Crash, MetaInv, TypeOK
    <3>2. \A s \in 0..1 : file'[s] \in Meta
      BY TornFields DEF MetaInv, TypeOK
    <3> QED
      BY <3>1, <3>2
  <2> QED
    BY <2>1, <1>1 DEF MetaInv, TypeOK
<1>4. WholeSealed' /\ MetaFollowsBase' /\ PageIsMeta'
  BY <1>1 DEF MetaInv, WholeSealed, MetaFollowsBase, PageIsMeta
<1>5. CASE k = 0
  <2>1. file' = file
    BY <1>5, TornFields
  <2> QED
    BY <2>1, <1>1, <1>3, <1>4
       DEF MetaInv, ChecksumKnown, ZeroSumOld, UnsealedBase, SealedBase, Torn
<1>6. CASE k >= 1
  <2>1. /\ pc = "written" /\ page.meta = meta /\ page.id = meta.txid % 2
        /\ meta \in whole[page.id] /\ Sealed(meta) /\ meta.txid = base.txid + 1
    BY <1>1, <1>2, <1>6 DEF MetaInv, PageIsMeta, MetaFollowsBase, WholeSealed
  <2>2. base.txid \in Nat /\ meta.txid \in Nat /\ sum64(meta) # <<>>
    BY Ids, SumType DEF MetaInv, TypeOK
  <2>3. \A s \in 0..1 : s # page.id => file'[s] = file[s]
    BY TornFields
  <2>4. k >= 6 => t = meta
    BY <2>1, TornFields
  <2>5. k < 6 => t.checksum = file[page.id].checksum
    BY TornFields
  <2>6. ChecksumKnown'
    <3> SUFFICES ASSUME NEW s \in 0..1, file'[s].checksum # <<>>
                 PROVE  \E w \in whole[s] :
                          /\ w.checksum = file'[s].checksum
                          /\ \/ w.txid <= base.txid
                             \/ s = page.id /\ w = page.meta /\ file'[s] = page.meta
      BY <1>1 DEF ChecksumKnown, Torn
    <3>1. CASE s = page.id /\ k >= 6
      BY <3>1, <2>1, <2>4
    <3>2. CASE s # page.id \/ k < 6
      <4>1. file'[s].checksum = file[s].checksum
        BY <3>2, <2>3, <2>5
      <4> QED
        BY <4>1, <1>1 DEF MetaInv, ChecksumKnown, Torn
    <3> QED
      BY <1>2, <3>1, <3>2
  <2>7. ZeroSumOld'
    <3> SUFFICES ASSUME NEW s \in 0..1, file'[s].checksum = <<>>
                 PROVE  \/ file'[s].txid <= base.txid
                        \/ /\ s = page.id /\ validate(file'[s])
                           /\ sum64(file'[s]) = sum64(page.meta)
      BY <1>1 DEF ZeroSumOld, Torn, validate
    <3>1. CASE s # page.id
      BY <3>1, <2>3, <1>1 DEF MetaInv, ZeroSumOld, Torn
    <3>2. CASE s = page.id /\ k < 5
      <4>1. file'[s].txid = file[s].txid /\ file[s].checksum = <<>>
        BY <1>2, <3>2, <2>5, TornFields
      <4> QED
        BY <4>1, <1>1 DEF MetaInv, ZeroSumOld, Torn
    <3>3. CASE s = page.id /\ k >= 5
      <4>1. sum64(file'[s]) = sum64(meta)
        BY <3>3, <2>1, TornFields
      <4>2. file'[s].magic = Magic /\ file'[s].version = Version
        BY <4>1, <2>1 DEF sum64, Sealed
      <4> QED
        BY <3>3, <4>1, <4>2, <2>1 DEF validate
    <3> QED
      BY <1>2, <3>1, <3>2, <3>3
  <2>8. UnsealedBase'
    <3> SUFFICES ASSUME base.checksum = <<>>, base.txid # 0
                 PROVE  \E s \in 0..1 : validate(file'[s]) /\ file'[s].txid >= base.txid
      BY <1>1 DEF UnsealedBase, validate
    <3>1. PICK s \in 0..1 : /\ validate(file[s]) /\ file[s].txid >= base.txid
                            /\ file[s].checksum = <<>>
      BY <1>1 DEF MetaInv, UnsealedBase
    <3>2. CASE s # page.id
      BY <3>1, <3>2, <2>3
    <3>3. CASE s = page.id
      <4>1. t.magic = Magic /\ t.version = Version
        BY <3>1, <3>3, <2>1, TornFields
      <4>2. t.checksum = <<>> \/ t.checksum = sum64(t)
        <5>1. k < 6 => t.checksum = <<>>
          BY <3>1, <3>3, <2>5
        <5>2. k >= 6 => t.checksum = sum64(t)
          BY <2>1, <2>4 DEF Sealed
        <5> QED
          BY <1>2, <5>1, <5>2
      <4>3. t.txid >= base.txid
        <5>1. CASE k < 5
          BY <5>1, <3>1, <3>3, TornFields
        <5>2. CASE k >= 5
          <6>1. sum64(t) = sum64(meta)
            BY <5>2, <2>1, TornFields
          <6>2. t.txid = meta.txid
            BY <6>1 DEF sum64
          <6> QED
            BY <6>2, <2>1, <2>2
        <5> QED
          BY <1>2, <5>1, <5>2
      <4> QED
        BY <3>3, <4>1, <4>2, <4>3 DEF validate
    <3> QED
      BY <3>2, <3>3
  <2>9. SealedBase'
    <3>1. base.txid % 2 \in 0..1 /\ base.txid % 2 # page.id
      BY <2>1, <2>2
    <3> QED
      BY <3>1, <2>3, <1>1 DEF MetaInv, SealedBase, Sealed
  <2> QED
    BY <1>3, <1>4, <2>6, <2>7, <2>8, <2>9 DEF MetaInv
<1> QED
  BY <1>2, <1>5, <1>6

-----------------------------------------------------------------------------
(* What the invariant says of a slot that is read back.                    *)

\* A checksum that is right belongs to one Meta of write() only, and that is the slot.
LEMMA MetaInvWhole == MetaInv => AcceptedIsWhole
<1> SUFFICES ASSUME MetaInv, NEW s \in 0..1, validate(file[s]), file[s].checksum # <<>>
             PROVE  file[s] \in whole[s]
  BY DEF AcceptedIsWhole
<1>1. PICK w \in whole[s] : w.checksum = file[s].checksum
  BY DEF MetaInv, ChecksumKnown
<1>2. w.checksum = sum64(w) /\ file[s].checksum = sum64(file[s])
  BY <1>1 DEF MetaInv, WholeSealed, Sealed, validate
<1>3. w = file[s]
  BY <1>1, <1>2, MetaFields DEF MetaInv, TypeOK
<1> QED
  BY <1>3

\* A slot that is accepted is not newer than the Meta the database stands at, unless
\* it has all the fields of the page that was on its way.
LEMMA AcceptedNotNewer ==
  ASSUME MetaInv, NEW s \in 0..1, validate(file[s])
  PROVE  file[s].txid <= base.txid \/ (Torn(s) /\ sum64(file[s]) = sum64(page.meta))
<1>1. CASE file[s].checksum = <<>>
  BY <1>1 DEF MetaInv, ZeroSumOld
<1>2. CASE file[s].checksum # <<>>
  <2>1. PICK w \in whole[s] : /\ w.checksum = file[s].checksum
                              /\ w.txid <= base.txid \/ (Torn(s) /\ file[s] = page.meta)
    BY <1>2 DEF MetaInv, ChecksumKnown
  <2>2. w.checksum = sum64(w) /\ file[s].checksum = sum64(file[s])
    BY <1>2, <2>1 DEF MetaInv, WholeSealed, Sealed, validate
  <2>3. w = file[s]
    BY <2>1, <2>2, MetaFields DEF MetaInv, TypeOK
  <2>4. file[s] = page.meta => sum64(file[s]) = sum64(page.meta)
    OBVIOUS
  <2> QED
    BY <2>1, <2>3, <2>4
<1> QED
  BY <1>1, <1>2

\* The slot of a whole Meta is accepted.
LEMMA BaseAccepted ==
  ASSUME MetaInv, base.checksum # <<>>
  PROVE  LET b == base.txid % 2
         IN  b \in 0..1 /\ validate(file[b]) /\ file[b] = base
<1>1. base.txid % 2 \in 0..1
  BY Ids DEF MetaInv
<1> QED
  BY <1>1 DEF MetaInv, SealedBase, Sealed, validate

\* A restart finds the Meta the database stands at, or the one that was on its way.
LEMMA MetaInvSurvives == MetaInv => LastMetaSurvives
<1> SUFFICES ASSUME MetaInv, base.checksum # <<>>
             PROVE  \E s \in 0..1 : /\ Newest(s)
                                    /\ sum64(file[s]) \in {sum64(base), sum64(page.meta)}
  BY DEF LastMetaSurvives
<1> DEFINE b == base.txid % 2
<1>1. b \in 0..1 /\ validate(file[b]) /\ file[b] = base
  BY BaseAccepted
<1>2. CASE \A r \in 0..1 : validate(file[r]) => file[r].txid <= base.txid
  <2>1. Newest(b)
    BY <1>1, <1>2 DEF Newest
  <2> QED
    BY <1>1, <2>1
<1>3. CASE \E r \in 0..1 : validate(file[r]) /\ ~(file[r].txid <= base.txid)
  <2>1. PICK r \in 0..1 : validate(file[r]) /\ ~(file[r].txid <= base.txid)
    BY <1>3
  <2>2. sum64(file[r]) = sum64(page.meta)
    BY <2>1, AcceptedNotNewer
  <2>3. r # b /\ \A s \in 0..1 : s = r \/ s = b
    BY <1>1, <2>1, Ids DEF MetaInv
  <2>4. base.txid <= file[r].txid
    BY <2>1, Ids DEF MetaInv
  <2>5. Newest(r)
    BY <1>1, <2>1, <2>3, <2>4, Ids DEF Newest, MetaInv
  <2> QED
    BY <2>2, <2>5
<1> QED
  BY <1>2, <1>3

\* A restart stands at no older Meta than the process before it.
LEMMA RestartNotOlder ==
  ASSUME MetaInv, NEW s \in 0..1, Restart(s)
  PROVE  base.txid <= file[s].txid
<1>1. /\ \A r \in 0..1 : validate(file[r]) => file[r].txid <= file[s].txid
      /\ \A r \in 0..1 : file[r].txid \in Nat
      /\ base.txid \in Nat
  BY Ids DEF MetaInv, Restart, Newest
<1>2. CASE base.checksum # <<>>
  BY <1>1, <1>2, BaseAccepted
<1>3. CASE base.checksum = <<>>
  <2>1. CASE base.txid = 0
    BY <1>1, <2>1
  <2>2. CASE \E r \in 0..1 : validate(file[r]) /\ file[r].txid >= base.txid
    BY <1>1, <2>2
  <2> QED
    BY <1>3, <2>1, <2>2 DEF MetaInv, UnsealedBase
<1> QED
  BY <1>2, <1>3

\* The new process stands at the slot it has chosen, and nothing in the file is newer.
LEMMA RestartStep == ASSUME MetaInv, NEW s \in 0..1, Restart(s) PROVE MetaInv'
<1>1. /\ pc = "down" /\ pc' = "idle" /\ meta' = file[s] /\ base' = file[s]
      /\ rootpg' \in Pgids /\ UNCHANGED <<page, file, whole>>
      /\ validate(file[s])
      /\ \A r \in 0..1 : validate(file[r]) => file[r].txid <= file[s].txid
  BY DEF Restart, Newest
<1>2. base.txid <= file[s].txid /\ base.txid \in Nat /\ file[s].txid \in Nat
  BY RestartNotOlder, Ids DEF MetaInv
<1>3. TypeOK'
  BY <1>1 DEF MetaInv, TypeOK
<1>4. WholeSealed' /\ MetaFollowsBase' /\ PageIsMeta'
  BY <1>1 DEF MetaInv, WholeSealed, MetaFollowsBase, PageIsMeta, validate
<1>5. ChecksumKnown'
  <2> SUFFICES ASSUME NEW r \in 0..1, file[r].checksum # <<>>
               PROVE  \E w \in whole[r] : /\ w.checksum = file[r].checksum
                                          /\ w.txid <= file[s].txid
    BY <1>1 DEF ChecksumKnown
  <2>1. PICK w \in whole[r] : /\ w.checksum = file[r].checksum
                              /\ w.txid <= base.txid \/ file[r] = w
    BY DEF MetaInv, ChecksumKnown
  <2>2. w.txid \in Nat /\ Sealed(w)
    BY Ids DEF MetaInv, WholeSealed
  <2>3. CASE w.txid <= base.txid
    BY <1>2, <2>1, <2>2, <2>3
  <2>4. CASE file[r] = w
    BY <1>1, <2>1, <2>2, <2>4 DEF Sealed, validate
  <2> QED
    BY <2>1, <2>3, <2>4
<1>6. ZeroSumOld'
  <2> SUFFICES ASSUME NEW r \in 0..1, file[r].checksum = <<>>
               PROVE  file[r].txid <= file[s].txid
    BY <1>1 DEF ZeroSumOld
  <2>1. file[r].txid <= base.txid \/ validate(file[r])
    BY DEF MetaInv, ZeroSumOld
  <2> QED
    BY <1>1, <1>2, <2>1, Ids DEF MetaInv
<1>7. UnsealedBase'
  BY <1>1, <1>2 DEF UnsealedBase, validate
<1>8. SealedBase'
  <2> SUFFICES ASSUME file[s].checksum # <<>>
               PROVE  Sealed(file[s]) /\ file[file[s].txid % 2] = file[s]
    BY <1>1 DEF SealedBase, Sealed
  <2>1. file[s] \in whole[s]
    BY <1>1, MetaInvWhole DEF AcceptedIsWhole
  <2> QED
    BY <2>1 DEF MetaInv, WholeSealed
<1> QED
  BY <1>3, <1>4, <1>5, <1>6, <1>7, <1>8 DEF MetaInv

-----------------------------------------------------------------------------
(* The theorems.                                                           *)

\* Through every sequence of writes, torn writes, crashes and restarts, the file holds
\* only what the invariant allows.
THEOREM MetaInvariant == Spec => []MetaInv
<1>1. MetaInv /\ [Next]_vars => MetaInv'
  <2> SUFFICES ASSUME MetaInv, [Next]_vars PROVE MetaInv'
    OBVIOUS
  <2>1. CASE UNCHANGED vars
    <3>1. TypeOK' /\ WholeSealed' /\ MetaFollowsBase' /\ PageIsMeta'
      BY <2>1 DEF vars, MetaInv, TypeOK, WholeSealed, MetaFollowsBase, PageIsMeta
    <3>2. ChecksumKnown' /\ ZeroSumOld' /\ UnsealedBase' /\ SealedBase'
      BY <2>1 DEF vars, MetaInv, ChecksumKnown, ZeroSumOld, UnsealedBase, SealedBase, Torn
    <3> QED
      BY <3>1, <3>2 DEF MetaInv
  <2> QED
    BY <2>1, BeginStep, WriteAbortsStep, WriteStep, StoreStep, CrashStep, RestartStep
       DEF Next
<1> QED
  BY InitMetaInv, <1>1, PTL DEF Spec

\* A Meta keeps its type in memory, on the page and, torn or not, in the file.
THEOREM MetaTypes == Spec => []TypeOK
<1>1. MetaInv => TypeOK
  BY DEF MetaInv
<1> QED
  BY MetaInvariant, <1>1, PTL

\* What validate() accepts by its checksum is a Meta that write() has put on a page, all
\* of it (meta.cpp:16, 35-36).
THEOREM AcceptedMetaIsWhole == Spec => []AcceptedIsWhole
  BY MetaInvariant, MetaInvWhole, PTL

\* A database that has stored a whole Meta is found by every restart (meta.cpp:32).
THEOREM StoredMetaSurvives == Spec => []LastMetaSurvives
  BY MetaInvariant, MetaInvSurvives, PTL
=============================================================================
