---------------------------- MODULE DbOpenProofs ----------------------------
(***************************************************************************)
(* Proofs about DbOpen, for every number of DB objects and processes and    *)
(* every choice of timeouts.                                                *)
(***************************************************************************)
EXTENDS DbOpen, TLAPS

\* The lock on a descriptor is the one its object asks for: read_only_, which
\* decides, is never assigned once flock runs.
HeldIsFlag == \A o \in Objects : held[o] # "none" => held[o] = Flag(o)

OpenInv == TypeOK /\ HeldIsFlag /\ HolderExcludes

\* The objects start without a lock.
LEMMA InitOpenInv == Init => OpenInv
<1> SUFFICES ASSUME Init PROVE OpenInv
  OBVIOUS
<1>1. TypeOK
  BY OpenAssumption DEF Init, TypeOK, PCs, Modes
<1>2. \A o \in Objects : held[o] = "none"
  BY DEF Init
<1> QED
  BY <1>1, <1>2 DEF OpenInv, HeldIsFlag, HolderExcludes

\* A step of one constructor other than Granted changes its pc only.
LEMMA PcStep ==
  ASSUME TypeOK, HeldIsFlag, HolderExcludes,
         NEW o \in Objects, NEW to \in PCs,
         pc' = [pc EXCEPT ![o] = to],
         UNCHANGED <<ReadOnly, read_only, held, elapsed>>
  PROVE  OpenInv'
<1>1. TypeOK'
  BY DEF TypeOK
<1>2. HeldIsFlag' /\ HolderExcludes'
  BY DEF HeldIsFlag, HolderExcludes, Flag
<1> QED
  BY <1>1, <1>2 DEF OpenInv

\* ::flock grants LOCK_EX only if nobody else has a lock, and LOCK_SH only if
\* nobody has LOCK_EX.
LEMMA GrantedStep ==
  ASSUME OpenInv, NEW o \in Objects, Granted(o) PROVE OpenInv'
<1>1. TypeOK'
  BY DEF OpenInv, Granted, TypeOK, Flag, Modes, PCs
<1>2. /\ UNCHANGED read_only
      /\ held' = [held EXCEPT ![o] = Flag(o)]
      /\ held \in [Objects -> Modes]
  BY DEF OpenInv, Granted, TypeOK
<1>3. HeldIsFlag'
  BY <1>2 DEF OpenInv, HeldIsFlag, Flag
<1>4. \A q \in Objects \ {o} :
         held[q] # "none" => read_only[o] /\ read_only[q]
  BY DEF OpenInv, HeldIsFlag, Granted, Grantable, Flag
<1>5. HolderExcludes'
  BY <1>2, <1>4 DEF OpenInv, HolderExcludes
<1> QED
  BY <1>1, <1>3, <1>5 DEF OpenInv

\* The clock moves and nobody's lock does.
LEMMA TickStep == ASSUME OpenInv, Tick PROVE OpenInv'
<1>1. \A o \in Objects : Passed(o) \in Nat
  BY DEF OpenInv, TypeOK, Passed
<1>2. TypeOK'
  <2>1. elapsed' \in [Objects -> Nat]
    BY <1>1 DEF OpenInv, TypeOK, Tick
  <2>2. pc' \in [Objects -> PCs]
    BY DEF OpenInv, TypeOK, Tick, PCs
  <2> QED
    BY <2>1, <2>2 DEF OpenInv, TypeOK, Tick
<1>3. HeldIsFlag' /\ HolderExcludes'
  BY DEF OpenInv, Tick, HeldIsFlag, HolderExcludes, Flag
<1> QED
  BY <1>2, <1>3 DEF OpenInv

\* A process that exits takes locks away and gives none.
LEMMA ExitStep == ASSUME OpenInv, NEW p \in Processes, Exit(p) PROVE OpenInv'
<1>1. TypeOK'
  <2>1. pc' \in [Objects -> PCs] /\ held' \in [Objects -> Modes]
    BY DEF OpenInv, TypeOK, Exit, PCs, Modes
  <2> QED
    BY <2>1 DEF OpenInv, TypeOK, Exit
<1>2. UNCHANGED read_only /\ \A o \in Objects : held'[o] = "none" \/ held'[o] = held[o]
  BY DEF Exit
<1>3. HeldIsFlag' /\ HolderExcludes'
  BY <1>2 DEF OpenInv, HeldIsFlag, HolderExcludes, Flag
<1> QED
  BY <1>1, <1>3 DEF OpenInv

\* In every state of every number of constructors, the locks that are held are
\* those that flock asked for, and an exclusive one is alone.
THEOREM OpenInvariant == Spec => []OpenInv
<1>1. OpenInv /\ [Next]_vars => OpenInv'
  <2> SUFFICES ASSUME OpenInv, [Next]_vars PROVE OpenInv'
    OBVIOUS
  <2>1. CASE UNCHANGED vars
    BY <2>1 DEF vars, OpenInv, TypeOK, HeldIsFlag, HolderExcludes, Flag
  <2>2. ASSUME NEW o \in Objects, Open(o) \/ OpenFails(o) PROVE OpenInv'
    BY <2>2, PcStep DEF OpenInv, Open, OpenFails, PCs
  <2>3. ASSUME NEW o \in Objects, TimesOut(o) \/ NotExpired(o) \/ Wake(o) PROVE OpenInv'
    BY <2>3, PcStep DEF OpenInv, TimesOut, NotExpired, Wake, PCs
  <2>4. ASSUME NEW o \in Objects, CallFails(o) PROVE OpenInv'
    BY <2>4, PcStep DEF OpenInv, CallFails, PCs
  <2> QED
    BY <2>1, <2>2, <2>3, <2>4, GrantedStep, TickStep, ExitStep DEF Next, Run
<1> QED
  BY InitOpenInv, <1>1, PTL DEF Spec

\* The state of a constructor keeps its type, and the clock that flock compares with
\* the timeout never goes below its start (db.cpp:254-272).
THEOREM OpenTypes == Spec => []TypeOK
<1>1. OpenInv => TypeOK
  BY DEF OpenInv
<1> QED
  BY OpenInvariant, <1>1, PTL

\* An object that asks for LOCK_EX has the file for itself while it has the lock,
\* whatever constructors fail, time out or die around it (db.cpp:53-66).
THEOREM ExclusiveExcludes == Spec => []HolderExcludes
<1>1. OpenInv => HolderExcludes
  BY DEF OpenInv
<1> QED
  BY OpenInvariant, <1>1, PTL
=============================================================================
