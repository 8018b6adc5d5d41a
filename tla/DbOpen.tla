------------------------------- MODULE DbOpen -------------------------------
(***************************************************************************)
(* The constructor of DB up to the file lock (db.cpp:26-66) and DB::flock   *)
(* (db.cpp:254-272), for several DB objects on one file.  flock loops: it   *)
(* looks at the clock, calls ::flock, which waits until the lock is granted *)
(* because LOCK_NB is not given, sleeps, and starts over; the loop is left  *)
(* by an exception only.  The constructor answers an exception with close,  *)
(* which returns at once because opened_ is false, so that the descriptor   *)
(* and a lock on it stay until the process exits.                           *)
(*                                                                          *)
(* An object is an open file description, the unit of ::flock.  A tick of   *)
(* the clock is the 50 ms that the loop sleeps.                             *)
(***************************************************************************)
EXTENDS Integers, FiniteSets

CONSTANTS Objects,    \* the DB objects
          Processes,
          Process,    \* the process of an object
          Timeout     \* Option.Timeout of an object, in ticks

ASSUME OpenAssumption ==
    /\ Process \in [Objects -> Processes]
    /\ Timeout \in [Objects -> Nat]

VARIABLES ReadOnly,   \* Option.ReadOnly of an object
          pc,         \* where the constructor is
          read_only,  \* DB::read_only_
          held,       \* the lock on the object's descriptor
          elapsed     \* diff of flock: ticks since its start

vars == <<ReadOnly, pc, read_only, held, elapsed>>

PCs == {"start", "check", "call", "sleep", "wake", "failed", "dead"}
Modes == {"none", "LOCK_EX", "LOCK_SH"}

InFlock(o) == pc[o] \in {"check", "call", "sleep", "wake"}

TypeOK ==
    /\ ReadOnly \in [Objects -> BOOLEAN]
    /\ pc \in [Objects -> PCs]
    /\ read_only \in [Objects -> BOOLEAN]
    /\ held \in [Objects -> Modes]
    /\ elapsed \in [Objects -> Nat]

\* read_only_ is set for Option.ReadOnly and otherwise never initialised.
Init ==
    /\ ReadOnly \in [Objects -> BOOLEAN]
    /\ pc = [o \in Objects |-> "start"]
    /\ read_only \in {r \in [Objects -> BOOLEAN] : \A o \in Objects : ReadOnly[o] => r[o]}
    /\ held = [o \in Objects |-> "none"]
    /\ elapsed = [o \in Objects |-> 0]

-----------------------------------------------------------------------------
(* Seeded faults: each replaces the definition it is named after in one run. *)

Flag_Inverted(o) == IF read_only[o] THEN "LOCK_EX" ELSE "LOCK_SH"

Flag_AlwaysExclusive(o) == "LOCK_EX"

Wake_ResetsStart(o) ==
    /\ pc[o] = "wake"
    /\ elapsed' = [elapsed EXCEPT ![o] = 0]
    /\ pc' = [pc EXCEPT ![o] = "check"]
    /\ UNCHANGED <<ReadOnly, read_only, held>>

Passed_Swapped(o) == elapsed[o] - 1

-----------------------------------------------------------------------------
(* The steps of the constructor.                                           *)

\* The file is opened, and flock reads the clock for the first time.
Open(o) ==
    /\ pc[o] = "start"
    /\ pc' = [pc EXCEPT ![o] = "check"]
    /\ UNCHANGED <<ReadOnly, read_only, held, elapsed>>

\* The file cannot be opened: the constructor throws.
OpenFails(o) ==
    /\ pc[o] = "start"
    /\ pc' = [pc EXCEPT ![o] = "failed"]
    /\ UNCHANGED <<ReadOnly, read_only, held, elapsed>>

Expired(o) == Timeout[o] > 0 /\ elapsed[o] > Timeout[o]

\* "flock timeout": flock throws, close does nothing, the constructor throws.
TimesOut(o) ==
    /\ pc[o] = "check" /\ Expired(o)
    /\ pc' = [pc EXCEPT ![o] = "failed"]
    /\ UNCHANGED <<ReadOnly, read_only, held, elapsed>>

NotExpired(o) ==
    /\ pc[o] = "check" /\ ~Expired(o)
    /\ pc' = [pc EXCEPT ![o] = "call"]
    /\ UNCHANGED <<ReadOnly, read_only, held, elapsed>>

Flag(o) == IF ~read_only[o] THEN "LOCK_EX" ELSE "LOCK_SH"

\* What ::flock waits for: no other descriptor has a lock in conflict.
Grantable(o, mode) ==
    \A q \in Objects \ {o} : held[q] # "none" => mode = "LOCK_SH" /\ held[q] = "LOCK_SH"

\* ::flock returns 0; on a descriptor that has the lock it changes nothing.
Granted(o) ==
    /\ pc[o] = "call" /\ Grantable(o, Flag(o))
    /\ held' = [held EXCEPT ![o] = Flag(o)]
    /\ pc' = [pc EXCEPT ![o] = "sleep"]
    /\ UNCHANGED <<ReadOnly, read_only, elapsed>>

\* ::flock fails: a signal interrupts the wait, or the kernel is out of locks.  Only
\* EWOULDBLOCK, which needs LOCK_NB, would be noticed: flock goes on as if it had
\* the lock.
CallFails(o) ==
    /\ pc[o] = "call"
    /\ pc' = [pc EXCEPT ![o] = "sleep"]
    /\ UNCHANGED <<ReadOnly, read_only, held, elapsed>>

\* sleep_for has ended.
Wake(o) ==
    /\ pc[o] = "wake"
    /\ pc' = [pc EXCEPT ![o] = "check"]
    /\ UNCHANGED <<ReadOnly, read_only, held, elapsed>>

-----------------------------------------------------------------------------
(* The surroundings.                                                       *)

\* diff is now - start and grows for ever.  It is only compared with Timeout: past
\* Timeout, and without one, it is not counted any further.
Passed(o) == IF Timeout[o] > 0 /\ ~Expired(o) THEN elapsed[o] + 1 ELSE elapsed[o]

\* Time passes, wherever the objects are, and a sleep lasts until it does.
Tick ==
    /\ \E o \in Objects : InFlock(o)
    /\ elapsed' = [o \in Objects |-> IF InFlock(o) THEN Passed(o) ELSE elapsed[o]]
    /\ pc' = [o \in Objects |-> IF pc[o] = "sleep" THEN "wake" ELSE pc[o]]
    /\ UNCHANGED <<ReadOnly, read_only, held>>

\* A process exits or is killed, and the kernel drops its locks.
Exit(p) ==
    /\ \E o \in Objects : Process[o] = p /\ pc[o] # "dead"
    /\ pc' = [o \in Objects |-> IF Process[o] = p THEN "dead" ELSE pc[o]]
    /\ held' = [o \in Objects |-> IF Process[o] = p THEN "none" ELSE held[o]]
    /\ UNCHANGED <<ReadOnly, read_only, elapsed>>

Run(o) == TimesOut(o) \/ NotExpired(o) \/ Granted(o) \/ Wake(o)

Next ==
    \/ \E o \in Objects : Open(o) \/ OpenFails(o) \/ Run(o) \/ CallFails(o)
    \/ Tick
    \/ \E p \in Processes : Exit(p)

Spec == Init /\ [][Next]_vars

\* The clock runs, a constructor that has started keeps running, and ::flock
\* grants a lock that stays free.  No process has to exit.
FairSpec == Spec /\ WF_vars(Tick) /\ \A o \in Objects : WF_vars(Run(o))

-----------------------------------------------------------------------------
(* Properties.                                                             *)

\* An object that asks for LOCK_EX has the file for itself from the moment ::flock
\* succeeds until its process exits: through every turn of the loop, and after a
\* failed constructor too (db.cpp:53-66).
HolderExcludes ==
    \A o, q \in Objects :
        o # q /\ held[o] # "none" /\ ~read_only[o] => held[q] = "none"

\* "more than one process may hold a lock at the same time" (db.cpp:57-58): objects
\* that all ask for LOCK_SH do not wait for each other in ::flock.
SharedDoNotWait ==
    \A o \in Objects :
        (pc[o] = "call" /\ \A q \in Objects : read_only[q]) ~> (pc[o] # "call")

\* "Timeout is the amount of time to wait to obtain a file lock" (db.h:27): an
\* object with a timeout does not try for ever.  It gets the lock or gives up,
\* however often ::flock fails, because the clock is compared with the start of
\* flock and not with the last turn (db.cpp:255-263).  One call of ::flock that
\* never returns is the only other end.
TimedWaitEnds ==
    \A o \in Objects :
        (Timeout[o] > 0 /\ InFlock(o))
            ~> (held[o] # "none" \/ ~InFlock(o) \/ [](pc[o] = "call"))

-----------------------------------------------------------------------------
(* Statements of the repository that the code does not satisfy.            *)

\* db.cpp:56-57: "The database file is locked exclusively (only one process can grab
\* the lock) if !option.ReadOnly".
WritersExclude ==
    \A o, q \in Objects :
        o # q /\ ~ReadOnly[o] /\ held[o] # "none" => held[q] = "none"

\* db.cpp:253, "flock acquires an advisory lock on a file descriptor", and
\* test/util.cpp:17-18: a constructor that has the lock goes on to a usable DB.
OpenReturns == \A o \in Objects : (InFlock(o) /\ held[o] # "none") ~> ~InFlock(o)
=============================================================================
