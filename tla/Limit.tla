-------------------------------- MODULE Limit --------------------------------
(***************************************************************************)
(* Two threads that write to standard error: prob06/p01a.c, p01b.c and     *)
(* p01b1.c a fixed number of characters each, p02.c until a limit they     *)
(* share is used up, prob07/p2.c the same with a mutex.                    *)
(***************************************************************************)
EXTENDS Pthreads

CONSTANT NUMITER        \* characters to write: of each thread, or as the first limit

\* The programs make two threads.
ASSUME LimitAssumption == NUMITER \in Nat /\ MAXTHREADS >= 2

VARIABLES
    limit,
    loaded,             \* the limit that a thread is about to store, less one
    written,            \* how many characters each thread has written
    sum                 \* the total main prints

limit_vars == <<limit, loaded, written, sum>>

IteratingPrograms == {"prob06/p01a", "prob06/p01b", "prob06/p01b1"}
LimitPrograms == IteratingPrograms \cup {"prob06/p02", "prob07/p2"}

LimitInit ==
    /\ limit = NUMITER /\ sum = 0
    /\ loaded = [t \in Tids |-> 0] /\ written = [t \in Tids |-> 0]

-----------------------------------------------------------------------------
Write(t, from, to) ==
    /\ ThreadGoes(t, from, to)
    /\ written' = [written EXCEPT ![t] = @ + 1]
    /\ UNCHANGED <<mut, limit, loaded, sum>>

\* for (i = 1; i <= NUMITER; i++) write(STDERR, arg, 1)
Iterate(t) ==
    IF written[t] < NUMITER
    THEN Write(t, "iterate", "iterate")
    ELSE ThreadGoes(t, "iterate", "ended") /\ UNCHANGED <<mut, limit_vars>>

\* limit--
Decrement(t) ==
    /\ \/ /\ ThreadGoes(t, "load", "decrement")
          /\ loaded' = [loaded EXCEPT ![t] = limit] /\ UNCHANGED limit
       \/ /\ ThreadGoes(t, "decrement", "unlock")
          /\ limit' = loaded[t] - 1 /\ UNCHANGED loaded
    /\ UNCHANGED <<mut, written, sum>>

\* while (limit > 0) { limit--; write; written++ }
WriteFreely(t) ==
    \/ /\ ThreadGoes(t, "while", IF limit > 0 THEN "load" ELSE "ended")
       /\ UNCHANGED <<mut, limit_vars>>
    \/ Decrement(t)
    \/ Write(t, "unlock", "while")

\* Slip: the limit is tested before the mutex is taken.
WriteLocking_tests_first(t) ==
    \/ /\ ThreadGoes(t, "lock", IF limit > 0 THEN "while" ELSE "ended")
       /\ UNCHANGED <<mut, limit_vars>>
    \/ pthread_mutex_lock(t, "while", "load") /\ UNCHANGED limit_vars
    \/ Decrement(t)
    \/ pthread_mutex_unlock(t, "unlock", "write") /\ UNCHANGED limit_vars
    \/ Write(t, "write", "lock")

\* The same with the test and the decrement under the mutex.
WriteLocking(t) ==
    \/ pthread_mutex_lock(t, "lock", "while") /\ UNCHANGED limit_vars
    \/ limit > 0 /\ ThreadGoes(t, "while", "load") /\ UNCHANGED <<mut, limit_vars>>
    \/ limit <= 0 /\ pthread_mutex_unlock(t, "while", "ended") /\ UNCHANGED limit_vars
    \/ Decrement(t)
    \/ pthread_mutex_unlock(t, "unlock", "write") /\ UNCHANGED limit_vars
    \/ Write(t, "write", "lock")

-----------------------------------------------------------------------------
MakeWriters(first) ==
    /\ \/ CreateThread(first)
       \/ TurnCreate("created")
       \/ AllCreated("join") /\ k' = 0
    /\ UNCHANGED limit_vars

JoinWriters(after) ==
    \/ TurnJoin /\ sum' = sum + written[k] /\ UNCHANGED <<limit, loaded, written>>
    \/ AllJoined(after) /\ UNCHANGED limit_vars

\* The first thread's result is freed twice and the second's never: the C library
\* aborts the program or goes on.
FreeTwice ==
    /\ MainGoes("free", "free_again") \/ MainGoes("free_again", "done")
       \/ MainGoes("free_again", "aborted")
    /\ UNCHANGED <<k, limit_vars>>

Iterating(t) == MakeWriters("iterate") \/ JoinWriters("done") \/ Iterate(t)

p01a  == program = "prob06/p01a" /\ \E t \in Tids : Iterating(t)
p01b  == program = "prob06/p01b" /\ \E t \in Tids : Iterating(t)
p01b1 == program = "prob06/p01b1" /\ \E t \in Tids : Iterating(t)

p02 == /\ program = "prob06/p02"
       /\ MakeWriters("while") \/ JoinWriters("free") \/ FreeTwice \/ \E t \in Tids : WriteFreely(t)

p2 == /\ program = "prob07/p2"
      /\ MakeWriters("lock") \/ JoinWriters("free") \/ FreeTwice \/ \E t \in Tids : WriteLocking(t)

LimitNext == p01a \/ p01b \/ p01b1 \/ p02 \/ p2

LimitSpec ==
    /\ program \in LimitPrograms /\ nthr = 2 /\ PthreadsInit /\ LimitInit
    /\ [][LimitNext]_<<pthread_vars, limit_vars>>

-----------------------------------------------------------------------------
\* The limit does not pass zero by more than the threads that test it at a time: by
\* none with the mutex, by one of the two without (prob06/p02.c:15-16).  What main
\* prints as the total is the limit with the mutex (prob07/p2.c:17-28); without it at
\* least the limit, since decrements get lost and none is made up; and what two
\* threads write of NUMITER each.
LimitIsUsedUp ==
    /\ program = "prob07/p2" => limit >= 0
    /\ program = "prob06/p02" => limit >= 1 - nthr
    /\ main_at \in {"free", "done"} =>
           /\ program = "prob07/p2" => sum = NUMITER
           /\ program = "prob06/p02" => sum >= NUMITER
           /\ program \in IteratingPrograms => sum = 2 * NUMITER
=============================================================================
