------------------------------ MODULE Pthreads ------------------------------
(* What the programs of Exercises/prob06 and prob07 have in common: a main    *)
(* that creates threads in a loop, a label for each thread, one mutex.        *)
EXTENDS Exercise, Integers, Sequences, FiniteSets

CONSTANT MAXTHREADS

ASSUME MaxThreadsAssumption == MAXTHREADS \in Nat

VARIABLES
    main_at,            \* the statement main is at
    k,                  \* main's loop counter
    nthr,               \* the number of threads it makes
    pc,                 \* the statement each thread is at
    mut                 \* the thread the mutex is held by

pthread_vars == <<program, main_at, k, nthr, pc, mut>>

Tids == 0 .. MAXTHREADS - 1
FREE == -1

PthreadsInit ==
    /\ main_at = "create" /\ k = 0
    /\ pc = [t \in Tids |-> "unborn"] /\ mut = FREE

PthreadsTypeOK(statements, labels) ==
    /\ nthr \in 0 .. MAXTHREADS /\ k \in 0 .. nthr /\ main_at \in statements
    /\ pc \in [Tids -> labels] /\ mut \in Tids \cup {FREE}

ThreadGoes(t, from, to) ==
    /\ pc[t] = from /\ pc' = [pc EXCEPT ![t] = to]
    /\ UNCHANGED <<program, main_at, k, nthr>>

MainGoes(from, to) ==
    main_at = from /\ main_at' = to /\ UNCHANGED <<program, nthr, pc, mut>>

pthread_mutex_lock(t, from, to)   == ThreadGoes(t, from, to) /\ mut = FREE /\ mut' = t
pthread_mutex_unlock(t, from, to) == ThreadGoes(t, from, to) /\ mut' = FREE

\* Slip: k <= nthr.
CreateThread_one_more(first) ==
    /\ main_at = "create" /\ k <= nthr
    /\ pc' = [pc EXCEPT ![k] = first] /\ main_at' = "created"
    /\ UNCHANGED <<program, k, nthr, mut>>

\* for (k = 0; k < nthr; k++): pthread_create in its body, `first` being the first
\* statement of the new thread.
CreateThread(first) ==
    /\ main_at = "create" /\ k < nthr
    /\ pc' = [pc EXCEPT ![k] = first] /\ main_at' = "created"
    /\ UNCHANGED <<program, k, nthr, mut>>

TurnCreate(from) == MainGoes(from, "create") /\ k' = k + 1

AllCreated(after) == k >= nthr /\ MainGoes("create", after)

\* The same loop with pthread_join.
JoinedThread == k < nthr /\ pc[k] = "ended"
TurnJoin ==
    /\ main_at = "join" /\ JoinedThread /\ k' = k + 1
    /\ UNCHANGED <<program, main_at, nthr, pc, mut>>
AllJoined(after) == k >= nthr /\ MainGoes("join", after) /\ UNCHANGED k
=============================================================================
