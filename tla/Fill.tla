-------------------------------- MODULE Fill --------------------------------
(***************************************************************************)
(* prob07/p1a.c, p1b.c and p3.c: threads fill an array together, each      *)
(* counting what it has filled, and another verifies it.  p1a and p3 hold  *)
(* a mutex while they store, p1b has it commented out.  A step is one load *)
(* or store of a shared variable, as unoptimised code makes them.          *)
(***************************************************************************)
EXTENDS Pthreads

CONSTANT MAXELEMS

ASSUME MaxElemsAssumption == MAXELEMS \in Nat

VARIABLES
    npos,               \* how many positions are to be filled
    buf, pos, val,
    index, value,       \* what each thread has loaded
    count, total,
    errors              \* the positions verify complains about

fill_vars == <<npos, buf, pos, val, index, value, count, total, errors>>

LockingPrograms == {"prob07/p1a", "prob07/p3"}
FillPrograms == LockingPrograms \cup {"prob07/p1b"}

\* Without the mutex threads store beyond npos.  Nobody reads what lies there, and what is
\* stored further out than this is not followed.
Positions == 0 .. MAXELEMS + MAXTHREADS

FillInit ==
    /\ npos \in 0 .. MAXELEMS
    /\ buf = [i \in Positions |-> 0] /\ pos = 0 /\ val = 0
    /\ index = [t \in Tids |-> 0] /\ value = [t \in Tids |-> 0]
    /\ count = [t \in Tids |-> 0] /\ total = 0 /\ errors = {}

Statements == {"create", "created", "join", "verify", "verified"}
Labels == {"unborn", "lock", "test", "store", "store_val", "store_buf", "pos", "store_pos",
           "val", "store_value", "unlock", "count", "ended"}

FillTypeOK ==
    program \in FillPrograms =>
        /\ PthreadsTypeOK(Statements, Labels)
        /\ npos \in 0 .. MAXELEMS /\ pos \in Nat /\ val \in Nat
        /\ buf \in [Positions -> Nat] /\ index \in [Tids -> Nat] /\ value \in [Tids -> Nat]
        /\ count \in [Tids -> Nat] /\ total \in Nat /\ errors \subseteq Positions

-----------------------------------------------------------------------------
(* The body of fill. *)
GoOn(t) == ThreadGoes(t, "test", "store") /\ UNCHANGED mut
Leave(t) ==
    IF program \in LockingPrograms
    THEN pthread_mutex_unlock(t, "test", "ended")
    ELSE ThreadGoes(t, "test", "ended") /\ UNCHANGED mut

\* Slip: one position too many is filled.
Test_one_more(t) == (IF pos > npos THEN Leave(t) ELSE GoOn(t)) /\ UNCHANGED fill_vars

\* if (pos >= npos) return NULL
Test(t) == (IF pos >= npos THEN Leave(t) ELSE GoOn(t)) /\ UNCHANGED fill_vars

\* buf[pos] = val; pos++; val++: two loads and a store, then a load and a store each.
Store(t) ==
    /\ \/ /\ ThreadGoes(t, "store", "store_val")
          /\ index' = [index EXCEPT ![t] = pos] /\ UNCHANGED <<value, buf, pos, val>>
       \/ /\ ThreadGoes(t, "store_val", "store_buf")
          /\ value' = [value EXCEPT ![t] = val] /\ UNCHANGED <<index, buf, pos, val>>
       \/ /\ ThreadGoes(t, "store_buf", "pos")
          /\ buf' = [buf EXCEPT ![index[t]] = value[t]] /\ UNCHANGED <<index, value, pos, val>>
       \/ /\ ThreadGoes(t, "pos", "store_pos")
          /\ index' = [index EXCEPT ![t] = pos] /\ UNCHANGED <<value, buf, pos, val>>
       \/ /\ ThreadGoes(t, "store_pos", "val")
          /\ pos' = index[t] + 1 /\ UNCHANGED <<index, value, buf, val>>
       \/ /\ ThreadGoes(t, "val", "store_value")
          /\ value' = [value EXCEPT ![t] = val] /\ UNCHANGED <<index, buf, pos, val>>
       \/ /\ ThreadGoes(t, "store_value", "unlock")
          /\ val' = value[t] + 1 /\ UNCHANGED <<index, value, buf, pos>>
    /\ UNCHANGED <<mut, npos, count, total, errors>>

\* *(int *)nr += 1, on a counter that only this thread knows of.
Count(t, first) ==
    /\ ThreadGoes(t, "count", first)
    /\ count' = [count EXCEPT ![t] = @ + 1]
    /\ UNCHANGED <<mut, npos, buf, pos, val, index, value, total, errors>>

\* Slip: the mutex is not taken.
FillLocking_lockless(t) ==
    \/ ThreadGoes(t, "lock", "test") /\ UNCHANGED <<mut, fill_vars>>
    \/ Test(t)
    \/ Store(t)
    \/ pthread_mutex_unlock(t, "unlock", "count") /\ UNCHANGED fill_vars
    \/ Count(t, "lock")

FillLocking(t) ==
    \/ pthread_mutex_lock(t, "lock", "test") /\ UNCHANGED fill_vars
    \/ Test(t)
    \/ Store(t)
    \/ pthread_mutex_unlock(t, "unlock", "count") /\ UNCHANGED fill_vars
    \/ Count(t, "lock")

FillFreely(t) ==
    \/ Test(t)
    \/ Store(t)
    \/ ThreadGoes(t, "unlock", "count") /\ UNCHANGED <<mut, fill_vars>>
    \/ Count(t, "test")

-----------------------------------------------------------------------------
(* main: creates the threads, joins them and adds up, has the array verified. *)
MakeFill(first) ==
    \/ CreateThread(first) /\ UNCHANGED fill_vars
    \/ TurnCreate("created") /\ UNCHANGED fill_vars
    \/ AllCreated("join") /\ k' = 0 /\ UNCHANGED fill_vars

JoinFill ==
    \/ TurnJoin /\ total' = total + count[k]
       /\ UNCHANGED <<npos, buf, pos, val, index, value, count, errors>>
    \/ AllJoined("verify") /\ UNCHANGED fill_vars

\* The verifying thread runs alone, whether with the mutex (p3) or without.
Verify ==
    /\ MainGoes("verify", "verified") /\ UNCHANGED k
    /\ errors' = {i \in 0 .. npos - 1 : buf[i] # i}
    /\ UNCHANGED <<npos, buf, pos, val, index, value, count, total>>

\* p3: verify takes the mutex, which must be free.
VerifyLocking == mut = FREE /\ Verify

p1a ==
    /\ program = "prob07/p1a"
    /\ MakeFill("lock") \/ JoinFill \/ Verify \/ \E t \in Tids : FillLocking(t)
p1b ==
    /\ program = "prob07/p1b"
    /\ MakeFill("test") \/ JoinFill \/ Verify \/ \E t \in Tids : FillFreely(t)
p3 ==
    /\ program = "prob07/p3"
    /\ MakeFill("lock") \/ JoinFill \/ VerifyLocking \/ \E t \in Tids : FillLocking(t)

FillNext == p1a \/ p1b \/ p3

FillSpec ==
    /\ program \in FillPrograms /\ nthr \in 0 .. MAXTHREADS /\ PthreadsInit /\ FillInit
    /\ [][FillNext]_<<pthread_vars, fill_vars>>

-----------------------------------------------------------------------------
\* With the mutex the array is right whatever the threads' order: once one of them has
\* ended, verify finds no error (prob07/p1a.c:15-40, p3.c:15-42).  Without a thread
\* nothing is filled.
FilledRight ==
    (program \in LockingPrograms /\ main_at = "verified" /\ nthr > 0) => errors = {}

\* With the mutex each position is counted by one thread.  Without it (prob07/p1b.c)
\* stores get lost, so positions may be filled more than once, but none is passed
\* over: the threads count npos at least.
CountsAddUp ==
    (main_at = "verify" /\ nthr > 0) =>
        /\ program \in LockingPrograms => total = npos
        /\ program = "prob07/p1b" => total >= npos

\* Of two threads without the mutex none stores further than one position beyond the
\* last (prob07/p1b.c:25).  It takes three to go on from there: one that stores an old
\* pos lets the others past the test again, while another keeps the high one.
OverrunIsBounded ==
    (program = "prob07/p1b" /\ nthr <= 2) =>
        \A t \in Tids : pc[t] \in {"store_val", "store_buf"} => index[t] <= npos
=============================================================================
