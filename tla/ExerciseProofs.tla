---------------------------- MODULE ExerciseProofs ----------------------------
(***************************************************************************)
(* The exercises for any number of threads, of positions, of children and  *)
(* of signals: those that fill an array with and without the mutex (Fill), *)
(* that share a limit (Limit), that print once (Hello), that fork          *)
(* (Children), that count signals (Signals) and, for any listing and any   *)
(* number of messages, that talk through pipes (Pipes).  Each part states  *)
(* the inductive invariant its theorems need, has a lemma for each kind of *)
(* step, and ends in the theorems.                                         *)
(***************************************************************************)
EXTENDS Fill, Limit, Hello, Children, Signals, Pipes, FiniteSetTheorems, SequenceTheorems, TLAPS

FillVars == <<pthread_vars, fill_vars>>

\* main's counter is below the number of threads while it has just created one.
TypeInv ==
    program \in FillPrograms /\ FillTypeOK /\ (main_at = "created" => k < nthr)

\* The arrays and the cursors start within their bounds.
LEMMA FillInitTyped ==
    ASSUME program \in FillPrograms, nthr \in 0 .. MAXTHREADS, PthreadsInit, FillInit
    PROVE  TypeInv
  BY MaxThreadsAssumption, MaxElemsAssumption
     DEF PthreadsInit, FillInit, TypeInv, FillTypeOK, PthreadsTypeOK, Labels, Statements, Tids, Positions, FREE

\* A store keeps the types, at whatever position the thread took.
LEMMA StoreTyped ==
    ASSUME TypeInv, NEW t \in Tids, Store(t)
    PROVE  TypeInv'
  <1> USE DEF TypeInv, FillTypeOK, PthreadsTypeOK, Labels, ThreadGoes
  <1>1. CASE ThreadGoes(t, "store", "store_val") /\ index' = [index EXCEPT ![t] = pos]
             /\ UNCHANGED <<value, buf, pos, val>>
    BY <1>1 DEF Store
  <1>2. CASE ThreadGoes(t, "store_val", "store_buf") /\ value' = [value EXCEPT ![t] = val]
             /\ UNCHANGED <<index, buf, pos, val>>
    BY <1>2 DEF Store
  <1>3. CASE ThreadGoes(t, "store_buf", "pos") /\ buf' = [buf EXCEPT ![index[t]] = value[t]]
             /\ UNCHANGED <<index, value, pos, val>>
    BY <1>3 DEF Store
  <1>4. CASE ThreadGoes(t, "pos", "store_pos") /\ index' = [index EXCEPT ![t] = pos]
             /\ UNCHANGED <<value, buf, pos, val>>
    BY <1>4 DEF Store
  <1>5. CASE ThreadGoes(t, "store_pos", "val") /\ pos' = index[t] + 1
             /\ UNCHANGED <<index, value, buf, val>>
    BY <1>5 DEF Store
  <1>6. CASE ThreadGoes(t, "val", "store_value") /\ value' = [value EXCEPT ![t] = val]
             /\ UNCHANGED <<index, buf, pos, val>>
    BY <1>6 DEF Store
  <1>7. CASE ThreadGoes(t, "store_value", "unlock") /\ val' = value[t] + 1
             /\ UNCHANGED <<index, value, buf, pos>>
    BY <1>7 DEF Store
  <1> QED
    BY <1>1, <1>2, <1>3, <1>4, <1>5, <1>6, <1>7 DEF Store

\* So does every step of a filling thread.
LEMMA ThreadTyped ==
    ASSUME TypeInv, NEW t \in Tids, FillLocking(t) \/ FillFreely(t)
    PROVE  TypeInv'
  <1> USE DEF TypeInv, FillTypeOK, PthreadsTypeOK, Labels, ThreadGoes, fill_vars
  <1>1. CASE Store(t)
    BY <1>1, StoreTyped
  <1>2. CASE Test(t)
    BY <1>2 DEF Test, Leave, GoOn, pthread_mutex_unlock
  <1>3. CASE Count(t, "lock") \/ Count(t, "test")
    BY <1>3 DEF Count
  <1>4. CASE pthread_mutex_lock(t, "lock", "test") /\ UNCHANGED fill_vars
    BY <1>4 DEF pthread_mutex_lock
  <1>5. CASE pthread_mutex_unlock(t, "unlock", "count") /\ UNCHANGED fill_vars
    BY <1>5 DEF pthread_mutex_unlock
  <1>6. CASE ThreadGoes(t, "unlock", "count") /\ UNCHANGED <<mut, fill_vars>>
    BY <1>6
  <1> QED
    BY <1>1, <1>2, <1>3, <1>4, <1>5, <1>6 DEF FillLocking, FillFreely

\* And every step of main.
LEMMA MainTyped ==
    ASSUME TypeInv, MakeFill("lock") \/ MakeFill("test") \/ JoinFill \/ Verify
    PROVE  TypeInv'
  <1>0. nthr \in Nat /\ k \in Nat /\ npos \in Nat /\ (k < nthr => k \in Tids)
    BY MaxThreadsAssumption, MaxElemsAssumption DEF TypeInv, FillTypeOK, PthreadsTypeOK, Tids
  <1> USE <1>0 DEF TypeInv, FillTypeOK, PthreadsTypeOK, fill_vars, MainGoes, Statements
  <1>1. CASE (CreateThread("lock") \/ CreateThread("test")) /\ UNCHANGED fill_vars
    <2>1. pc' \in [Tids -> Labels]
      BY <1>1 DEF CreateThread, Labels
    <2> QED
      BY <1>1, <2>1 DEF CreateThread
  <1>2. CASE TurnCreate("created") /\ UNCHANGED fill_vars
    BY <1>2 DEF TurnCreate
  <1>3. CASE AllCreated("join") /\ k' = 0 /\ UNCHANGED fill_vars
    BY <1>3 DEF AllCreated
  <1>4. CASE TurnJoin /\ total' = total + count[k]
             /\ UNCHANGED <<npos, buf, pos, val, index, value, count, errors>>
    BY <1>4 DEF TurnJoin, JoinedThread
  <1>5. CASE AllJoined("verify") /\ UNCHANGED fill_vars
    BY <1>5 DEF AllJoined
  <1>6. CASE Verify
    <2>1. errors' \subseteq Positions
      BY <1>6, MaxThreadsAssumption, MaxElemsAssumption DEF Verify, Positions
    <2> QED
      BY <1>6, <2>1 DEF Verify
  <1> QED
    BY <1>1, <1>2, <1>3, <1>4, <1>5, <1>6 DEF MakeFill, JoinFill

\* Together: no step breaks the types.
LEMMA FillKeepsTypes == FillSpec => []TypeInv
  <1>1. TypeInv /\ [FillNext]_FillVars => TypeInv'
    <2> SUFFICES ASSUME TypeInv, [FillNext]_FillVars PROVE TypeInv'
      OBVIOUS
    <2>1. CASE UNCHANGED FillVars
      BY <2>1 DEF FillVars, TypeInv, FillTypeOK, PthreadsTypeOK, pthread_vars, fill_vars
    <2>2. CASE FillNext
      BY <2>2, ThreadTyped, MainTyped DEF FillNext, p1a, p1b, p3, VerifyLocking
    <2> QED
      BY <2>1, <2>2
  <1> QED
    BY FillInitTyped, <1>1, PTL DEF FillSpec, FillVars

\* The variables of Fill have their types whatever the program and however many threads
\* it makes (prob07/p1a.c:44-69).
THEOREM FillIsTyped == FillSpec => []FillTypeOK
  <1>1. TypeInv => FillTypeOK
    BY DEF TypeInv
  <1> QED BY <1>1, FillKeepsTypes, PTL

-----------------------------------------------------------------------------
(* The array is right.  At the heart is what holds of pos, val and the array *)
(* at each statement of the thread that has the mutex.                       *)

Inside == {"test", "store", "store_val", "store_buf", "pos", "store_pos", "val", "store_value",
           "unlock"}

OneInside == \A t \in Tids : pc[t] \in Inside => mut = t

Filled == pos <= npos /\ \A j \in Nat : j < pos => buf[j] = j

\* pos and val differ only while a thread is between the two.
InStep == (\A t \in Tids : pc[t] \notin {"val", "store_value"}) => val = pos

AtStatement(t) ==
    /\ pc[t] \in {"store", "store_val", "store_buf", "pos", "store_pos"} => pos < npos
    /\ pc[t] \in {"store_val", "store_buf", "store_pos"} => index[t] = pos
    /\ pc[t] = "store_buf" => value[t] = val
    /\ pc[t] \in {"pos", "store_pos"} => buf[pos] = pos
    /\ pc[t] \in {"val", "store_value"} => pos = val + 1
    /\ pc[t] = "store_value" => value[t] = val
    /\ pc[t] = "ended" => pos >= npos

\* main makes the threads in their order, and has joined the first when it goes on.
MainInOrder ==
    /\ main_at = "create" => \A t \in Tids : t >= k => pc[t] = "unborn"
    /\ main_at = "created" => \A t \in Tids : t > k => pc[t] = "unborn"
    /\ (main_at = "join" /\ k > 0) => pc[0] = "ended"
    /\ (main_at \in {"verify", "verified"} /\ nthr > 0) => pc[0] = "ended"
    /\ (main_at = "verified" /\ nthr > 0) => errors = {}

Right == /\ TypeInv /\ program \in LockingPrograms
         /\ OneInside /\ Filled /\ InStep /\ (\A t \in Tids : AtStatement(t)) /\ MainInOrder

\* What a thread does that has the mutex leaves the others outside.
LEMMA OthersAreOutside ==
    ASSUME Right, NEW t \in Tids, pc[t] \in Inside
    PROVE  mut = t /\ \A u \in Tids \ {t} : pc[u] \notin Inside
  BY DEF Right, OneInside

\* What a thread stores at the position it took is that position (p1b.c, p3.c).
LEMMA StoreIsRight ==
    ASSUME Right, NEW t \in Tids, Store(t)
    PROVE  Right'
  <1>1. TypeInv'
    BY StoreTyped DEF Right
  <1>2. /\ pc[t] \in Inside /\ pc[t] # "unlock" /\ pc[t] # "test"
        /\ pc' = [pc EXCEPT ![t] = pc'[t]]
        /\ pc'[t] \in Inside /\ UNCHANGED <<program, main_at, k, nthr, mut, npos, errors>>
    BY DEF Store, ThreadGoes, Right, TypeInv, FillTypeOK, PthreadsTypeOK, Inside
  <1>3. mut = t /\ \A u \in Tids \ {t} : pc[u] \notin Inside /\ pc'[u] = pc[u]
    BY <1>2, OthersAreOutside DEF Right, TypeInv, FillTypeOK, PthreadsTypeOK
  <1>4. OneInside'
    BY <1>2, <1>3 DEF OneInside
  <1>5. MainInOrder'
    <2>1. k \in Nat /\ nthr \in Nat /\ (nthr > 0 \/ k > 0 => 0 \in Tids)
      BY MaxThreadsAssumption DEF Right, TypeInv, FillTypeOK, PthreadsTypeOK, Tids
    <2>2. \A u \in Tids : pc[u] \in {"unborn", "ended"} => pc'[u] = pc[u]
      BY <1>2, <1>3 DEF Inside
    <2>3. MainInOrder
      BY DEF Right
    <2> QED
      BY <1>2, <2>1, <2>2, <2>3 DEF MainInOrder
  <1>6. pos \in Nat /\ val \in Nat /\ npos \in Nat /\ pos <= npos
        /\ index \in [Tids -> Nat] /\ value \in [Tids -> Nat] /\ buf \in [Positions -> Nat]
        /\ pc \in [Tids -> Labels] /\ (pos < npos => pos \in Positions)
    <2>1. npos \in 0 .. MAXELEMS /\ pos \in Nat /\ pos <= npos
      BY DEF Right, TypeInv, FillTypeOK, Filled
    <2>2. pos < npos => pos \in Positions
      BY <2>1, MaxElemsAssumption, MaxThreadsAssumption DEF Positions
    <2> QED
      BY <2>1, <2>2, MaxElemsAssumption DEF Right, TypeInv, FillTypeOK, PthreadsTypeOK
  <1>7. AtStatement(t) /\ Filled /\ InStep
    BY DEF Right
  <1>8. (pc[t] \notin {"val", "store_value"}) => val = pos
    BY <1>3, <1>7 DEF InStep, Inside
  <1>9. Filled' /\ AtStatement(t)' /\ (pc'[t] \notin {"val", "store_value"} => val' = pos')
        /\ pos' >= pos
    <2> USE <1>6, <1>7, <1>8 DEF ThreadGoes, AtStatement, Filled
    <2>1. CASE ThreadGoes(t, "store", "store_val") /\ index' = [index EXCEPT ![t] = pos]
               /\ UNCHANGED <<value, buf, pos, val>>
      BY <1>2, <2>1
    <2>2. CASE ThreadGoes(t, "store_val", "store_buf") /\ value' = [value EXCEPT ![t] = val]
               /\ UNCHANGED <<index, buf, pos, val>>
      BY <1>2, <2>2
    <2>3. CASE ThreadGoes(t, "store_buf", "pos") /\ buf' = [buf EXCEPT ![index[t]] = value[t]]
               /\ UNCHANGED <<index, value, pos, val>>
      BY <1>2, <2>3
    <2>4. CASE ThreadGoes(t, "pos", "store_pos") /\ index' = [index EXCEPT ![t] = pos]
               /\ UNCHANGED <<value, buf, pos, val>>
      BY <1>2, <2>4
    <2>5. CASE ThreadGoes(t, "store_pos", "val") /\ pos' = index[t] + 1
               /\ UNCHANGED <<index, value, buf, val>>
      BY <1>2, <2>5
    <2>6. CASE ThreadGoes(t, "val", "store_value") /\ value' = [value EXCEPT ![t] = val]
               /\ UNCHANGED <<index, buf, pos, val>>
      BY <1>2, <2>6
    <2>7. CASE ThreadGoes(t, "store_value", "unlock") /\ val' = value[t] + 1
               /\ UNCHANGED <<index, value, buf, pos>>
      BY <1>2, <2>7
    <2> QED
      BY <2>1, <2>2, <2>3, <2>4, <2>5, <2>6, <2>7 DEF Store
  <1>10. \A u \in Tids \ {t} : AtStatement(u)'
    <2> SUFFICES ASSUME NEW u \in Tids \ {t} PROVE AtStatement(u)'
      OBVIOUS
    <2>1. pc'[u] \notin Inside /\ AtStatement(u)
      BY <1>3 DEF Right
    <2> QED
      BY <1>2, <1>3, <1>6, <1>9, <1>1, <2>1 DEF AtStatement, Inside, TypeInv, FillTypeOK
  <1>11. InStep'
    BY <1>9, <1>3, <1>2 DEF InStep
  <1> QED
    BY <1>1, <1>2, <1>4, <1>5, <1>9, <1>10, <1>11 DEF Right

\* Nothing is filled at first.
LEMMA InitIsRight ==
    ASSUME program \in LockingPrograms, nthr \in 0 .. MAXTHREADS, PthreadsInit, FillInit
    PROVE  Right
  <1>1. TypeInv
    BY FillInitTyped DEF FillPrograms
  <1>2. npos \in Nat /\ pos = 0 /\ val = 0 /\ main_at = "create" /\ pc = [t \in Tids |-> "unborn"]
    BY MaxElemsAssumption DEF PthreadsInit, FillInit
  <1> QED
    BY <1>1, <1>2
       DEF Right, OneInside, Inside, Filled, InStep, AtStatement, MainInOrder

\* A step of a thread that leaves the array and the counters alone.
LEMMA QuietIsRight ==
    ASSUME Right, TypeInv', NEW t \in Tids, NEW from \in Labels \ {"unborn", "ended"}, NEW to \in Labels,
           pc[t] = from, pc' = [pc EXCEPT ![t] = to],
           UNCHANGED <<program, main_at, k, nthr, npos, buf, pos, val, index, value, errors>>,
           \/ to \notin Inside /\ from \in Inside /\ mut' = FREE
           \/ to \notin Inside /\ from \notin Inside /\ mut' = mut
           \/ to \in Inside /\ from \notin Inside /\ mut = FREE /\ mut' = t
           \/ to \in Inside /\ from \in Inside /\ mut' = mut,
           from \notin {"val", "store_value"}, to \in {"test", "store", "unlock", "count", "lock", "ended"},
           to = "store" => pos < npos,
           to = "ended" => pos >= npos
    PROVE  Right'
  <1>1. pc \in [Tids -> Labels] /\ mut \in Tids \cup {FREE} /\ FREE \notin Tids
    BY DEF Right, TypeInv, FillTypeOK, PthreadsTypeOK, FREE, Tids, FillPrograms
  <1>2. \A u \in Tids : u # t => pc'[u] = pc[u]
    BY <1>1
  <1>3. pc'[t] = to
    BY <1>1
  <1>4. OneInside'
    <2>1. CASE from \in Inside
      BY <2>1, <1>1, <1>2, <1>3, OthersAreOutside DEF OneInside
    <2>2. CASE from \notin Inside
      BY <2>2, <1>1, <1>2, <1>3 DEF OneInside, Right
    <2> QED
      BY <2>1, <2>2
  <1>5. Filled' /\ InStep'
    BY <1>1, <1>2, <1>3 DEF Right, Filled, InStep
  <1>6. \A u \in Tids : AtStatement(u)'
    BY <1>1, <1>2, <1>3 DEF Right, AtStatement
  <1>7. MainInOrder'
    <2>1. k \in Nat /\ nthr \in Nat /\ (nthr > 0 \/ k > 0 => 0 \in Tids)
      BY MaxThreadsAssumption DEF Right, TypeInv, FillTypeOK, PthreadsTypeOK, Tids
    <2>2. \A u \in Tids : pc[u] \in {"unborn", "ended"} => pc'[u] = pc[u]
      BY <1>2
    <2>3. MainInOrder
      BY DEF Right
    <2> QED
      BY <2>1, <2>2, <2>3 DEF MainInOrder
  <1> QED
    BY <1>4, <1>5, <1>6, <1>7 DEF Right

\* Taking and giving back the mutex leaves the array alone.
LEMMA LockingIsRight ==
    ASSUME Right, NEW t \in Tids, FillLocking(t)
    PROVE  Right'
  <1>0. TypeInv' /\ pos \in Nat /\ npos \in Nat /\ program \in LockingPrograms
        /\ pc \in [Tids -> Labels]
    BY ThreadTyped, MaxElemsAssumption DEF Right, TypeInv, FillTypeOK, PthreadsTypeOK
  <1> USE DEF ThreadGoes, fill_vars, Inside, Labels
  <1>1. CASE Store(t)
    BY <1>1, StoreIsRight
  <1>2. CASE pthread_mutex_lock(t, "lock", "test") /\ UNCHANGED fill_vars
    BY <1>0, <1>2, QuietIsRight DEF pthread_mutex_lock
  <1>3. CASE Test(t) /\ pos >= npos
    BY <1>0, <1>3, QuietIsRight DEF Test, Leave, pthread_mutex_unlock
  <1>4. CASE Test(t) /\ pos < npos
    BY <1>0, <1>4, QuietIsRight DEF Test, GoOn
  <1>5. CASE pthread_mutex_unlock(t, "unlock", "count") /\ UNCHANGED fill_vars
    BY <1>0, <1>5, QuietIsRight DEF pthread_mutex_unlock
  <1>6. CASE Count(t, "lock")
    BY <1>0, <1>6, QuietIsRight DEF Count
  <1> QED
    BY <1>0, <1>1, <1>2, <1>3, <1>4, <1>5, <1>6 DEF FillLocking, Test

\* Nor does main write to it.
LEMMA MainIsRight ==
    ASSUME Right, MakeFill("lock") \/ JoinFill \/ Verify
    PROVE  Right'
  <1>0. /\ TypeInv' /\ program \in LockingPrograms /\ k \in Nat /\ nthr \in Nat /\ npos \in Nat
        /\ pos \in Nat /\ pc \in [Tids -> Labels] /\ MainInOrder
        /\ (k < nthr => k \in Tids) /\ (nthr > 0 \/ k > 0 => 0 \in Tids)
        /\ \A t \in Tids : t \in Nat
    <2>1. TypeInv'
      BY MainTyped DEF Right
    <2>2. /\ nthr \in 0 .. MAXTHREADS /\ k \in 0 .. nthr /\ npos \in 0 .. MAXELEMS
          /\ pos \in Nat /\ pc \in [Tids -> Labels]
      BY DEF Right, TypeInv, FillTypeOK, PthreadsTypeOK
    <2>3. nthr \in Nat /\ k \in Nat /\ npos \in Nat /\ (k < nthr => k \in Tids)
          /\ (nthr > 0 \/ k > 0 => 0 \in Tids) /\ \A t \in Tids : t \in Nat
      BY <2>2, MaxThreadsAssumption, MaxElemsAssumption DEF Tids
    <2> QED
      BY <2>1, <2>2, <2>3 DEF Right
  <1>1. CASE CreateThread("lock") /\ UNCHANGED fill_vars
    <2>1. pc[k] = "unborn" /\ k \in Tids
      BY <1>0, <1>1 DEF CreateThread, MainInOrder
    <2>2. pc' = [pc EXCEPT ![k] = "lock"] /\ UNCHANGED <<program, k, nthr, mut, fill_vars>>
          /\ main_at' = "created" /\ main_at = "create"
      BY <1>1 DEF CreateThread
    <2>3. OneInside' /\ Filled' /\ InStep'
      BY <1>0, <2>1, <2>2 DEF Right, OneInside, Filled, InStep, Inside, fill_vars
    <2>4. \A t \in Tids : AtStatement(t)'
      BY <1>0, <2>1, <2>2 DEF Right, AtStatement, fill_vars
    <2>5. MainInOrder'
      BY <1>0, <2>1, <2>2 DEF MainInOrder
    <2> QED
      BY <1>0, <2>2, <2>3, <2>4, <2>5 DEF Right
  <1>2. ASSUME UNCHANGED <<program, nthr, pc, mut, npos, buf, pos, val, index, value>>, MainInOrder'
        PROVE  Right'
    BY <1>0, <1>2 DEF Right, OneInside, Filled, InStep, AtStatement
  <1> USE DEF fill_vars, MainGoes
  <1>3. CASE TurnCreate("created") /\ UNCHANGED fill_vars
    <2>1. MainInOrder'
      BY <1>0, <1>3 DEF TurnCreate, MainInOrder
    <2> QED
      BY <1>2, <1>3, <2>1 DEF TurnCreate
  <1>4. CASE AllCreated("join") /\ k' = 0 /\ UNCHANGED fill_vars
    <2>1. MainInOrder'
      BY <1>0, <1>4 DEF AllCreated, MainInOrder
    <2> QED
      BY <1>2, <1>4, <2>1 DEF AllCreated
  <1>5. CASE TurnJoin /\ UNCHANGED <<npos, buf, pos, val, index, value, errors>>
    <2>1. MainInOrder'
      BY <1>0, <1>5 DEF TurnJoin, JoinedThread, MainInOrder
    <2> QED
      BY <1>2, <1>5, <2>1 DEF TurnJoin
  <1>6. CASE AllJoined("verify") /\ UNCHANGED fill_vars
    <2>1. MainInOrder'
      BY <1>0, <1>6 DEF AllJoined, MainInOrder
    <2> QED
      BY <1>2, <1>6, <2>1 DEF AllJoined
  <1>7. CASE Verify
    <2>1. nthr > 0 => pos >= npos
      BY <1>0, <1>7 DEF Verify, Right, AtStatement, MainInOrder
    <2>2. nthr > 0 => errors' = {}
      BY <1>0, <1>7, <2>1 DEF Verify, Right, Filled
    <2>3. MainInOrder'
      BY <1>0, <1>7, <2>2 DEF Verify, MainInOrder
    <2> QED
      BY <1>2, <1>7, <2>3 DEF Verify
  <1> QED
    BY <1>1, <1>3, <1>4, <1>5, <1>6, <1>7 DEF MakeFill, JoinFill

\* Together: the array and the cursors agree at each statement.
RightIfLocked == (program \in LockingPrograms => Right) /\ program \in FillPrograms

LEMMA LockingStaysRight == FillSpec => []RightIfLocked
  <1> DEFINE Inv == (program \in LockingPrograms => Right) /\ program \in FillPrograms
  <1>1. program \in FillPrograms /\ nthr \in 0 .. MAXTHREADS /\ PthreadsInit /\ FillInit => Inv
    BY InitIsRight
  <1>2. Inv /\ [FillNext]_FillVars => Inv'
    <2> SUFFICES ASSUME Inv, [FillNext]_FillVars PROVE Inv'
      OBVIOUS
    <2>1. CASE UNCHANGED FillVars
      BY <2>1 DEF FillVars, Right, TypeInv, FillTypeOK, PthreadsTypeOK, pthread_vars, fill_vars,
                  OneInside, Filled, InStep, AtStatement, MainInOrder
    <2>2. CASE FillNext /\ program \in LockingPrograms
      <3>1. Right'
        BY <2>2, LockingIsRight, MainIsRight
           DEF FillNext, p1a, p1b, p3, VerifyLocking, LockingPrograms
      <3> QED
        BY <3>1 DEF Right, FillPrograms
    <2>3. CASE FillNext /\ program \notin LockingPrograms
      <3>1. program' = program
        BY <2>3 DEF FillNext, p1a, p1b, p3, LockingPrograms, MakeFill, JoinFill, Verify, FillFreely,
             CreateThread, TurnCreate, AllCreated, TurnJoin, AllJoined, MainGoes, Test, GoOn,
             Leave, Store, Count, ThreadGoes, pthread_mutex_unlock
      <3> QED
        BY <2>3, <3>1
    <2> QED
      BY <2>1, <2>2, <2>3
  <1> QED
    BY <1>1, <1>2, PTL DEF FillSpec, FillVars, RightIfLocked

\* In the programs that take the mutex (prob07/p1a.c:15-27, p3.c:15-28) the array holds
\* what it should when it is verified, for any number of positions and of threads but
\* none.
THEOREM LockingFillsRight == FillSpec => []FilledRight
  <1>1. RightIfLocked => FilledRight
    BY DEF RightIfLocked, Right, MainInOrder, FilledRight
  <1> QED BY <1>1, LockingStaysRight, PTL

-----------------------------------------------------------------------------
(* The limit of two threads.  With the mutex what is written is what has been *)
(* taken off the limit; without it at least that much, and a stale load may   *)
(* pass zero by one.                                                          *)

LimitVars == <<pthread_vars, limit_vars>>

Two == {0, 1}
LimitLabels == {"unborn", "iterate", "lock", "while", "load", "decrement", "unlock", "write", "ended"}
LimitStatements == {"create", "created", "join", "free", "free_again", "done", "aborted"}

LimitTyped ==
    /\ program \in LimitPrograms /\ nthr = 2 /\ k \in 0 .. 2 /\ main_at \in LimitStatements
    /\ pc \in [Tids -> LimitLabels] /\ limit \in Int /\ sum \in Nat
    /\ loaded \in [Tids -> Int] /\ written \in [Tids -> Nat]

\* main makes both threads in their order, joins them and adds up what they have written.
Joining ==
    /\ \A t \in Tids : t \notin Two => pc[t] = "unborn"
    /\ main_at \in {"create", "created"} => sum = 0
    /\ main_at = "create" => \A t \in Two : t >= k => pc[t] = "unborn"
    /\ main_at = "created" => k < 2 /\ \A t \in Two : t > k => pc[t] = "unborn"
    /\ main_at = "join" => /\ \A t \in Two : t < k => pc[t] = "ended"
                           /\ k = 0 => sum = 0
                           /\ k = 1 => sum = written[0]
                           /\ k = 2 => sum = written[0] + written[1]
    /\ main_at \in {"free", "free_again", "done", "aborted"} =>
           pc[0] = "ended" /\ pc[1] = "ended" /\ sum = written[0] + written[1]

Iterated ==
    \A t \in Two : /\ pc[t] \in {"unborn", "iterate", "ended"} /\ written[t] <= NUMITER
                   /\ pc[t] = "ended" => written[t] = NUMITER

\* Those that have taken one off the limit and not written yet.
Behindhand(t) == IF pc[t] \in {"unlock", "write"} THEN 1 ELSE 0
Made(t) == written[t] + Behindhand(t)

\* prob07/p2.c
GuardedAt(t) ==
    /\ pc[t] \in {"while", "load", "decrement", "unlock"} => mut = t
    /\ pc[t] \in {"load", "decrement"} => limit > 0
    /\ pc[t] = "decrement" => loaded[t] = limit
    /\ pc[t] = "ended" => limit = 0

Guarded ==
    (\A t \in Two : GuardedAt(t)) /\ limit >= 0 /\ Made(0) + Made(1) = NUMITER - limit

\* prob06/p02.c
Busy(t) == pc[t] \in {"load", "decrement"}

UnguardedAt(t) ==
    /\ pc[t] # "write"
    /\ pc[t] = "load" => limit >= 1 \/ (limit = 0 /\ ~Busy(1 - t))
    /\ pc[t] = "decrement" => loaded[t] >= 1 \/ (loaded[t] = 0 /\ limit = 0 /\ ~Busy(1 - t))
    /\ pc[t] = "decrement" => loaded[t] >= NUMITER - (Made(0) + Made(1))

Unguarded ==
    /\ \A t \in Two : UnguardedAt(t)
    /\ limit >= -1 /\ limit >= NUMITER - (Made(0) + Made(1))
    /\ (pc[0] = "ended" /\ pc[1] = "ended") => limit <= 0

LimitInv ==
    /\ LimitTyped /\ Joining
    /\ program \in IteratingPrograms => Iterated
    /\ program = "prob07/p2" => Guarded
    /\ program = "prob06/p02" => Unguarded

\* The two threads are among the threads.
LEMMA TwoThreads == 0 \in Tids /\ 1 \in Tids /\ Two \subseteq Tids /\ NUMITER \in Nat /\ Tids \subseteq Int
  BY LimitAssumption, MaxThreadsAssumption DEF Tids, Two

\* What a thread has made, before a step and after.
MadeRight ==
    \A t \in Two : /\ written[t] \in Nat /\ Made(t) \in Nat
                   /\ pc[t] \in {"unlock", "write"} => Made(t) = written[t] + 1
                   /\ pc[t] \notin {"unlock", "write"} => Made(t) = written[t]

LEMMA MadeLemma == LimitTyped => MadeRight
  <1> SUFFICES ASSUME LimitTyped, NEW t \in Two
               PROVE  /\ written[t] \in Nat /\ Made(t) \in Nat
                      /\ pc[t] \in {"unlock", "write"} => Made(t) = written[t] + 1
                      /\ pc[t] \notin {"unlock", "write"} => Made(t) = written[t]
    BY DEF MadeRight
  <1>1. written[t] \in Nat
    BY TwoThreads DEF LimitTyped
  <1>2. CASE pc[t] \in {"unlock", "write"}
    BY <1>1, <1>2 DEF Made, Behindhand
  <1>3. CASE pc[t] \notin {"unlock", "write"}
    BY <1>1, <1>3 DEF Made, Behindhand
  <1> QED BY <1>2, <1>3

LEMMA MadeNext == LimitTyped' => MadeRight'
  BY MadeLemma, PTL

\* A thread that steps has been made and has not ended; the other one stays where it is.
LEMMA ThreadSteps ==
    ASSUME LimitTyped, Joining, NEW t \in Tids, NEW from \in LimitLabels \ {"unborn", "ended"},
           NEW to \in LimitLabels, ThreadGoes(t, from, to),
           sum' = sum, limit' \in Int, loaded' \in [Tids -> Int], written' \in [Tids -> Nat],
           \A u \in Tids : u # t => written'[u] = written[u]
    PROVE  /\ LimitTyped' /\ Joining' /\ t \in Two /\ 1 - t \in Two /\ 1 - t # t
           /\ pc[t] = from /\ pc'[t] = to /\ pc'[1 - t] = pc[1 - t] /\ written'[1 - t] = written[1 - t]
           /\ program' = program
  <1>1. pc[t] = from /\ pc' = [pc EXCEPT ![t] = to] /\ UNCHANGED <<program, main_at, k, nthr>>
    BY DEF ThreadGoes
  <1>2. pc \in [Tids -> LimitLabels]
    BY DEF LimitTyped
  <1>3. pc' \in [Tids -> LimitLabels] /\ pc'[t] = to /\ \A u \in Tids : u # t => pc'[u] = pc[u]
    BY <1>1, <1>2
  <1>4. t \in Two
    BY <1>1 DEF Joining
  <1>5. 1 - t \in Two /\ 1 - t # t /\ 1 - t \in Tids
    BY <1>4, TwoThreads DEF Two
  <1>6. \A u \in Tids : pc[u] \in {"unborn", "ended"} => pc'[u] = pc[u] /\ written'[u] = written[u]
    BY <1>1, <1>3
  <1>7. LimitTyped'
    BY <1>1, <1>3 DEF LimitTyped
  <1>8. Joining'
    <2>1. \A u \in Tids : u \notin Two => pc'[u] = "unborn"
      BY <1>6 DEF Joining
    <2>2. \A u \in Two : pc[u] \in {"unborn", "ended"} => pc'[u] = pc[u] /\ written'[u] = written[u]
      BY <1>6, TwoThreads
    <2>3. k \in 0 .. 2
      BY DEF LimitTyped
    <2>4. main_at = "join" => /\ \A u \in Two : u < k => pc'[u] = "ended"
                              /\ k = 0 => sum = 0
                              /\ k = 1 => sum = written'[0]
                              /\ k = 2 => sum = written'[0] + written'[1]
      BY <2>2, <2>3 DEF Joining, Two
    <2>5. main_at \in {"free", "free_again", "done", "aborted"} =>
              pc'[0] = "ended" /\ pc'[1] = "ended" /\ sum = written'[0] + written'[1]
      BY <2>2 DEF Joining, Two
    <2> QED BY <1>1, <2>1, <2>2, <2>4, <2>5 DEF Joining
  <1> QED BY <1>1, <1>3, <1>4, <1>5, <1>7, <1>8

\* Each thread writes NUMITER characters, whatever the other does.
LEMMA IteratingGoesOn ==
    ASSUME LimitInv, program \in IteratingPrograms, NEW t \in Tids, Iterate(t)
    PROVE  LimitInv'
  <1>0. LimitTyped /\ Joining /\ Iterated /\ NUMITER \in Nat /\ written \in [Tids -> Nat]
    BY TwoThreads DEF LimitInv, LimitTyped
  <1>1. PICK to \in LimitLabels \ {"unborn"} : ThreadGoes(t, "iterate", to)
    BY DEF Iterate, Write, LimitLabels
  <1>2. /\ sum' = sum /\ limit' \in Int /\ loaded' \in [Tids -> Int] /\ written' \in [Tids -> Nat]
        /\ \A u \in Tids : u # t => written'[u] = written[u]
        /\ written'[t] \in Nat
        /\ IF written[t] < NUMITER THEN to = "iterate" /\ written'[t] = written[t] + 1
                                   ELSE to = "ended" /\ written'[t] = written[t]
    <2>1. CASE written[t] < NUMITER
      <3>1. written' = [written EXCEPT ![t] = @ + 1] /\ UNCHANGED <<limit, loaded, sum>>
            /\ ThreadGoes(t, "iterate", "iterate")
        BY <2>1 DEF Iterate, Write
      <3>2. to = "iterate"
        BY <1>0, <1>1, <3>1 DEF ThreadGoes, LimitTyped
      <3> QED BY <1>0, <2>1, <3>1, <3>2 DEF LimitTyped
    <2>2. CASE ~(written[t] < NUMITER)
      <3>1. UNCHANGED limit_vars /\ ThreadGoes(t, "iterate", "ended")
        BY <2>2 DEF Iterate
      <3>2. to = "ended"
        BY <1>0, <1>1, <3>1 DEF ThreadGoes, LimitTyped
      <3> QED BY <1>0, <2>2, <3>1, <3>2 DEF LimitTyped, limit_vars
    <2> QED BY <2>1, <2>2
  <1>3. /\ LimitTyped' /\ Joining' /\ t \in Two /\ 1 - t \in Two /\ 1 - t # t
        /\ pc'[t] = to /\ pc'[1 - t] = pc[1 - t] /\ written'[1 - t] = written[1 - t]
        /\ program' = program
    BY <1>0, <1>1, <1>2, ThreadSteps DEF LimitLabels
  <1>4. written[t] \in Nat /\ written[t] <= NUMITER
    BY <1>0, <1>3 DEF Iterated
  <1>5. \A u \in Two : u = t \/ u = 1 - t
    BY <1>3 DEF Two
  <1>6. Iterated'
    BY <1>0, <1>2, <1>3, <1>4, <1>5 DEF Iterated
  <1> QED BY <1>3, <1>6 DEF LimitInv, IteratingPrograms

\* Both threads, whichever of them is called t.
LEMMA EachOfTwo ==
    ASSUME NEW t \in Two
    PROVE  /\ 1 - t \in Two /\ 1 - t # t /\ 1 - (1 - t) = t /\ \A u \in Two : u = t \/ u = 1 - t
           /\ (t = 0 /\ 1 - t = 1) \/ (t = 1 /\ 1 - t = 0)
  <1>1. CASE t = 0
    BY <1>1 DEF Two
  <1>2. CASE t = 1
    BY <1>2 DEF Two
  <1> QED BY <1>1, <1>2 DEF Two

\* With the mutex the limit is taken down by one thread at a time, by what it loaded.
LEMMA LockingGoesOn ==
    ASSUME LimitInv, program = "prob07/p2", NEW t \in Tids, WriteLocking(t)
    PROVE  LimitInv'
  <1>0. /\ LimitTyped /\ Joining /\ Guarded /\ NUMITER \in Nat /\ written \in [Tids -> Nat]
        /\ loaded \in [Tids -> Int] /\ limit \in Int /\ t \in Int /\ t # FREE
    BY TwoThreads, MaxThreadsAssumption DEF LimitInv, LimitTyped, FREE, Tids
  <1>1. PICK from \in LimitLabels \ {"unborn", "ended"}, to \in LimitLabels : ThreadGoes(t, from, to)
    BY DEF WriteLocking, Write, Decrement, pthread_mutex_lock, pthread_mutex_unlock, LimitLabels
  <1>2. /\ sum' = sum /\ limit' \in Int /\ loaded' \in [Tids -> Int] /\ written' \in [Tids -> Nat]
        /\ \A u \in Tids : u # t => written'[u] = written[u] /\ loaded'[u] = loaded[u]
    BY <1>0 DEF WriteLocking, Write, Decrement, limit_vars
  <1>3. /\ LimitTyped' /\ Joining' /\ t \in Two /\ 1 - t \in Two /\ 1 - t # t
        /\ pc[t] = from /\ pc'[t] = to /\ pc'[1 - t] = pc[1 - t] /\ written'[1 - t] = written[1 - t]
        /\ program' = program
    BY <1>0, <1>1, <1>2, ThreadSteps
  <1>4. PICK o \in Two : o = 1 - t /\ o \in Tids /\ o # t
    BY <1>3, TwoThreads
  <1>5. /\ pc'[o] = pc[o] /\ written'[o] = written[o] /\ loaded'[o] = loaded[o]
        /\ \A u \in Two : u = t \/ u = o
    BY <1>2, <1>3, <1>4, EachOfTwo
  <1>6. MadeRight /\ MadeRight'
    BY <1>0, <1>3, MadeLemma, MadeNext
  <1>7. /\ Made(t) \in Nat /\ Made(o) \in Nat /\ Made(t)' \in Nat /\ Made(o)' = Made(o)
        /\ Made(0) + Made(1) = Made(t) + Made(o)
        /\ Made(0)' + Made(1)' = Made(t)' + Made(o)
    <2>1. Made(o)' = Made(o)
      BY <1>5 DEF Made, Behindhand
    <2>2. Made(t) \in Nat /\ Made(o) \in Nat /\ Made(t)' \in Nat
      BY <1>3, <1>6 DEF MadeRight
    <2>3. (t = 0 /\ o = 1) \/ (t = 1 /\ o = 0)
      BY <1>3, <1>4, EachOfTwo
    <2> QED BY <2>1, <2>2, <2>3
  <1>8. GuardedAt(t) /\ GuardedAt(o) /\ limit >= 0 /\ Made(t) + Made(o) = NUMITER - limit
    BY <1>0, <1>3, <1>7 DEF Guarded
  <1>9. ASSUME GuardedAt(t)', GuardedAt(o)', limit' >= 0, Made(t)' + Made(o) = NUMITER - limit'
        PROVE  LimitInv'
    <2>1. Guarded'
      BY <1>5, <1>7, <1>9 DEF Guarded
    <2> QED BY <1>3, <2>1 DEF LimitInv, IteratingPrograms
  <1>10. /\ pc[t] \in {"unlock", "write"} => Made(t) = written[t] + 1
         /\ pc[t] \notin {"unlock", "write"} => Made(t) = written[t]
         /\ pc'[t] \in {"unlock", "write"} => Made(t)' = written'[t] + 1
         /\ pc'[t] \notin {"unlock", "write"} => Made(t)' = written'[t]
         /\ written[t] \in Nat
    BY <1>3, <1>6 DEF MadeRight
  <1> USE DEF GuardedAt
  <1>11. CASE pthread_mutex_lock(t, "lock", "while") /\ UNCHANGED limit_vars
    <2>1. pc[t] = "lock" /\ pc'[t] = "while" /\ mut = FREE /\ mut' = t
          /\ limit' = limit /\ written' = written
      BY <1>0, <1>11 DEF pthread_mutex_lock, ThreadGoes, limit_vars, LimitTyped
    <2>2. o # FREE
      BY <1>4, MaxThreadsAssumption DEF Two, FREE
    <2> QED BY <1>4, <1>5, <1>8, <1>9, <1>10, <2>1, <2>2
  <1>12. CASE limit > 0 /\ ThreadGoes(t, "while", "load") /\ UNCHANGED <<mut, limit_vars>>
    <2>1. pc[t] = "while" /\ pc'[t] = "load" /\ mut' = mut /\ limit' = limit /\ written' = written
      BY <1>0, <1>12 DEF ThreadGoes, limit_vars, LimitTyped
    <2> QED BY <1>4, <1>5, <1>8, <1>9, <1>10, <1>12, <2>1
  <1>13. CASE limit <= 0 /\ pthread_mutex_unlock(t, "while", "ended") /\ UNCHANGED limit_vars
    <2>1. pc[t] = "while" /\ pc'[t] = "ended" /\ limit' = limit /\ written' = written
      BY <1>0, <1>13 DEF pthread_mutex_unlock, ThreadGoes, limit_vars, LimitTyped
    <2>2. mut = t /\ pc[o] \notin {"while", "load", "decrement", "unlock"}
      BY <1>4, <1>8, <2>1
    <2> QED BY <1>0, <1>4, <1>5, <1>8, <1>9, <1>10, <1>13, <2>1, <2>2
  <1>14. CASE Decrement(t) /\ ThreadGoes(t, "load", "decrement")
    <2>1. pc[t] = "load" /\ pc'[t] = "decrement" /\ mut' = mut /\ limit' = limit /\ written' = written
          /\ loaded'[t] = limit
      BY <1>0, <1>14 DEF Decrement, ThreadGoes, LimitTyped
    <2> QED BY <1>4, <1>5, <1>8, <1>9, <1>10, <2>1
  <1>15. CASE Decrement(t) /\ ThreadGoes(t, "decrement", "unlock")
    <2>1. pc[t] = "decrement" /\ pc'[t] = "unlock" /\ mut' = mut /\ limit' = loaded[t] - 1
          /\ written' = written
      BY <1>0, <1>15 DEF Decrement, ThreadGoes, LimitTyped
    <2>2. mut = t /\ limit > 0 /\ loaded[t] = limit /\ limit' = limit - 1
      BY <1>8, <2>1
    <2>3. pc[o] \notin {"while", "load", "decrement", "unlock", "ended"}
      BY <1>0, <1>4, <1>8, <2>2
    <2>4. Made(t)' = Made(t) + 1
      BY <1>10, <2>1
    <2>5. Made(t)' + Made(o) = NUMITER - limit' /\ limit' >= 0
      BY <1>0, <1>7, <1>8, <2>2, <2>4
    <2> QED BY <1>5, <1>9, <2>1, <2>2, <2>3, <2>5
  <1>16. CASE pthread_mutex_unlock(t, "unlock", "write") /\ UNCHANGED limit_vars
    <2>1. pc[t] = "unlock" /\ pc'[t] = "write" /\ limit' = limit /\ written' = written
      BY <1>0, <1>16 DEF pthread_mutex_unlock, ThreadGoes, limit_vars, LimitTyped
    <2>2. mut = t /\ pc[o] \notin {"while", "load", "decrement", "unlock"}
      BY <1>4, <1>8, <2>1
    <2> QED BY <1>0, <1>4, <1>5, <1>8, <1>9, <1>10, <2>1, <2>2
  <1>17. CASE Write(t, "write", "lock")
    <2>1. pc[t] = "write" /\ pc'[t] = "lock" /\ mut' = mut /\ limit' = limit
          /\ written'[t] = written[t] + 1
      BY <1>0, <1>17 DEF Write, ThreadGoes, LimitTyped
    <2> QED BY <1>4, <1>5, <1>8, <1>9, <1>10, <2>1
  <1> QED BY <1>11, <1>12, <1>13, <1>14, <1>15, <1>16, <1>17 DEF WriteLocking, Decrement

\* Without the mutex a thread may store what it loaded before the other stored, which gives
\* back what the other took, or pass zero by one, but not when the other is about to.
LEMMA FreelyGoesOn ==
    ASSUME LimitInv, program = "prob06/p02", NEW t \in Tids, WriteFreely(t)
    PROVE  LimitInv'
  <1>0. /\ LimitTyped /\ Joining /\ Unguarded /\ NUMITER \in Nat /\ written \in [Tids -> Nat]
        /\ loaded \in [Tids -> Int] /\ limit \in Int /\ t \in Int
    BY TwoThreads DEF LimitInv, LimitTyped
  <1>1. PICK from \in LimitLabels \ {"unborn", "ended"}, to \in LimitLabels : ThreadGoes(t, from, to)
    BY DEF WriteFreely, Write, Decrement, LimitLabels
  <1>2. /\ sum' = sum /\ limit' \in Int /\ loaded' \in [Tids -> Int] /\ written' \in [Tids -> Nat]
        /\ \A u \in Tids : u # t => written'[u] = written[u] /\ loaded'[u] = loaded[u]
    BY <1>0 DEF WriteFreely, Write, Decrement, limit_vars
  <1>3. /\ LimitTyped' /\ Joining' /\ t \in Two /\ 1 - t \in Two /\ 1 - t # t
        /\ pc[t] = from /\ pc'[t] = to /\ pc'[1 - t] = pc[1 - t] /\ written'[1 - t] = written[1 - t]
        /\ program' = program
    BY <1>0, <1>1, <1>2, ThreadSteps
  <1>4. PICK o \in Two : o = 1 - t /\ o \in Tids /\ o # t /\ 1 - o = t
    BY <1>3, TwoThreads, EachOfTwo
  <1>5. /\ pc'[o] = pc[o] /\ written'[o] = written[o] /\ loaded'[o] = loaded[o]
        /\ \A u \in Two : u = t \/ u = o
    BY <1>2, <1>3, <1>4, EachOfTwo
  <1>6. MadeRight /\ MadeRight'
    BY <1>0, <1>3, MadeLemma, MadeNext
  <1>7. PICK m \in Int, n \in Int : m = NUMITER - (Made(0) + Made(1)) /\ n = NUMITER - (Made(0)' + Made(1)')
    <2>1. 0 \in Two /\ 1 \in Two
      BY DEF Two
    <2> QED BY <1>0, <1>6, <2>1 DEF MadeRight
  <1>8. Made(t)' = Made(t) => n = m
    <2>1. Made(o)' = Made(o)
      BY <1>5 DEF Made, Behindhand
    <2>2. (t = 0 /\ o = 1) \/ (t = 1 /\ o = 0)
      BY <1>3, <1>4, EachOfTwo
    <2> QED BY <1>7, <2>1, <2>2
  <1>9. Made(t)' = Made(t) + 1 => n = m - 1
    <2>1. Made(o)' = Made(o)
      BY <1>5 DEF Made, Behindhand
    <2>2. (t = 0 /\ o = 1) \/ (t = 1 /\ o = 0)
      BY <1>3, <1>4, EachOfTwo
    <2>3. Made(t) \in Nat /\ Made(o) \in Nat
      BY <1>3, <1>6 DEF MadeRight
    <2> QED BY <1>0, <1>7, <2>1, <2>2, <2>3
  <1>10. /\ pc[t] = "unlock" => Made(t) = written[t] + 1
         /\ pc[t] \notin {"unlock", "write"} => Made(t) = written[t]
         /\ pc'[t] = "unlock" => Made(t)' = written'[t] + 1
         /\ pc'[t] \notin {"unlock", "write"} => Made(t)' = written'[t]
         /\ written[t] \in Nat
    BY <1>3, <1>6 DEF MadeRight
  <1>11. /\ UnguardedAt(t) /\ UnguardedAt(o) /\ limit >= -1 /\ limit >= m
         /\ loaded[t] \in Int /\ loaded[o] \in Int
    BY <1>0, <1>3, <1>4, <1>7 DEF Unguarded
  <1>12. /\ pc[t] = "load" => limit >= 1 \/ (limit = 0 /\ pc[o] \notin {"load", "decrement"})
         /\ pc[t] = "decrement" => /\ loaded[t] >= 1
                                      \/ (loaded[t] = 0 /\ limit = 0 /\ pc[o] \notin {"load", "decrement"})
                                   /\ loaded[t] >= m
         /\ pc[o] = "load" => limit >= 1 \/ (limit = 0 /\ pc[t] \notin {"load", "decrement"})
         /\ pc[o] = "decrement" => /\ loaded[o] >= 1
                                      \/ (loaded[o] = 0 /\ limit = 0 /\ pc[t] \notin {"load", "decrement"})
                                   /\ loaded[o] >= m
    BY <1>4, <1>7, <1>11 DEF UnguardedAt, Busy
  <1>13. ASSUME /\ pc'[t] # "write" /\ limit' >= -1 /\ limit' >= n
                /\ pc'[t] = "load" => limit' >= 1 \/ (limit' = 0 /\ pc[o] \notin {"load", "decrement"})
                /\ pc'[t] = "decrement" =>
                       /\ loaded'[t] >= 1
                          \/ (loaded'[t] = 0 /\ limit' = 0 /\ pc[o] \notin {"load", "decrement"})
                       /\ loaded'[t] >= n
                /\ pc[o] = "load" => limit' >= 1 \/ (limit' = 0 /\ pc'[t] \notin {"load", "decrement"})
                /\ pc[o] = "decrement" =>
                       /\ loaded[o] >= 1
                          \/ (loaded[o] = 0 /\ limit' = 0 /\ pc'[t] \notin {"load", "decrement"})
                       /\ loaded[o] >= n
                /\ (pc'[t] = "ended" /\ pc[o] = "ended") => limit' <= 0
         PROVE  LimitInv'
    <2>1. UnguardedAt(t)'
      BY <1>4, <1>5, <1>7, <1>13 DEF UnguardedAt, Busy
    <2>2. UnguardedAt(o)'
      BY <1>4, <1>5, <1>7, <1>11, <1>13 DEF UnguardedAt, Busy
    <2>3. (pc'[0] = "ended" /\ pc'[1] = "ended") => limit' <= 0
      BY <1>3, <1>4, <1>5, <1>13, EachOfTwo
    <2>4. Unguarded'
      BY <1>5, <1>7, <1>13, <2>1, <2>2, <2>3 DEF Unguarded
    <2> QED BY <1>3, <2>4 DEF LimitInv, IteratingPrograms
  <1>14. CASE ThreadGoes(t, "while", IF limit > 0 THEN "load" ELSE "ended") /\ UNCHANGED <<mut, limit_vars>>
    <2>1. pc[t] = "while" /\ pc'[t] = (IF limit > 0 THEN "load" ELSE "ended")
          /\ limit' = limit /\ written' = written
      BY <1>0, <1>14 DEF ThreadGoes, limit_vars, LimitTyped
    <2>2. n = m
      BY <1>8, <1>10, <2>1
    <2>3. CASE limit > 0
      <3>1. pc'[t] = "load" /\ limit >= 1
        BY <1>0, <2>1, <2>3
      <3> QED BY <1>11, <1>12, <1>13, <2>1, <2>2, <3>1
    <2>4. CASE ~(limit > 0)
      <3>1. pc'[t] = "ended" /\ limit <= 0
        BY <1>0, <2>1, <2>4
      <3> QED BY <1>11, <1>12, <1>13, <2>1, <2>2, <3>1
    <2> QED BY <2>3, <2>4
  <1>15. CASE Decrement(t) /\ ThreadGoes(t, "load", "decrement")
    <2>1. pc[t] = "load" /\ pc'[t] = "decrement" /\ limit' = limit /\ written' = written
          /\ loaded'[t] = limit
      BY <1>0, <1>15 DEF Decrement, ThreadGoes, LimitTyped
    <2>2. n = m
      BY <1>8, <1>10, <2>1
    <2> QED BY <1>0, <1>7, <1>11, <1>12, <1>13, <2>1, <2>2
  <1>16. CASE Decrement(t) /\ ThreadGoes(t, "decrement", "unlock")
    <2>1. pc[t] = "decrement" /\ pc'[t] = "unlock" /\ limit' = loaded[t] - 1
          /\ written' = written
      BY <1>0, <1>16 DEF Decrement, ThreadGoes, LimitTyped
    <2>2. n = m - 1
      BY <1>9, <1>10, <2>1
    <2>3. limit' >= -1 /\ limit' >= n
      BY <1>7, <1>11, <1>12, <2>1, <2>2
    <2>4. pc[o] = "load" => limit' >= 0
      BY <1>11, <1>12, <2>1
    <2>5. pc[o] = "load" => limit' >= 1 \/ limit' = 0
      BY <1>3, <1>2, <2>4
    <2>6. pc[o] = "decrement" => loaded[o] >= 1 /\ loaded[o] >= n
      BY <1>7, <1>11, <1>12, <2>1, <2>2
    <2> QED BY <1>13, <2>1, <2>3, <2>5, <2>6
  <1>17. CASE Write(t, "unlock", "while")
    <2>1. pc[t] = "unlock" /\ pc'[t] = "while" /\ limit' = limit
          /\ written'[t] = written[t] + 1
      BY <1>0, <1>17 DEF Write, ThreadGoes, LimitTyped
    <2>2. n = m
      BY <1>8, <1>10, <2>1
    <2> QED BY <1>11, <1>12, <1>13, <2>1, <2>2
  <1> QED BY <1>14, <1>15, <1>16, <1>17 DEF WriteFreely, Decrement

\* main makes the threads, joins them and adds up.
LEMMA WritersGoOn ==
    ASSUME LimitInv,
           \/ program \in IteratingPrograms /\ (MakeWriters("iterate") \/ JoinWriters("done"))
           \/ program = "prob06/p02" /\ (MakeWriters("while") \/ JoinWriters("free") \/ FreeTwice)
           \/ program = "prob07/p2" /\ (MakeWriters("lock") \/ JoinWriters("free") \/ FreeTwice)
    PROVE  LimitInv'
  <1>0. /\ LimitTyped /\ Joining /\ NUMITER \in Nat /\ written \in [Tids -> Nat] /\ limit \in Int
        /\ pc \in [Tids -> LimitLabels] /\ k \in 0 .. 2 /\ nthr = 2
        /\ program \in IteratingPrograms => Iterated
        /\ program = "prob07/p2" => Guarded
        /\ program = "prob06/p02" => Unguarded
    BY TwoThreads DEF LimitInv, LimitTyped
  <1>1. ASSUME UNCHANGED <<program, nthr, pc, mut, limit, loaded, written>>, LimitTyped', Joining'
        PROVE  LimitInv'
    <2>1. Made(0)' = Made(0) /\ Made(1)' = Made(1)
      BY <1>1 DEF Made, Behindhand
    <2>2. Iterated => Iterated'
      BY <1>1 DEF Iterated
    <2>3. Guarded => Guarded'
      BY <1>1, <2>1 DEF Guarded, GuardedAt
    <2>4. Unguarded => Unguarded'
      BY <1>1, <2>1 DEF Unguarded, UnguardedAt, Busy
    <2> QED BY <1>0, <1>1, <2>2, <2>3, <2>4 DEF LimitInv
  <1>2. ASSUME NEW s \in {"iterate", "while", "lock"}, CreateThread(s), UNCHANGED limit_vars,
               \/ program \in IteratingPrograms /\ s = "iterate"
               \/ program = "prob06/p02" /\ s = "while"
               \/ program = "prob07/p2" /\ s = "lock"
        PROVE  LimitInv'
    <2>1. k \in Two /\ pc[k] = "unborn" /\ k \in Tids /\ k < 2
      BY <1>0, <1>2, TwoThreads DEF CreateThread, Joining, Two
    <2>2. /\ pc' = [pc EXCEPT ![k] = s] /\ UNCHANGED <<program, k, nthr, mut, limit, loaded, written, sum>>
          /\ main_at = "create" /\ main_at' = "created"
      BY <1>2 DEF CreateThread, limit_vars
    <2>3. /\ pc'[k] = s /\ \A t \in Tids : t # k => pc'[t] = pc[t]
          /\ pc' \in [Tids -> LimitLabels]
      BY <1>0, <2>1, <2>2 DEF LimitLabels
    <2>4. LimitTyped'
      BY <1>0, <2>2, <2>3 DEF LimitTyped, LimitStatements
    <2>5. Joining'
      <3>1. \A t \in Tids : t \notin Two => pc'[t] = "unborn"
        BY <1>0, <2>1, <2>3 DEF Joining
      <3>2. \A t \in Two : t > k => pc'[t] = "unborn"
        <4> SUFFICES ASSUME NEW t \in Two, t > k PROVE pc'[t] = "unborn"
          OBVIOUS
        <4>1. t \in Tids /\ t # k /\ t >= k
          BY <1>0, TwoThreads
        <4> QED BY <1>0, <2>2, <2>3, <4>1 DEF Joining
      <3> QED BY <1>0, <2>1, <2>2, <3>1, <3>2 DEF Joining
    <2>6. 0 \in Tids /\ 1 \in Tids /\ Two \subseteq Tids /\ Two = {0, 1}
      BY TwoThreads DEF Two
    <2>7. Made(0)' = Made(0) /\ Made(1)' = Made(1)
      BY <2>1, <2>2, <2>3, <2>6 DEF Made, Behindhand
    <2>8. program \in IteratingPrograms => Iterated'
      <3> SUFFICES ASSUME program \in IteratingPrograms, NEW t \in Two
                   PROVE  /\ pc'[t] \in {"unborn", "iterate", "ended"} /\ written[t] <= NUMITER
                          /\ pc'[t] = "ended" => written[t] = NUMITER
        BY <2>2 DEF Iterated
      <3>1. s = "iterate"
        BY <1>2 DEF IteratingPrograms
      <3>2. t \in Tids /\ pc[t] \in {"unborn", "iterate", "ended"} /\ written[t] <= NUMITER
            /\ (pc[t] = "ended" => written[t] = NUMITER)
        BY <1>0, <2>6 DEF Iterated
      <3>3. pc'[t] = "iterate" \/ pc'[t] = pc[t]
        BY <2>3, <3>1, <3>2
      <3> QED BY <3>2, <3>3
    <2>9. program = "prob07/p2" => Guarded'
      <3> SUFFICES ASSUME program = "prob07/p2", Guarded PROVE Guarded'
        BY <1>0
      <3>1. s = "lock"
        BY <1>2 DEF IteratingPrograms
      <3> QED BY <2>2, <2>3, <2>6, <2>7, <3>1 DEF Guarded, GuardedAt
    <2>10. program = "prob06/p02" => Unguarded'
      <3> SUFFICES ASSUME program = "prob06/p02", Unguarded PROVE Unguarded'
        BY <1>0
      <3>1. \A t \in Two : 1 - t \in Two
        BY EachOfTwo
      <3>2. \A t \in Two : Busy(t)' => Busy(t)
        BY <2>3, <2>6 DEF Busy
      <3>3. \A t \in Two : UnguardedAt(t)'
        BY <2>2, <2>3, <2>6, <2>7, <3>1, <3>2 DEF Unguarded, UnguardedAt
      <3>4. pc'[0] = "ended" /\ pc'[1] = "ended" => pc[0] = "ended" /\ pc[1] = "ended"
        BY <2>3, <2>6
      <3> QED BY <2>2, <2>7, <3>3, <3>4 DEF Unguarded
    <2> QED BY <2>2, <2>4, <2>5, <2>8, <2>9, <2>10 DEF LimitInv
  <1>3. ASSUME UNCHANGED <<program, nthr, pc, mut, limit, loaded, written>>,
               k' \in 0 .. 2, main_at' \in LimitStatements, sum' \in Nat, Joining'
        PROVE  LimitInv'
    <2>1. LimitTyped'
      BY <1>0, <1>3 DEF LimitTyped
    <2> QED BY <1>1, <1>3, <2>1
  <1> USE DEF MainGoes, LimitStatements, Two
  <1>4. CASE TurnCreate("created") /\ UNCHANGED limit_vars
    <2>1. /\ main_at = "created" /\ main_at' = "create" /\ k' = k + 1 /\ k' \in 0 .. 2
          /\ UNCHANGED <<program, nthr, pc, mut, limit, loaded, written, sum>>
      BY <1>0, <1>4 DEF TurnCreate, limit_vars, Joining
    <2>2. Joining'
      BY <1>0, <2>1 DEF Joining
    <2> QED BY <1>0, <1>3, <2>1, <2>2 DEF LimitTyped
  <1>5. CASE AllCreated("join") /\ k' = 0 /\ UNCHANGED limit_vars
    <2>1. /\ main_at = "create" /\ main_at' = "join" /\ k' = 0
          /\ UNCHANGED <<program, nthr, pc, mut, limit, loaded, written, sum>>
      BY <1>0, <1>5 DEF AllCreated, limit_vars
    <2>2. Joining'
      BY <1>0, <2>1 DEF Joining
    <2> QED BY <1>0, <1>3, <2>1, <2>2 DEF LimitTyped
  <1>6. CASE TurnJoin /\ sum' = sum + written[k] /\ UNCHANGED <<limit, loaded, written>>
    <2>1. /\ main_at = "join" /\ main_at' = "join" /\ k' = k + 1 /\ k' \in 0 .. 2 /\ k \in {0, 1}
          /\ UNCHANGED <<program, nthr, pc, mut, limit, loaded, written>> /\ pc[k] = "ended"
      BY <1>0, <1>6 DEF TurnJoin, JoinedThread
    <2>2. sum' \in Nat /\ written[0] \in Nat /\ written[1] \in Nat /\ sum \in Nat
      BY <1>0, <1>6, <2>1, TwoThreads DEF LimitTyped
    <2>3. CASE k = 0
      <3>1. sum' = written[0] /\ k' = 1
        BY <1>0, <1>6, <2>1, <2>2, <2>3 DEF Joining
      <3>2. Joining'
        BY <1>0, <2>1, <2>3, <3>1 DEF Joining
      <3> QED BY <1>3, <2>1, <2>2, <3>2
    <2>4. CASE k = 1
      <3>1. sum' = written[0] + written[1] /\ k' = 2
        BY <1>0, <1>6, <2>1, <2>2, <2>4 DEF Joining
      <3>2. Joining'
        BY <1>0, <2>1, <2>4, <3>1 DEF Joining
      <3> QED BY <1>3, <2>1, <2>2, <3>2
    <2> QED BY <2>1, <2>3, <2>4
  <1>7. ASSUME NEW s \in {"done", "free"}, AllJoined(s), UNCHANGED limit_vars PROVE LimitInv'
    <2>1. /\ main_at = "join" /\ main_at' = s /\ k = 2 /\ k' = k
          /\ UNCHANGED <<program, nthr, pc, mut, limit, loaded, written, sum>>
      BY <1>0, <1>7 DEF AllJoined, limit_vars
    <2>2. Joining'
      BY <1>0, <2>1 DEF Joining
    <2> QED BY <1>0, <1>3, <2>1, <2>2 DEF LimitTyped
  <1>8. CASE FreeTwice
    <2>1. /\ main_at \in {"free", "free_again"} /\ main_at' \in {"free_again", "done", "aborted"}
          /\ UNCHANGED <<program, k, nthr, pc, mut, limit, loaded, written, sum>>
      BY <1>8 DEF FreeTwice, limit_vars
    <2>2. Joining'
      BY <1>0, <2>1 DEF Joining
    <2> QED BY <1>0, <1>3, <2>1, <2>2 DEF LimitTyped
  <1>9. "prob06/p02" \notin IteratingPrograms /\ "prob07/p2" \notin IteratingPrograms
    BY DEF IteratingPrograms
  <1> QED BY <1>2, <1>4, <1>5, <1>6, <1>7, <1>8, <1>9 DEF MakeWriters, JoinWriters

\* The limit ends where the code means it to, whatever NUMITER is (prob06/p02.c:15-16,
\* prob07/p2.c:17-28): with the mutex it is what has not been made yet; without, a load
\* that passes zero is one whose thread alone is still between test and store.
THEOREM LimitHolds == LimitSpec => []LimitIsUsedUp
  <1>1. program \in LimitPrograms /\ nthr = 2 /\ PthreadsInit /\ LimitInit => LimitInv
    <2> SUFFICES ASSUME program \in LimitPrograms, nthr = 2, PthreadsInit, LimitInit PROVE LimitInv
      OBVIOUS
    <2>1. LimitTyped /\ NUMITER \in Nat
      BY TwoThreads DEF LimitTyped, PthreadsInit, LimitInit, LimitLabels, LimitStatements
    <2>2. /\ main_at = "create" /\ k = 0 /\ limit = NUMITER /\ sum = 0
          /\ \A t \in Tids : pc[t] = "unborn" /\ written[t] = 0
      BY DEF PthreadsInit, LimitInit
    <2>3. \A t \in Two : t \in Tids /\ pc[t] = "unborn" /\ written[t] = 0
      BY <2>2, TwoThreads
    <2>4. Made(0) = 0 /\ Made(1) = 0 /\ Made(0) + Made(1) = 0
      BY <2>3 DEF Made, Behindhand, Two
    <2>5. Joining
      BY <2>2, <2>3 DEF Joining
    <2>6. Iterated
      BY <2>1, <2>3 DEF Iterated
    <2>7. Guarded
      BY <2>1, <2>2, <2>3, <2>4 DEF Guarded, GuardedAt
    <2>8. Unguarded
      <3>1. pc[0] # "ended"
        BY <2>3 DEF Two
      <3> QED BY <2>1, <2>2, <2>3, <2>4, <3>1 DEF Unguarded, UnguardedAt
    <2> QED BY <2>1, <2>5, <2>6, <2>7, <2>8 DEF LimitInv
  <1>2. LimitInv /\ [LimitNext]_LimitVars => LimitInv'
    <2> SUFFICES ASSUME LimitInv, [LimitNext]_LimitVars PROVE LimitInv'
      OBVIOUS
    <2>1. CASE UNCHANGED LimitVars
      <3>1. UNCHANGED <<program, main_at, k, nthr, pc, mut, limit, loaded, written, sum>>
        BY <2>1 DEF LimitVars, pthread_vars, limit_vars
      <3>2. Made(0)' = Made(0) /\ Made(1)' = Made(1)
        BY <3>1 DEF Made, Behindhand
      <3>3. (LimitTyped => LimitTyped') /\ (Joining => Joining') /\ (Iterated => Iterated')
        BY <3>1 DEF LimitTyped, Joining, Iterated
      <3>4. (Guarded => Guarded') /\ (Unguarded => Unguarded')
        BY <3>1, <3>2 DEF Guarded, GuardedAt, Unguarded, UnguardedAt, Busy
      <3> QED BY <3>1, <3>3, <3>4 DEF LimitInv
    <2>2. CASE p01a \/ p01b \/ p01b1
      <3>1. program \in IteratingPrograms /\ \E t \in Tids : Iterating(t)
        BY <2>2 DEF p01a, p01b, p01b1, IteratingPrograms
      <3> QED BY <3>1, WritersGoOn, IteratingGoesOn DEF Iterating
    <2>3. CASE p02
      BY <2>3, WritersGoOn, FreelyGoesOn DEF p02
    <2>4. CASE p2
      BY <2>4, WritersGoOn, LockingGoesOn DEF p2
    <2> QED BY <2>1, <2>2, <2>3, <2>4 DEF LimitNext
  <1>3. LimitInv => LimitIsUsedUp
    <2> SUFFICES ASSUME LimitInv PROVE LimitIsUsedUp
      OBVIOUS
    <2>1. LimitTyped /\ Joining /\ NUMITER \in Nat /\ nthr = 2 /\ limit \in Int
      BY TwoThreads DEF LimitInv, LimitTyped
    <2>2. MadeRight /\ 0 \in Two /\ 1 \in Two
      BY <2>1, MadeLemma DEF Two
    <2>3. main_at \in {"free", "done"} =>
              /\ pc[0] = "ended" /\ pc[1] = "ended" /\ sum = written[0] + written[1]
              /\ Made(0) = written[0] /\ Made(1) = written[1]
      BY <2>1, <2>2 DEF Joining, MadeRight
    <2>4. written[0] \in Nat /\ written[1] \in Nat
      BY <2>2 DEF MadeRight
    <2>5. program = "prob07/p2" => limit >= 0 /\ (main_at \in {"free", "done"} => sum = NUMITER)
      <3> SUFFICES ASSUME Guarded PROVE limit >= 0 /\ (main_at \in {"free", "done"} => sum = NUMITER)
        BY DEF LimitInv
      <3>1. main_at \in {"free", "done"} => limit = 0
        BY <2>2, <2>3 DEF Guarded, GuardedAt
      <3> QED BY <2>1, <2>3, <2>4, <3>1 DEF Guarded
    <2>6. program = "prob06/p02" => limit >= 1 - nthr /\ (main_at \in {"free", "done"} => sum >= NUMITER)
      <3> SUFFICES ASSUME Unguarded PROVE limit >= 1 - nthr /\ (main_at \in {"free", "done"} => sum >= NUMITER)
        BY DEF LimitInv
      <3>1. limit >= -1 /\ (main_at \in {"free", "done"} => limit <= 0)
        BY <2>3 DEF Unguarded
      <3>2. main_at \in {"free", "done"} => limit >= NUMITER - sum
        BY <2>3 DEF Unguarded
      <3>3. sum \in Nat
        BY <2>1 DEF LimitTyped
      <3> QED BY <2>1, <3>1, <3>2, <3>3
    <2>7. (program \in IteratingPrograms /\ main_at \in {"free", "done"}) => sum = 2 * NUMITER
      <3> SUFFICES ASSUME Iterated, main_at \in {"free", "done"} PROVE sum = 2 * NUMITER
        BY DEF LimitInv
      <3>1. written[0] = NUMITER /\ written[1] = NUMITER
        BY <2>2, <2>3 DEF Iterated
      <3> QED BY <2>1, <2>3, <3>1
    <2> QED BY <2>5, <2>6, <2>7 DEF LimitIsUsedUp
  <1> QED BY <1>1, <1>2, <1>3, PTL DEF LimitSpec, LimitVars

-----------------------------------------------------------------------------
(* How far two threads without the mutex run over: a thread that has passed  *)
(* the test with the array full is alone between its test and its store.     *)

Running(t) == pc[t] \in {"store", "store_val", "store_buf", "pos", "store_pos"}

OverrunAt(t) ==
    /\ pc[t] \in {"store", "store_val", "store_buf", "pos"} =>
           pos < npos \/ (pos = npos /\ ~Running(1 - t))
    /\ pc[t] = "store_pos" =>
           index[t] < npos \/ (index[t] = npos /\ pos = npos /\ ~Running(1 - t))
    /\ pc[t] \in {"store_val", "store_buf"} => index[t] <= npos

Overrun ==
    /\ \A t \in Tids : t \notin Two => pc[t] = "unborn"
    /\ \A t \in Two : OverrunAt(t)
    /\ pos <= npos + 1

\* What a step of a thread without the mutex may be.
LEMMA FreeStep ==
    ASSUME TypeInv, NEW t \in Tids, FillFreely(t), program = "prob07/p1b"
    PROVE  /\ UNCHANGED <<program, main_at, k, nthr, npos>>
           /\ pc[t] # "unborn" /\ \A u \in Tids : u # t => pc'[u] = pc[u] /\ index'[u] = index[u]
           /\ \/ /\ pc[t] = "test" /\ pc'[t] = (IF pos >= npos THEN "ended" ELSE "store")
                 /\ UNCHANGED <<pos, index>>
              \/ pc[t] = "store" /\ pc'[t] = "store_val" /\ index'[t] = pos /\ pos' = pos
              \/ pc[t] = "store_val" /\ pc'[t] = "store_buf" /\ UNCHANGED <<pos, index>>
              \/ pc[t] = "store_buf" /\ pc'[t] = "pos" /\ UNCHANGED <<pos, index>>
              \/ pc[t] = "pos" /\ pc'[t] = "store_pos" /\ index'[t] = pos /\ pos' = pos
              \/ pc[t] = "store_pos" /\ pc'[t] = "val" /\ pos' = index[t] + 1 /\ index' = index
              \/ /\ pc[t] \in {"val", "store_value", "unlock", "count"}
                 /\ pc'[t] \in {"store_value", "unlock", "count", "test"} /\ UNCHANGED <<pos, index>>
  <1>1. pc \in [Tids -> Labels] /\ index \in [Tids -> Nat]
    BY DEF TypeInv, FillTypeOK, PthreadsTypeOK
  <1> USE <1>1 DEF ThreadGoes, fill_vars
  <1>2. CASE Test(t)
    BY <1>2 DEF Test, Leave, GoOn, LockingPrograms
  <1>3. CASE Store(t)
    <2>1. CASE ThreadGoes(t, "store", "store_val") /\ index' = [index EXCEPT ![t] = pos]
               /\ UNCHANGED <<value, buf, pos, val>>
      BY <1>3, <2>1 DEF Store
    <2>2. CASE ThreadGoes(t, "store_val", "store_buf") /\ UNCHANGED <<index, pos>>
      BY <1>3, <2>2 DEF Store
    <2>3. CASE ThreadGoes(t, "store_buf", "pos") /\ UNCHANGED <<index, pos>>
      BY <1>3, <2>3 DEF Store
    <2>4. CASE ThreadGoes(t, "pos", "store_pos") /\ index' = [index EXCEPT ![t] = pos]
               /\ UNCHANGED <<value, buf, pos, val>>
      BY <1>3, <2>4 DEF Store
    <2>5. CASE ThreadGoes(t, "store_pos", "val") /\ pos' = index[t] + 1 /\ UNCHANGED index
      BY <1>3, <2>5 DEF Store
    <2>6. CASE ThreadGoes(t, "val", "store_value") /\ UNCHANGED <<index, pos>>
      BY <1>3, <2>6 DEF Store
    <2>7. CASE ThreadGoes(t, "store_value", "unlock") /\ UNCHANGED <<index, pos>>
      BY <1>3, <2>7 DEF Store
    <2> QED BY <1>3, <2>1, <2>2, <2>3, <2>4, <2>5, <2>6, <2>7 DEF Store
  <1>4. CASE ThreadGoes(t, "unlock", "count") /\ UNCHANGED <<mut, fill_vars>>
    BY <1>4
  <1>5. CASE Count(t, "test")
    BY <1>5 DEF Count
  <1> QED BY <1>2, <1>3, <1>4, <1>5 DEF FillFreely

LEMMA OverrunStep ==
    ASSUME TypeInv, Overrun, program = "prob07/p1b", NEW t \in Tids, FillFreely(t)
    PROVE  Overrun'
  <1>0. /\ pos \in Nat /\ npos \in Nat /\ index \in [Tids -> Nat]
    BY MaxElemsAssumption DEF TypeInv, FillTypeOK
  <1>1. /\ npos' = npos /\ pc[t] # "unborn"
        /\ \A u \in Tids : u # t => pc'[u] = pc[u] /\ index'[u] = index[u]
    BY FreeStep
  <1>2. t \in Two /\ index[t] \in Nat
    BY <1>0, <1>1 DEF Overrun
  <1>3. PICK o \in Two : o = 1 - t /\ 1 - o = t /\ o # t /\ o \in Tids /\ \A u \in Two : u = t \/ u = o
    BY <1>2, EachOfTwo, TwoThreads
  <1>4. pc'[o] = pc[o] /\ index'[o] = index[o] /\ index[o] \in Nat
    BY <1>0, <1>1, <1>3
  <1>5. /\ Running(t) => OverrunAt(t)
        /\ pc[o] \in {"store", "store_val", "store_buf", "pos"} =>
               pos < npos \/ (pos = npos /\ ~Running(t))
        /\ pc[o] = "store_pos" => index[o] < npos \/ (index[o] = npos /\ pos = npos /\ ~Running(t))
        /\ pc[o] \in {"store_val", "store_buf"} => index[o] <= npos
        /\ pos <= npos + 1
    BY <1>2, <1>3 DEF Overrun, OverrunAt
  <1>6. /\ pc[t] \in {"store", "store_val", "store_buf", "pos"} =>
               pos < npos \/ (pos = npos /\ ~Running(o))
        /\ pc[t] = "store_pos" => index[t] < npos \/ (index[t] = npos /\ pos = npos /\ ~Running(o))
        /\ pc[t] \in {"store_val", "store_buf"} => index[t] <= npos
    BY <1>3, <1>5 DEF OverrunAt, Running
  <1>7. ASSUME /\ pc'[t] \in {"store", "store_val", "store_buf", "pos"} =>
                      pos' < npos \/ (pos' = npos /\ ~Running(o))
               /\ pc'[t] = "store_pos" =>
                      index'[t] < npos \/ (index'[t] = npos /\ pos' = npos /\ ~Running(o))
               /\ pc'[t] \in {"store_val", "store_buf"} => index'[t] <= npos
               /\ pc[o] \in {"store", "store_val", "store_buf", "pos"} =>
                      pos' < npos \/ (pos' = npos /\ ~Running(t)')
               /\ pc[o] = "store_pos" =>
                      index[o] < npos \/ (index[o] = npos /\ pos' = npos /\ ~Running(t)')
               /\ pos' <= npos + 1
        PROVE  Overrun'
    <2>1. Running(o)' <=> Running(o)
      BY <1>4 DEF Running
    <2>2. OverrunAt(t)'
      BY <1>1, <1>3, <1>7, <2>1 DEF OverrunAt
    <2>3. OverrunAt(o)'
      BY <1>1, <1>3, <1>4, <1>5, <1>7 DEF OverrunAt
    <2>4. \A u \in Tids : u \notin Two => pc'[u] = "unborn"
      BY <1>1, <1>2 DEF Overrun
    <2> QED BY <1>1, <1>3, <1>7, <2>2, <2>3, <2>4 DEF Overrun
  <1>8. CASE pc[t] = "test" /\ pc'[t] = (IF pos >= npos THEN "ended" ELSE "store") /\ UNCHANGED <<pos, index>>
    <2>1. CASE pos >= npos
      BY <1>0, <1>5, <1>7, <1>8, <2>1 DEF Running
    <2>2. CASE ~(pos >= npos)
      <3>1. pos < npos /\ pc'[t] = "store"
        BY <1>0, <1>8, <2>2
      <3>2. pc[o] = "store_pos" => index[o] < npos
        BY <1>0, <1>5, <3>1
      <3> QED BY <1>5, <1>7, <1>8, <3>1, <3>2
    <2> QED BY <2>1, <2>2
  <1>9. CASE pc[t] = "store" /\ pc'[t] = "store_val" /\ index'[t] = pos /\ pos' = pos
    BY <1>0, <1>5, <1>6, <1>7, <1>9 DEF Running
  <1>10. CASE pc[t] = "store_val" /\ pc'[t] = "store_buf" /\ UNCHANGED <<pos, index>>
    BY <1>5, <1>6, <1>7, <1>10 DEF Running
  <1>11. CASE pc[t] = "store_buf" /\ pc'[t] = "pos" /\ UNCHANGED <<pos, index>>
    BY <1>5, <1>6, <1>7, <1>11 DEF Running
  <1>12. CASE pc[t] = "pos" /\ pc'[t] = "store_pos" /\ index'[t] = pos /\ pos' = pos
    BY <1>5, <1>6, <1>7, <1>12 DEF Running
  <1>13. CASE pc[t] = "store_pos" /\ pc'[t] = "val" /\ pos' = index[t] + 1 /\ index' = index
    <2>1. ~Running(t)' /\ Running(t)
      BY <1>13 DEF Running
    <2>2. Running(o) => index[t] < npos
      BY <1>6, <1>13
    <2>3. Running(o) => pos' < npos \/ pos' = npos
      BY <1>0, <1>2, <1>13, <2>2
    <2>4. pos' <= npos + 1
      BY <1>0, <1>2, <1>6, <1>13
    <2>5. pc[o] = "store_pos" => index[o] < npos
      BY <1>5, <2>1
    <2> QED BY <1>7, <1>13, <2>1, <2>3, <2>4, <2>5 DEF Running
  <1>14. CASE /\ pc[t] \in {"val", "store_value", "unlock", "count"}
              /\ pc'[t] \in {"store_value", "unlock", "count", "test"} /\ UNCHANGED <<pos, index>>
    BY <1>5, <1>7, <1>14 DEF Running
  <1> QED BY <1>8, <1>9, <1>10, <1>11, <1>12, <1>13, <1>14, FreeStep

\* Two threads without the mutex store at most one position beyond the last
\* (prob07/p1b.c:16-25), whatever the number of positions.
THEOREM OverrunOfTwo == FillSpec => []OverrunIsBounded
  <1> DEFINE Inv == (program = "prob07/p1b" /\ nthr <= 2) => Overrun
  <1>1. PthreadsInit /\ FillInit => Inv
    <2> SUFFICES ASSUME PthreadsInit, FillInit PROVE Overrun
      OBVIOUS
    <2>1. /\ \A t \in Tids : pc[t] = "unborn"
          /\ npos \in Nat /\ pos = 0
      BY MaxElemsAssumption DEF PthreadsInit, FillInit
    <2> QED BY <2>1, TwoThreads DEF Overrun, OverrunAt
  <1>2. TypeInv /\ Inv /\ [FillNext]_FillVars => Inv'
    <2> SUFFICES ASSUME TypeInv, Inv, [FillNext]_FillVars, (program = "prob07/p1b" /\ nthr <= 2)'
                 PROVE  Overrun'
      OBVIOUS
    <2>1. CASE UNCHANGED FillVars
      <3>1. UNCHANGED <<program, nthr, npos, pc, pos, index>>
        BY <2>1 DEF FillVars, pthread_vars, fill_vars
      <3> QED BY <3>1 DEF Overrun, OverrunAt, Running
    <2>2. CASE FillNext
      <3>1. program = program' /\ nthr' = nthr
        BY <2>2 DEF FillNext, p1a, p1b, p3, MakeFill, JoinFill, Verify, VerifyLocking, FillFreely,
             FillLocking, CreateThread, TurnCreate, AllCreated, TurnJoin, AllJoined, MainGoes, Test,
             GoOn, Leave, Store, Count, ThreadGoes, pthread_mutex_unlock, pthread_mutex_lock
      <3>2. p1b /\ program = "prob07/p1b" /\ Overrun /\ nthr <= 2
        BY <2>2, <3>1 DEF FillNext, p1a, p1b, p3
      <3>3. CASE \E t \in Tids : FillFreely(t)
        BY <3>2, <3>3, OverrunStep
      <3>4. CASE UNCHANGED <<pc, pos, index, npos>>
        BY <3>2, <3>4 DEF Overrun, OverrunAt, Running
      <3>5. CASE CreateThread("test") /\ UNCHANGED fill_vars
        <4>1. /\ k \in Two /\ k \in Tids /\ pc' = [pc EXCEPT ![k] = "test"] /\ pc \in [Tids -> Labels]
              /\ UNCHANGED <<pos, index, npos>>
          <5>1. k \in Nat /\ nthr \in Nat /\ k < nthr /\ nthr <= MAXTHREADS
            BY <3>5, MaxThreadsAssumption DEF CreateThread, TypeInv, FillTypeOK, PthreadsTypeOK
          <5>2. k \in Two /\ k \in Tids
            BY <3>2, <5>1, MaxThreadsAssumption DEF Two, Tids
          <5> QED BY <3>5, <5>2 DEF CreateThread, fill_vars, TypeInv, FillTypeOK, PthreadsTypeOK
        <4>2. /\ \A t \in Tids : t # k => pc'[t] = pc[t]
              /\ pc'[k] = "test"
          BY <4>1
        <4>3. \A t \in Two : t \in Tids /\ 1 - t \in Two /\ 1 - t \in Tids
          BY EachOfTwo, TwoThreads
        <4>4. \A t \in Two : Running(t)' => Running(t)
          BY <4>2, <4>3 DEF Running
        <4>5. \A t \in Two : OverrunAt(t)'
          BY <3>2, <4>1, <4>2, <4>3, <4>4 DEF Overrun, OverrunAt
        <4> QED BY <3>2, <4>1, <4>2, <4>5 DEF Overrun
      <3> QED BY <3>2, <3>3, <3>4, <3>5
              DEF p1b, MakeFill, JoinFill, Verify, TurnCreate, AllCreated, TurnJoin, AllJoined,
                  MainGoes, fill_vars
    <2> QED BY <2>1, <2>2
  <1>3. TypeInv /\ Inv => OverrunIsBounded
    <2> SUFFICES ASSUME TypeInv, Overrun PROVE \A t \in Tids : pc[t] \in {"store_val", "store_buf"} => index[t] <= npos
      BY DEF OverrunIsBounded
    <2> QED BY DEF Overrun, OverrunAt
  <1> QED BY <1>1, <1>2, <1>3, FillKeepsTypes, PTL DEF FillSpec, FillVars

-----------------------------------------------------------------------------
(* The counts add up.  Each store of pos is one of the thread's, numbered by  *)
(* what the thread has counted and is about to count.                         *)

Counting == {"val", "store_value", "unlock", "count"}
Stored(t) == count[t] + (IF pc[t] \in Counting THEN 1 ELSE 0)
Stores == {s \in Tids \X Nat : s[2] \in 1 .. Stored(s[1])}

\* What the threads below j have counted.
CountedBelow(j) == {s \in Tids \X Nat : s[1] < j /\ s[2] \in 1 .. count[s[1]]}

\* With the mutex every store of pos is a position more; without it pos, and what is about
\* to be stored there, is no more than the stores there have been.
StoresCover ==
    /\ IsFiniteSet(Stores)
    /\ program \in LockingPrograms => Cardinality(Stores) = pos
    /\ pos <= Cardinality(Stores)
    /\ \A t \in Tids : pc[t] = "store_pos" => index[t] <= Cardinality(Stores)

MainCounts ==
    /\ \A t \in Tids : t >= nthr => pc[t] = "unborn"
    /\ \A t \in Tids : pc[t] = "unborn" => count[t] = 0
    /\ main_at = "create" => \A t \in Tids : t >= k => pc[t] = "unborn"
    /\ main_at = "created" => \A t \in Tids : t > k => pc[t] = "unborn"
    /\ main_at \in {"create", "created"} => total = 0
    /\ main_at = "join" => \A t \in Tids : t < k => pc[t] = "ended"
    /\ main_at = "join" => IsFiniteSet(CountedBelow(k)) /\ total = Cardinality(CountedBelow(k))
    /\ main_at = "verify" => \A t \in Tids : t < nthr => pc[t] = "ended"
    /\ main_at = "verify" => total = Cardinality(CountedBelow(nthr))

\* The last thread to end finds the array full, and nobody stores after it.
FullAtTheEnd ==
    (nthr > 0 /\ \A t \in Tids : t < nthr => pc[t] = "ended") => pos >= npos

Adding == StoresCover /\ MainCounts /\ FullAtTheEnd

\* What a step of a filling thread does to pos and to its count.
LEMMA FillStep ==
    ASSUME TypeInv, NEW t \in Tids, FillFreely(t) \/ FillLocking(t)
    PROVE  /\ UNCHANGED <<program, main_at, k, nthr, npos, total>>
           /\ pc[t] \notin {"unborn", "ended"}
           /\ \A u \in Tids : u # t => pc'[u] = pc[u] /\ index'[u] = index[u] /\ count'[u] = count[u]
           /\ \/ /\ pc[t] = "store_pos" /\ pc'[t] = "val" /\ pos' = index[t] + 1
                 /\ count'[t] = count[t]
              \/ /\ pc[t] = "count" /\ pc'[t] \in {"lock", "test"} /\ count'[t] = count[t] + 1
                 /\ pos' = pos
              \/ /\ pos' = pos /\ count'[t] = count[t]
                 /\ pc[t] \in Counting <=> pc'[t] \in Counting
                 /\ pc'[t] = "store_pos" => index'[t] = pos
                 /\ pc'[t] = "ended" => pos >= npos
                 /\ pc'[t] # "unborn"
  <1>1. pc \in [Tids -> Labels] /\ index \in [Tids -> Nat] /\ count \in [Tids -> Nat]
    BY DEF TypeInv, FillTypeOK, PthreadsTypeOK
  <1> USE <1>1 DEF ThreadGoes, fill_vars, Counting
  <1>2. CASE Test(t)
    <2>1. CASE pos >= npos
      BY <1>2, <2>1 DEF Test, Leave, pthread_mutex_unlock
    <2>2. CASE ~(pos >= npos)
      BY <1>2, <2>2 DEF Test, GoOn
    <2> QED BY <2>1, <2>2
  <1>3. CASE Store(t)
    <2>0. UNCHANGED <<npos, count, total>>
      BY <1>3 DEF Store
    <2>1. CASE ThreadGoes(t, "store", "store_val") /\ index' = [index EXCEPT ![t] = pos]
               /\ UNCHANGED <<value, buf, pos, val>>
      BY <2>0, <2>1
    <2>2. CASE ThreadGoes(t, "store_val", "store_buf") /\ UNCHANGED <<index, pos>>
      BY <2>0, <2>2
    <2>3. CASE ThreadGoes(t, "store_buf", "pos") /\ UNCHANGED <<index, pos>>
      BY <2>0, <2>3
    <2>4. CASE ThreadGoes(t, "pos", "store_pos") /\ index' = [index EXCEPT ![t] = pos]
               /\ UNCHANGED <<value, buf, pos, val>>
      BY <2>0, <2>4
    <2>5. CASE ThreadGoes(t, "store_pos", "val") /\ pos' = index[t] + 1 /\ UNCHANGED index
      BY <2>0, <2>5
    <2>6. CASE ThreadGoes(t, "val", "store_value") /\ UNCHANGED <<index, pos>>
      BY <2>0, <2>6
    <2>7. CASE ThreadGoes(t, "store_value", "unlock") /\ UNCHANGED <<index, pos>>
      BY <2>0, <2>7
    <2> QED BY <1>3, <2>1, <2>2, <2>3, <2>4, <2>5, <2>6, <2>7 DEF Store
  <1>4. CASE ThreadGoes(t, "unlock", "count") /\ UNCHANGED fill_vars
    BY <1>4
  <1>5. CASE Count(t, "test") \/ Count(t, "lock")
    BY <1>5 DEF Count
  <1>6. CASE ThreadGoes(t, "lock", "test") /\ UNCHANGED fill_vars
    BY <1>6
  <1> QED BY <1>2, <1>3, <1>4, <1>5, <1>6
          DEF FillFreely, FillLocking, pthread_mutex_lock, pthread_mutex_unlock

\* What a thread has stored, before a step and after.
StoredRight ==
    \A t \in Tids : /\ count[t] \in Nat /\ Stored(t) \in Nat
                    /\ pc[t] \in Counting => Stored(t) = count[t] + 1
                    /\ pc[t] \notin Counting => Stored(t) = count[t]

LEMMA StoredLemma == TypeInv => StoredRight
  <1> SUFFICES ASSUME TypeInv, NEW t \in Tids
               PROVE  /\ count[t] \in Nat /\ Stored(t) \in Nat
                      /\ pc[t] \in Counting => Stored(t) = count[t] + 1
                      /\ pc[t] \notin Counting => Stored(t) = count[t]
    BY DEF StoredRight
  <1>1. count[t] \in Nat
    BY DEF TypeInv, FillTypeOK
  <1>2. CASE pc[t] \in Counting
    BY <1>1, <1>2 DEF Stored
  <1>3. CASE pc[t] \notin Counting
    BY <1>1, <1>3 DEF Stored
  <1> QED BY <1>2, <1>3

LEMMA StoredNext == TypeInv' => StoredRight'
  BY StoredLemma, PTL

\* The set of the stores changes as the thread's number of them does.
LEMMA StoresStay ==
    ASSUME \A t \in Tids : Stored(t)' = Stored(t)
    PROVE  Stores' = Stores
  BY DEF Stores

LEMMA StoresGrow ==
    ASSUME StoredRight, IsFiniteSet(Stores), NEW t \in Tids, Stored(t)' = Stored(t) + 1,
           \A u \in Tids : u # t => Stored(u)' = Stored(u)
    PROVE  IsFiniteSet(Stores') /\ Cardinality(Stores') = Cardinality(Stores) + 1
  <1>1. PICK s : s = <<t, Stored(t) + 1>>
    OBVIOUS
  <1>2. Stored(t) \in Nat
    BY DEF StoredRight
  <1>3. s \in Tids \X Nat /\ s[1] = t /\ s[2] = Stored(t) + 1
    BY <1>1, <1>2
  <1>4. s \notin Stores
    BY <1>2, <1>3 DEF Stores
  <1>5. ASSUME NEW r \in Tids \X Nat PROVE r \in Stores' <=> r \in Stores \cup {s}
    <2>1. CASE r[1] = t
      <3>1. r[2] \in 1 .. Stored(t) + 1 <=> r[2] \in 1 .. Stored(t) \/ r[2] = Stored(t) + 1
        BY <1>2
      <3>2. r = s <=> r[2] = Stored(t) + 1
        BY <1>1, <2>1
      <3> QED BY <2>1, <3>1, <3>2 DEF Stores
    <2>2. CASE r[1] # t
      <3>1. r[1] \in Tids /\ Stored(r[1])' = Stored(r[1])
        BY <2>2
      <3> QED BY <1>3, <2>2, <3>1 DEF Stores
    <2> QED BY <2>1, <2>2
  <1>6. Stores' = Stores \cup {s}
    <2>1. Stores' \subseteq Tids \X Nat /\ Stores \subseteq Tids \X Nat
      BY DEF Stores, Tids
    <2> QED BY <1>3, <1>5, <2>1
  <1> QED BY <1>4, <1>6, FS_AddElement

\* The stores of one thread more.
LEMMA CountedBelowOneMore ==
    ASSUME TypeInv, NEW j \in Tids, IsFiniteSet(CountedBelow(j))
    PROVE  /\ IsFiniteSet(CountedBelow(j + 1))
           /\ Cardinality(CountedBelow(j + 1)) = Cardinality(CountedBelow(j)) + count[j]
  <1>1. count[j] \in Nat /\ j \in Int /\ \A u \in Tids : u \in Int
    BY TwoThreads DEF TypeInv, FillTypeOK
  <1>2. PICK own : own = {<<j, c>> : c \in 1 .. count[j]}
    OBVIOUS
  <1> DEFINE pair == [c \in 1 .. count[j] |-> <<j, c>>]
  <1>4. IsFiniteSet(1 .. count[j]) /\ Cardinality(1 .. count[j]) = count[j]
    <2>1. PICK m \in Nat : m = count[j]
      BY <1>1
    <2>2. IsFiniteSet(1 .. m) /\ Cardinality(1 .. m) = m
      <3>1. 1 \in Int /\ m \in Int /\ (1 > m => m = 0)
        OBVIOUS
      <3>2. IsFiniteSet(1 .. m) /\ Cardinality(1 .. m) = IF 1 > m THEN 0 ELSE m - 1 + 1
        BY <3>1, FS_Interval, Zenon
      <3> QED BY <3>1, <3>2
    <2> QED BY <2>1, <2>2
  <1>5. IsFiniteSet(own) /\ Cardinality(own) = count[j]
    <2>1. pair \in Surjection(1 .. count[j], own)
      BY <1>2 DEF Surjection
    <2>2. \A a, b \in DOMAIN pair : pair[a] = pair[b] => a = b
      OBVIOUS
    <2>3. pair \in Injection(1 .. count[j], own)
      BY <2>1, <2>2 DEF Surjection, Injection, IsInjective
    <2> QED BY <1>4, <2>1, <2>3, FS_Surjection
  <1>6. CountedBelow(j + 1) = CountedBelow(j) \cup own
    <2>1. own \subseteq Tids \X Nat
      BY <1>1, <1>2
    <2>2. ASSUME NEW r \in Tids \X Nat PROVE r \in CountedBelow(j + 1) <=> r \in CountedBelow(j) \cup own
      <3>0. r[1] \in Tids
        OBVIOUS
      <3>1. r[1] < j + 1 <=> r[1] < j \/ r[1] = j
        <4>1. PICK x \in Int : x = r[1]
          BY <1>1, <3>0
        <4>2. x < j + 1 <=> x < j \/ x = j
          BY <1>1
        <4> QED BY <4>1, <4>2
      <3>2. r \in own <=> r[1] = j /\ r[2] \in 1 .. count[j]
        BY <1>2
      <3> QED BY <1>1, <3>1, <3>2 DEF CountedBelow
    <2> QED BY <2>1, <2>2 DEF CountedBelow
  <1>7. CountedBelow(j) \cap own = {}
    <2>1. \A r \in own : r[1] = j
      BY <1>2
    <2> QED BY <1>1, <2>1 DEF CountedBelow
  <1>8. Cardinality(CountedBelow(j) \cap own) = 0 /\ Cardinality(CountedBelow(j)) \in Nat
    BY <1>7, FS_EmptySet, FS_CardinalityType
  <1>9. /\ IsFiniteSet(CountedBelow(j) \cup own)
        /\ Cardinality(CountedBelow(j) \cup own) =
              Cardinality(CountedBelow(j)) + Cardinality(own) - Cardinality(CountedBelow(j) \cap own)
    BY <1>5, FS_Union
  <1>10. Cardinality(CountedBelow(j) \cup own) = Cardinality(CountedBelow(j)) + count[j]
    <2>1. PICK a \in Nat, c \in Nat : a = Cardinality(CountedBelow(j)) /\ c = count[j]
      BY <1>1, <1>8
    <2>2. Cardinality(CountedBelow(j) \cup own) = a + c - 0
      BY <1>5, <1>8, <1>9, <2>1
    <2> QED BY <2>1, <2>2
  <1> QED BY <1>6, <1>9, <1>10

\* A filling thread's step.
LEMMA FillingAddsUp ==
    ASSUME TypeInv, TypeInv', RightIfLocked, Adding, NEW t \in Tids, FillFreely(t) \/ FillLocking(t)
    PROVE  Adding'
  <1>0. /\ pos \in Nat /\ npos \in Nat /\ index \in [Tids -> Nat] /\ k \in Int /\ nthr \in Int
        /\ Tids \subseteq Int
    BY MaxElemsAssumption, MaxThreadsAssumption, TwoThreads DEF TypeInv, FillTypeOK, PthreadsTypeOK
  <1>1. /\ UNCHANGED <<program, main_at, k, nthr, npos, total>>
        /\ pc[t] \notin {"unborn", "ended"}
        /\ \A u \in Tids : u # t => pc'[u] = pc[u] /\ index'[u] = index[u] /\ count'[u] = count[u]
    BY FillStep
  <1>2. StoredRight /\ StoredRight'
    BY StoredLemma, StoredNext
  <1>3. \A u \in Tids : u # t => Stored(u)' = Stored(u)
    BY <1>1 DEF Stored
  <1>4. IsFiniteSet(Stores) /\ Cardinality(Stores) \in Nat /\ pos <= Cardinality(Stores)
    BY FS_CardinalityType DEF Adding, StoresCover
  <1>5. PICK n \in Nat : n = Cardinality(Stores)
    BY <1>4
  <1>6. \A u \in Tids : pc[u] = "store_pos" => index[u] \in Nat /\ index[u] <= n
    BY <1>0, <1>5 DEF Adding, StoresCover
  <1>7. /\ StoresCover'
        /\ ((nthr > 0 /\ \A u \in Tids : u < nthr => pc'[u] = "ended") => pos' >= npos)
        /\ pc'[t] # "unborn"
    <2>1. CASE pc[t] = "store_pos" /\ pc'[t] = "val" /\ pos' = index[t] + 1 /\ count'[t] = count[t]
      <3>1. Stored(t)' = Stored(t) + 1
        BY <1>2, <2>1 DEF StoredRight, Counting
      <3>2. IsFiniteSet(Stores') /\ Cardinality(Stores') = n + 1
        BY <1>2, <1>3, <1>4, <1>5, <3>1, StoresGrow
      <3>3. pos' <= n + 1
        BY <1>5, <1>6, <2>1
      <3>4. program \in LockingPrograms => pos' = n + 1
        <4>1. program \in LockingPrograms => index[t] = pos
          BY <2>1 DEF RightIfLocked, Right, AtStatement
        <4> QED BY <1>5, <2>1, <4>1 DEF Adding, StoresCover
      <3>5. \A u \in Tids : pc'[u] = "store_pos" => index'[u] <= n + 1
        <4> SUFFICES ASSUME NEW u \in Tids, pc'[u] = "store_pos" PROVE index'[u] <= n + 1
          OBVIOUS
        <4>1. u # t
          BY <2>1
        <4>2. index'[u] \in Nat /\ index'[u] <= n
          BY <1>1, <1>6, <4>1
        <4> QED BY <1>5, <4>2
      <3>6. StoresCover'
        BY <1>1, <3>2, <3>3, <3>4, <3>5 DEF StoresCover
      <3>7. t < nthr
        BY <1>0, <1>1 DEF Adding, MainCounts
      <3> QED BY <2>1, <3>6, <3>7
    <2>2. CASE /\ pc[t] = "count" /\ pc'[t] \in {"lock", "test"} /\ count'[t] = count[t] + 1
               /\ pos' = pos
      <3>1. Stored(t)' = Stored(t)
        BY <1>2, <2>2 DEF StoredRight, Counting
      <3>2. Stores' = Stores
        BY <1>3, <3>1, StoresStay
      <3>3. \A u \in Tids : pc'[u] = "store_pos" => pc[u] = "store_pos" /\ index'[u] = index[u]
        BY <1>1, <2>2
      <3>4. StoresCover'
        BY <1>1, <2>2, <3>2, <3>3 DEF Adding, StoresCover
      <3>5. t < nthr
        BY <1>0, <1>1 DEF Adding, MainCounts
      <3> QED BY <2>2, <3>4, <3>5
    <2>3. CASE /\ pos' = pos /\ count'[t] = count[t]
               /\ pc[t] \in Counting <=> pc'[t] \in Counting
               /\ pc'[t] = "store_pos" => index'[t] = pos
               /\ pc'[t] = "ended" => pos >= npos
               /\ pc'[t] # "unborn"
      <3>1. Stored(t)' = Stored(t)
        BY <2>3 DEF Stored
      <3>2. Stores' = Stores
        BY <1>3, <3>1, StoresStay
      <3>3. \A u \in Tids : pc'[u] = "store_pos" => index'[u] <= Cardinality(Stores)
        BY <1>1, <1>4, <1>5, <1>6, <2>3
      <3>4. StoresCover'
        BY <1>1, <2>3, <3>2, <3>3 DEF Adding, StoresCover
      <3>5. t < nthr
        BY <1>0, <1>1 DEF Adding, MainCounts
      <3> QED BY <2>3, <3>4, <3>5
    <2> QED BY <2>1, <2>2, <2>3, FillStep
  <1>8. MainCounts'
    <2>1. \A u \in Tids : pc[u] \in {"unborn", "ended"} => pc'[u] = pc[u] /\ count'[u] = count[u]
      BY <1>1
    <2>2. \A u \in Tids : pc'[u] = "unborn" => pc[u] = "unborn"
      BY <1>1, <1>7
    <2>3. main_at = "join" => CountedBelow(k)' = CountedBelow(k)
      <3> SUFFICES ASSUME main_at = "join" PROVE CountedBelow(k)' = CountedBelow(k)
        OBVIOUS
      <3>1. \A u \in Tids : u < k => count'[u] = count[u]
        BY <2>1 DEF Adding, MainCounts
      <3>2. \A s \in Tids \X Nat : s[1] < k => count'[s[1]] = count[s[1]]
        BY <3>1
      <3> QED BY <1>1, <3>2 DEF CountedBelow
    <2>4. main_at = "verify" => FALSE
      BY <1>0, <1>1 DEF Adding, MainCounts
    <2>5. MainCounts
      BY DEF Adding
    <2>6. (\A u \in Tids : u >= nthr => pc'[u] = "unborn")
          /\ (\A u \in Tids : pc'[u] = "unborn" => count'[u] = 0)
      BY <2>1, <2>2, <2>5 DEF MainCounts
    <2>7. /\ main_at = "create" => \A u \in Tids : u >= k => pc'[u] = "unborn"
          /\ main_at = "created" => \A u \in Tids : u > k => pc'[u] = "unborn"
      BY <2>1, <2>5 DEF MainCounts
    <2>8. main_at = "join" => \A u \in Tids : u < k => pc'[u] = "ended"
      BY <2>1, <2>5 DEF MainCounts
    <2> QED BY <1>1, <2>3, <2>4, <2>5, <2>6, <2>7, <2>8 DEF MainCounts
  <1>9. FullAtTheEnd'
    BY <1>1, <1>7 DEF FullAtTheEnd
  <1> QED BY <1>7, <1>8, <1>9 DEF Adding

\* And a step of main.
LEMMA MainAddsUp ==
    ASSUME TypeInv, TypeInv', Adding, MakeFill("lock") \/ MakeFill("test") \/ JoinFill \/ Verify
    PROVE  Adding'
  <1>0. /\ pos \in Nat /\ npos \in Nat /\ index \in [Tids -> Nat] /\ k \in Nat /\ nthr \in Nat
        /\ Tids \subseteq Int /\ pc \in [Tids -> Labels] /\ MainCounts /\ StoresCover /\ FullAtTheEnd
        /\ count \in [Tids -> Nat] /\ (k < nthr => k \in Tids)
    <2>1. npos \in Nat /\ k \in 0 .. nthr /\ nthr \in 0 .. MAXTHREADS
      BY MaxElemsAssumption DEF TypeInv, FillTypeOK, PthreadsTypeOK
    <2>2. k \in Nat /\ nthr \in Nat /\ (k < nthr => k \in Tids)
      BY <2>1, MaxThreadsAssumption DEF Tids
    <2> QED BY <2>1, <2>2, TwoThreads DEF TypeInv, FillTypeOK, PthreadsTypeOK, Adding
  <1>1. CASE (CreateThread("lock") \/ CreateThread("test")) /\ UNCHANGED fill_vars
    <2>1. /\ main_at = "create" /\ main_at' = "created" /\ k < nthr /\ k \in Tids
          /\ UNCHANGED <<program, k, nthr, npos, pos, index, count, total>>
      BY <1>0, <1>1 DEF CreateThread, fill_vars
    <2>2. /\ pc'[k] \in {"lock", "test"} /\ \A u \in Tids : u # k => pc'[u] = pc[u]
          /\ pc[k] = "unborn"
      BY <1>0, <1>1, <2>1 DEF CreateThread, MainCounts
    <2>3. \A u \in Tids : Stored(u)' = Stored(u)
      BY <2>1, <2>2 DEF Stored, Counting
    <2>4. StoresCover'
      <3>1. Stores' = Stores
        BY <2>3, StoresStay
      <3>2. \A u \in Tids : pc'[u] = "store_pos" => pc[u] = "store_pos"
        BY <2>2
      <3> QED BY <1>0, <2>1, <3>1, <3>2 DEF StoresCover
    <2>5. MainCounts'
      <3>1. \A u \in Tids : u >= nthr => u # k
        BY <1>0, <2>1
      <3> QED BY <1>0, <2>1, <2>2, <3>1 DEF MainCounts
    <2>6. FullAtTheEnd'
      BY <2>1, <2>2 DEF FullAtTheEnd
    <2> QED BY <2>4, <2>5, <2>6 DEF Adding
  <1>2. ASSUME UNCHANGED <<program, nthr, pc, npos, pos, index, count>>, MainCounts'
        PROVE  Adding'
    <2>1. \A u \in Tids : Stored(u)' = Stored(u)
      BY <1>2 DEF Stored
    <2>2. Stores' = Stores
      BY <2>1, StoresStay
    <2> QED BY <1>0, <1>2, <2>2 DEF Adding, StoresCover, FullAtTheEnd
  <1> USE DEF fill_vars, MainGoes
  <1>3. CASE TurnCreate("created") /\ UNCHANGED fill_vars
    <2>1. /\ main_at = "created" /\ main_at' = "create" /\ k' = k + 1
          /\ UNCHANGED <<program, nthr, pc, npos, pos, index, count, total>>
      BY <1>3 DEF TurnCreate
    <2>2. \A u \in Tids : u >= k + 1 => u > k
      BY <1>0
    <2>3. MainCounts'
      BY <1>0, <2>1, <2>2 DEF MainCounts
    <2> QED BY <1>2, <2>1, <2>3
  <1>4. CASE AllCreated("join") /\ k' = 0 /\ UNCHANGED fill_vars
    <2>1. /\ main_at = "create" /\ main_at' = "join" /\ k' = 0 /\ k >= nthr
          /\ UNCHANGED <<program, nthr, pc, npos, pos, index, count, total>>
      BY <1>4 DEF AllCreated
    <2>2. \A u \in Tids : ~(u < 0)
      BY MaxThreadsAssumption DEF Tids
    <2>3. CountedBelow(k)' = {}
      BY <2>1, <2>2 DEF CountedBelow
    <2>4. MainCounts'
      BY <1>0, <2>1, <2>2, <2>3, FS_EmptySet DEF MainCounts
    <2> QED BY <1>2, <2>1, <2>4
  <1>5. CASE /\ TurnJoin /\ total' = total + count[k]
             /\ UNCHANGED <<npos, buf, pos, val, index, value, count, errors>>
    <2>1. /\ main_at = "join" /\ main_at' = "join" /\ k' = k + 1 /\ k \in Tids /\ pc[k] = "ended"
          /\ UNCHANGED <<program, nthr, pc, npos, pos, index, count>>
      BY <1>0, <1>5 DEF TurnJoin, JoinedThread
    <2>2. CountedBelow(k)' = CountedBelow(k + 1)
      BY <2>1 DEF CountedBelow
    <2>3. IsFiniteSet(CountedBelow(k + 1)) /\ total' = Cardinality(CountedBelow(k + 1))
      BY <1>0, <1>5, <2>1, CountedBelowOneMore DEF MainCounts
    <2>4. \A u \in Tids : u < k + 1 => u < k \/ u = k
      BY <1>0
    <2>5. MainCounts'
      BY <1>0, <2>1, <2>2, <2>3, <2>4 DEF MainCounts
    <2> QED BY <1>2, <2>1, <2>5
  <1>6. CASE AllJoined("verify") /\ UNCHANGED fill_vars
    <2>1. /\ main_at = "join" /\ main_at' = "verify" /\ k' = k /\ k = nthr
          /\ UNCHANGED <<program, nthr, pc, npos, pos, index, count, total>>
      BY <1>6 DEF AllJoined, TypeInv, FillTypeOK, PthreadsTypeOK
    <2>2. CountedBelow(nthr)' = CountedBelow(k)
      BY <2>1 DEF CountedBelow
    <2>3. MainCounts'
      BY <1>0, <2>1, <2>2 DEF MainCounts
    <2> QED BY <1>2, <2>1, <2>3
  <1>7. CASE Verify
    <2>1. main_at' = "verified" /\ UNCHANGED <<program, k, nthr, pc, npos, pos, index, count, total>>
      BY <1>7 DEF Verify
    <2>2. MainCounts'
      BY <1>0, <2>1 DEF MainCounts
    <2> QED BY <1>2, <2>1, <2>2
  <1> QED BY <1>1, <1>3, <1>4, <1>5, <1>6, <1>7 DEF MakeFill, JoinFill

\* With the mutex the threads' counts add up to the positions, without it to that at least
\* (prob07/p1a.c:26, 61-66; p1b.c): what is stored at pos is never more than has been
\* stored, and the last thread finds the array full.
THEOREM CountsOfAll == FillSpec => []CountsAddUp
  <1>1. TypeInv /\ PthreadsInit /\ FillInit => Adding
    <2> SUFFICES ASSUME TypeInv, PthreadsInit, FillInit PROVE Adding
      OBVIOUS
    <2>1. /\ \A t \in Tids : pc[t] = "unborn" /\ count[t] = 0
          /\ pos = 0 /\ total = 0 /\ main_at = "create"
      BY DEF PthreadsInit, FillInit
    <2>2. StoredRight
      BY StoredLemma
    <2>3. \A t \in Tids : Stored(t) = 0
      BY <2>1, <2>2 DEF StoredRight, Counting
    <2>4. Stores = {}
      BY <2>3 DEF Stores
    <2>5. StoresCover
      BY <2>1, <2>4, FS_EmptySet DEF StoresCover
    <2>6. FullAtTheEnd
      <3>1. nthr > 0 => 0 \in Tids /\ 0 < nthr
        BY TwoThreads
      <3> QED BY <2>1, <3>1 DEF FullAtTheEnd
    <2>7. \A t \in Tids : pc[t] = "unborn" /\ count[t] = 0
      BY <2>1
    <2> QED BY <2>1, <2>5, <2>6 DEF Adding, MainCounts
  <1>2. TypeInv /\ TypeInv' /\ RightIfLocked /\ Adding /\ [FillNext]_FillVars => Adding'
    <2> SUFFICES ASSUME TypeInv, TypeInv', RightIfLocked, Adding, [FillNext]_FillVars PROVE Adding'
      OBVIOUS
    <2>1. CASE UNCHANGED FillVars
      <3>1. UNCHANGED <<program, main_at, k, nthr, npos, pc, pos, index, count, total>>
        BY <2>1 DEF FillVars, pthread_vars, fill_vars
      <3>2. \A t \in Tids : Stored(t)' = Stored(t)
        BY <3>1 DEF Stored
      <3>3. Stores' = Stores
        BY <3>2, StoresStay
      <3>4. CountedBelow(k)' = CountedBelow(k) /\ CountedBelow(nthr)' = CountedBelow(nthr)
        BY <3>1 DEF CountedBelow
      <3> QED BY <3>1, <3>3, <3>4 DEF Adding, StoresCover, MainCounts, FullAtTheEnd
    <2>2. CASE FillNext
      BY <2>2, FillingAddsUp, MainAddsUp DEF FillNext, p1a, p1b, p3, VerifyLocking
    <2> QED BY <2>1, <2>2
  <1>3. TypeInv /\ RightIfLocked /\ Adding => CountsAddUp
    <2> SUFFICES ASSUME TypeInv, RightIfLocked, Adding, main_at = "verify", nthr > 0
                 PROVE  /\ program \in LockingPrograms => total = npos
                        /\ program = "prob07/p1b" => total >= npos
      BY DEF CountsAddUp
    <2>1. MainCounts /\ StoresCover /\ FullAtTheEnd /\ StoredRight
      BY StoredLemma DEF Adding
    <2>2. nthr \in Int /\ npos \in Nat /\ pos \in Nat /\ (\A u \in Tids : u \in Int) /\ 0 \in Tids
      BY MaxThreadsAssumption, MaxElemsAssumption, TwoThreads DEF TypeInv, FillTypeOK, PthreadsTypeOK
    <2>3. pos >= npos
      BY <2>1 DEF FullAtTheEnd, MainCounts
    <2>4. CountedBelow(nthr) = Stores
      <3>1. ASSUME NEW s \in Tids \X Nat PROVE s \in CountedBelow(nthr) <=> s \in Stores
        <4>1. CASE s[1] < nthr
          <5>1. pc[s[1]] = "ended" /\ s[1] \in Tids
            BY <2>1, <4>1 DEF MainCounts
          <5>2. Stored(s[1]) = count[s[1]]
            BY <2>1, <5>1 DEF StoredRight, Counting
          <5> QED BY <4>1, <5>2 DEF CountedBelow, Stores
        <4>2. CASE ~(s[1] < nthr)
          <5>0. s[1] \in Tids
            OBVIOUS
          <5>1. s[1] \in Tids /\ s[1] >= nthr
            BY <2>2, <4>2, <5>0
          <5>2. pc[s[1]] = "unborn" /\ count[s[1]] = 0
            BY <2>1, <5>1 DEF MainCounts
          <5>3. Stored(s[1]) = 0
            BY <2>1, <5>1, <5>2 DEF StoredRight, Counting
          <5> QED BY <4>2, <5>3 DEF CountedBelow, Stores
        <4> QED BY <4>1, <4>2
      <3> QED BY <3>1 DEF CountedBelow, Stores
    <2>5. total = Cardinality(Stores) /\ pos <= total
      BY <2>1, <2>4 DEF MainCounts, StoresCover
    <2>6. program \in LockingPrograms => pos = total /\ pos <= npos
      BY <2>1, <2>5 DEF StoresCover, RightIfLocked, Right, Filled
    <2>7. total \in Int
      BY DEF TypeInv, FillTypeOK
    <2> QED BY <2>2, <2>3, <2>5, <2>6, <2>7
  <1> QED BY FillInitTyped, FillKeepsTypes, LockingStaysRight, <1>1, <1>2, <1>3, PTL DEF FillSpec, FillVars

-----------------------------------------------------------------------------
(* The threads that print once.  A thread has a line when it has ended, or, in *)
(* p05b, when main has joined it.                                             *)

HelloVars == <<pthread_vars, hello_vars>>

HelloStatements == {"create", "created", "exited", "exit", "gone", "join"}

HelloTyped ==
    /\ program \in HelloPrograms /\ main_at \in HelloStatements
    /\ nthr \in Nat /\ nthr <= MAXTHREADS /\ k \in Nat /\ k <= nthr
    /\ pc \in [Tids -> {"unborn", "print", "ended"}]
    /\ printed \in Seq(Tids \X Seq(Int)) /\ operands \in Int \X Int

\* Threads are made in the order of their numbers; one that reads main's counter finds it
\* no lower than when the thread was made.
MadeInTurn ==
    /\ \A t \in Tids : pc[t] # "unborn" => t < nthr /\ (program # "prob06/p05b" => t <= k)
    /\ main_at = "create" => \A t \in Tids : t >= k => pc[t] = "unborn"
    /\ main_at = "created" => k < nthr /\ \A t \in Tids : t > k => pc[t] = "unborn"
    /\ main_at = "exited" => k >= nthr

HasLine(t) == \E n \in 1 .. Len(printed) : printed[n][1] = t
LineIsDue(t) == IF program = "prob06/p05b" THEN main_at \in {"join", "exited"} /\ t < k
                                           ELSE pc[t] = "ended"
OneLineEach ==
    /\ \A m, n \in 1 .. Len(printed) : printed[m][1] = printed[n][1] => m = n
    /\ \A t \in Tids : HasLine(t) <=> LineIsDue(t)

\* p04c makes a thread when the last one has ended, p05b prints when all are made.
LinesInTurn ==
    /\ program \in {"prob06/p04c", "prob06/p05b"} =>
           \A n \in 1 .. Len(printed) : printed[n][1] = n - 1
    /\ program = "prob06/p04c" =>
           /\ \A t \in Tids : pc[t] = "print" => main_at = "created" /\ t = k /\ Len(printed) = k
           /\ main_at = "created" => (pc[k] = "ended" => Len(printed) = k + 1)
           /\ main_at # "created" => Len(printed) = k
    /\ program = "prob06/p05b" =>
           /\ main_at \in {"join", "exited"} => Len(printed) = k
           /\ main_at \notin {"join", "exited"} => Len(printed) = 0
           /\ \A t \in Tids : pc[t] = "ended" => returned[t] = operation(t, operands[1], operands[2])

LinesAreTrue ==
    Outlived => \A n \in 1 .. Len(printed) :
        /\ program \in CounterPrograms => printed[n][2][1] \in printed[n][1] .. nthr
        /\ program \in NumberPrograms => printed[n][2] = <<printed[n][1]>>
        /\ program \in OperationPrograms =>
               printed[n][2] = operation(printed[n][1], operands[1], operands[2])

HelloInv == HelloTyped /\ MadeInTurn /\ OneLineEach /\ LinesInTurn /\ LinesAreTrue

\* The numbers of the threads, and of the one that main makes or joins.
LEMMA CounterIsThread ==
    ASSUME HelloTyped
    PROVE  /\ \A t \in Tids : t \in Int /\ t >= 0
           /\ k < nthr => k \in Tids
           /\ \A j \in Int : 0 <= j /\ j < nthr => j \in Tids
  BY MaxThreadsAssumption DEF HelloTyped, Tids

LEMMA OperationType ==
    ASSUME NEW t, NEW x \in Int, NEW y \in Int
    PROVE  operation(t, x, y) \in Seq(Int)
  <1>1. <<x + y>> \in Seq(Int) /\ <<x - y>> \in Seq(Int) /\ <<x * y>> \in Seq(Int)
    OBVIOUS
  <1>2. <<x, y>> \in Seq(Int) /\ << >> \in Seq(Int)
    OBVIOUS
  <1> QED BY <1>1, <1>2 DEF operation

\* A line that is printed is the last, and one thread's first.
LEMMA OneMoreLine ==
    ASSUME HelloTyped, OneLineEach, NEW t \in Tids, NEW w \in Seq(Int), ~HasLine(t),
           printed' = Append(printed, <<t, w>>)
    PROVE  /\ printed' \in Seq(Tids \X Seq(Int)) /\ Len(printed') = Len(printed) + 1
           /\ \A n \in 1 .. Len(printed') :
                  \/ n \in 1 .. Len(printed) /\ printed'[n] = printed[n]
                  \/ n = Len(printed) + 1 /\ printed'[n][1] = t /\ printed'[n][2] = w
           /\ \A m, n \in 1 .. Len(printed') : printed'[m][1] = printed'[n][1] => m = n
           /\ \A u \in Tids : HasLine(u)' <=> HasLine(u) \/ u = t
  <1>1. PICK l \in Nat : l = Len(printed)
    BY DEF HelloTyped
  <1>2. PICK e \in Tids \X Seq(Int) : e = <<t, w>> /\ e[1] = t /\ e[2] = w
    <2>1. <<t, w>> \in Tids \X Seq(Int)
      OBVIOUS
    <2>2. <<t, w>>[1] = t /\ <<t, w>>[2] = w
      OBVIOUS
    <2> QED BY <2>1, <2>2
  <1>3. /\ printed' \in Seq(Tids \X Seq(Int)) /\ Len(printed') = l + 1
        /\ \A n \in 1 .. l : printed'[n] = printed[n]
        /\ printed'[l + 1] = e
    BY <1>1, <1>2, AppendProperties DEF HelloTyped
  <1>4. \A n \in 1 .. l + 1 : n \in 1 .. l \/ n = l + 1
    OBVIOUS
  <1>5. \A n \in 1 .. l : printed[n][1] # t
    BY <1>1 DEF HasLine
  <1>6. \A m, n \in 1 .. l + 1 : printed'[m][1] = printed'[n][1] => m = n
    <2>1. /\ \A n \in 1 .. l : printed'[n][1] = printed[n][1] /\ printed[n][1] # t
          /\ printed'[l + 1][1] = t
      BY <1>2, <1>3, <1>5
    <2>2. \A m, n \in 1 .. l : printed[m][1] = printed[n][1] => m = n
      BY <1>1 DEF OneLineEach
    <2> SUFFICES ASSUME NEW m \in 1 .. l + 1, NEW n \in 1 .. l + 1,
                        printed'[m][1] = printed'[n][1]
                 PROVE  m = n
      OBVIOUS
    <2>3. CASE m \in 1 .. l /\ n \in 1 .. l
      BY <2>1, <2>2, <2>3
    <2>4. CASE m = l + 1
      BY <1>4, <2>1, <2>4
    <2>5. CASE n = l + 1
      BY <1>4, <2>1, <2>5
    <2> QED BY <1>4, <2>3, <2>4, <2>5
  <1>7. ASSUME NEW u \in Tids PROVE HasLine(u)' <=> HasLine(u) \/ u = t
    <2>1. HasLine(u) => HasLine(u)'
      <3> SUFFICES ASSUME NEW n \in 1 .. l, printed[n][1] = u PROVE HasLine(u)'
        BY <1>1 DEF HasLine
      <3>1. n \in 1 .. l + 1 /\ printed'[n][1] = u
        BY <1>3
      <3> QED BY <1>3, <3>1 DEF HasLine
    <2>2. HasLine(t)'
      <3>1. l + 1 \in 1 .. l + 1 /\ printed'[l + 1][1] = t
        BY <1>2, <1>3
      <3> QED BY <1>3, <3>1 DEF HasLine
    <2>3. ASSUME HasLine(u)', u # t PROVE HasLine(u)
      <3>1. PICK n \in 1 .. l + 1 : printed'[n][1] = u
        BY <1>3, <2>3 DEF HasLine
      <3>2. n \in 1 .. l /\ printed[n][1] = u
        BY <1>2, <1>3, <1>4, <2>3, <3>1
      <3> QED BY <1>1, <3>2 DEF HasLine
    <2> QED BY <2>1, <2>2, <2>3
  <1> QED BY <1>1, <1>2, <1>3, <1>4, <1>6, <1>7

\* main's steps that print nothing.
LEMMA MainMakes ==
    ASSUME HelloInv, UNCHANGED <<program, nthr, hello_vars>>,
           \/ CreateThread("print")
           \/ TurnCreate("created") /\ (program = "prob06/p04c" => JoinedThread)
    PROVE  HelloInv'
  <1>0. /\ HelloTyped /\ MadeInTurn /\ OneLineEach /\ LinesInTurn /\ LinesAreTrue
        /\ k \in Nat /\ nthr \in Nat /\ pc \in [Tids -> {"unborn", "print", "ended"}]
        /\ (\A t \in Tids : t \in Int) /\ (k < nthr => k \in Tids)
        /\ UNCHANGED <<printed, operands, returned>>
    BY CounterIsThread DEF HelloInv, HelloTyped, hello_vars
  <1>1. \A t : HasLine(t)' <=> HasLine(t)
    BY <1>0 DEF HasLine
  <1>2. LinesAreTrue'
    <2>1. Outlived
      BY DEF Outlived, CreateThread, TurnCreate, MainGoes
    <2> QED BY <1>0, <2>1 DEF LinesAreTrue
  <1>3. CASE CreateThread("print")
    <2>1. /\ main_at = "create" /\ main_at' = "created" /\ k < nthr /\ k \in Tids /\ k' = k
          /\ pc' = [pc EXCEPT ![k] = "print"]
      BY <1>0, <1>3 DEF CreateThread
    <2>2. /\ pc' \in [Tids -> {"unborn", "print", "ended"}]
          /\ pc[k] = "unborn" /\ pc'[k] = "print" /\ \A t \in Tids : t # k => pc'[t] = pc[t]
      BY <1>0, <2>1 DEF MadeInTurn
    <2>3. HelloTyped'
      BY <1>0, <2>1, <2>2 DEF HelloTyped, HelloStatements
    <2>4. MadeInTurn'
      BY <1>0, <2>1, <2>2 DEF MadeInTurn
    <2>5. OneLineEach'
      <3>1. \A t \in Tids : LineIsDue(t)' <=> LineIsDue(t)
        BY <2>1, <2>2 DEF LineIsDue
      <3> QED BY <1>0, <1>1, <3>1 DEF OneLineEach
    <2>6. LinesInTurn'
      BY <1>0, <2>1, <2>2 DEF LinesInTurn
    <2> QED BY <1>2, <2>3, <2>4, <2>5, <2>6 DEF HelloInv
  <1>4. CASE TurnCreate("created") /\ (program = "prob06/p04c" => JoinedThread)
    <2>1. /\ main_at = "created" /\ main_at' = "create" /\ k' = k + 1 /\ pc' = pc /\ k < nthr
          /\ program = "prob06/p04c" => pc[k] = "ended"
      BY <1>0, <1>4 DEF TurnCreate, MainGoes, JoinedThread, MadeInTurn
    <2>2. HelloTyped'
      BY <1>0, <2>1 DEF HelloTyped, HelloStatements
    <2>3. MadeInTurn'
      BY <1>0, <2>1 DEF MadeInTurn
    <2>4. OneLineEach'
      <3>1. \A t \in Tids : LineIsDue(t)' <=> LineIsDue(t)
        BY <2>1 DEF LineIsDue
      <3> QED BY <1>0, <1>1, <3>1 DEF OneLineEach
    <2>5. LinesInTurn'
      <3>1. program = "prob06/p04c" => \A t \in Tids : pc[t] # "print"
        BY <1>0, <2>1 DEF LinesInTurn
      <3> QED BY <1>0, <2>1, <3>1 DEF LinesInTurn
    <2> QED BY <1>2, <2>2, <2>3, <2>4, <2>5 DEF HelloInv
  <1> QED BY <1>3, <1>4

\* main past its loops.
LEMMA MainEnds ==
    ASSUME HelloInv, UNCHANGED <<program, nthr, hello_vars>>,
           \/ AllCreated("exited") /\ k' = k /\ program # "prob06/p05b"
           \/ AllCreated("exit") /\ k' = k /\ program # "prob06/p05b"
           \/ MainGoes("exit", "gone") /\ k' = k
           \/ AllCreated("join") /\ k' = 0 /\ program = "prob06/p05b"
           \/ AllJoined("exited") /\ program = "prob06/p05b"
    PROVE  HelloInv'
  <1>0. /\ HelloTyped /\ MadeInTurn /\ OneLineEach /\ LinesInTurn /\ LinesAreTrue
        /\ k \in Nat /\ nthr \in Nat /\ pc' = pc /\ (\A t \in Tids : t \in Int /\ t >= 0)
        /\ UNCHANGED <<printed, operands, returned>>
    BY CounterIsThread DEF HelloInv, HelloTyped, hello_vars, AllCreated, AllJoined, MainGoes
  <1>1. \A t : HasLine(t)' <=> HasLine(t)
    BY <1>0 DEF HasLine
  <1>2. LinesAreTrue'
    <2>1. Outlived
      BY DEF Outlived, AllCreated, AllJoined, MainGoes
    <2> QED BY <1>0, <2>1 DEF LinesAreTrue
  <1>3. \/ main_at = "create" /\ main_at' \in {"exited", "exit"} /\ k' = k /\ k >= nthr /\ program # "prob06/p05b"
        \/ main_at = "exit" /\ main_at' = "gone" /\ k' = k
        \/ main_at = "create" /\ main_at' = "join" /\ k' = 0 /\ program = "prob06/p05b"
        \/ main_at = "join" /\ main_at' = "exited" /\ k' = k /\ k >= nthr /\ program = "prob06/p05b"
    BY DEF AllCreated, AllJoined, MainGoes
  <1>4. HelloTyped'
    BY <1>0, <1>3 DEF HelloTyped, HelloStatements
  <1>5. MadeInTurn'
    BY <1>0, <1>3 DEF MadeInTurn
  <1>6. OneLineEach'
    <2>1. \A t \in Tids : LineIsDue(t)' <=> LineIsDue(t)
      BY <1>0, <1>3 DEF LineIsDue
    <2> QED BY <1>0, <1>1, <2>1 DEF OneLineEach
  <1>7. LinesInTurn'
    BY <1>0, <1>3 DEF LinesInTurn
  <1> QED BY <1>2, <1>4, <1>5, <1>6, <1>7 DEF HelloInv

\* A thread that prints its line, and is to end.
LEMMA ThreadPrints ==
    ASSUME HelloInv, program # "prob06/p05b", NEW t \in Tids, NEW w \in Seq(Int),
           ThreadGoes(t, "print", "ended"), printed' = Append(printed, <<t, w>>),
           UNCHANGED <<operands, returned>>,
           Outlived => /\ program \in CounterPrograms => w = <<k>>
                       /\ program \in NumberPrograms => w = <<t>>
                       /\ program \in OperationPrograms =>
                              w = operation(t, operands[1], operands[2])
    PROVE  HelloInv'
  <1>0. /\ HelloTyped /\ MadeInTurn /\ OneLineEach /\ LinesInTurn /\ LinesAreTrue
        /\ k \in Nat /\ nthr \in Nat /\ pc \in [Tids -> {"unborn", "print", "ended"}]
        /\ (\A u \in Tids : u \in Int /\ u >= 0) /\ k <= nthr
    BY CounterIsThread DEF HelloInv, HelloTyped
  <1>1. /\ pc[t] = "print" /\ pc'[t] = "ended" /\ UNCHANGED <<program, main_at, k, nthr>>
        /\ pc' \in [Tids -> {"unborn", "print", "ended"}]
        /\ \A u \in Tids : u # t => pc'[u] = pc[u]
    BY <1>0 DEF ThreadGoes
  <1>2. ~HasLine(t)
    BY <1>0, <1>1 DEF OneLineEach, LineIsDue
  <1>3. PICK l \in Nat : l = Len(printed)
    BY <1>0 DEF HelloTyped
  <1>4. /\ printed' \in Seq(Tids \X Seq(Int)) /\ Len(printed') = l + 1
        /\ \A n \in 1 .. l + 1 :
               \/ n \in 1 .. l /\ printed'[n] = printed[n]
               \/ n = l + 1 /\ printed'[n][1] = t /\ printed'[n][2] = w
        /\ \A m, n \in 1 .. l + 1 : printed'[m][1] = printed'[n][1] => m = n
        /\ \A u \in Tids : HasLine(u)' <=> HasLine(u) \/ u = t
    BY <1>0, <1>2, <1>3, OneMoreLine
  <1>5. HelloTyped'
    BY <1>0, <1>1, <1>4 DEF HelloTyped
  <1>6. MadeInTurn'
    BY <1>0, <1>1 DEF MadeInTurn
  <1>7. OneLineEach'
    <2>1. \A u \in Tids : LineIsDue(u)' <=> LineIsDue(u) \/ u = t
      BY <1>0, <1>1 DEF LineIsDue
    <2> QED BY <1>0, <1>4, <2>1 DEF OneLineEach
  <1>8. LinesInTurn'
    <2> SUFFICES ASSUME program = "prob06/p04c" PROVE LinesInTurn'
      BY <1>1 DEF LinesInTurn
    <2>1. t = k /\ l = k /\ main_at = "created"
      BY <1>0, <1>1, <1>3 DEF LinesInTurn
    <2>2. \A u \in Tids : pc'[u] # "print"
      BY <1>0, <1>1, <2>1 DEF LinesInTurn
    <2>3. \A n \in 1 .. l + 1 : printed'[n][1] = n - 1
      <3>1. \A n \in 1 .. l : printed[n][1] = n - 1
        BY <1>0, <1>3 DEF LinesInTurn
      <3> QED BY <1>4, <2>1, <3>1
    <2> QED BY <1>0, <1>1, <1>4, <2>1, <2>2, <2>3 DEF LinesInTurn
  <1>9. LinesAreTrue'
    <2> SUFFICES ASSUME Outlived PROVE LinesAreTrue'
      BY <1>1 DEF LinesAreTrue, Outlived
    <2>1. \A n \in 1 .. l :
              /\ program \in CounterPrograms => printed[n][2][1] \in printed[n][1] .. nthr
              /\ program \in NumberPrograms => printed[n][2] = <<printed[n][1]>>
              /\ program \in OperationPrograms =>
                     printed[n][2] = operation(printed[n][1], operands[1], operands[2])
      BY <1>0, <1>3 DEF LinesAreTrue
    <2>2. program \in CounterPrograms => w[1] \in t .. nthr
      <3>1. t <= k /\ <<k>>[1] = k
        BY <1>0, <1>1 DEF MadeInTurn
      <3> QED BY <1>0, <3>1
    <2>3. operands' = operands /\ nthr' = nthr /\ program' = program /\ Len(printed') = l + 1
      BY <1>1, <1>4
    <2> SUFFICES ASSUME NEW n \in 1 .. l + 1
                 PROVE  /\ program \in CounterPrograms => printed'[n][2][1] \in printed'[n][1] .. nthr
                        /\ program \in NumberPrograms => printed'[n][2] = <<printed'[n][1]>>
                        /\ program \in OperationPrograms =>
                               printed'[n][2] = operation(printed'[n][1], operands[1], operands[2])
      BY <2>3 DEF LinesAreTrue, operation
    <2>4. CASE n \in 1 .. l /\ printed'[n] = printed[n]
      BY <2>1, <2>4
    <2>5. CASE printed'[n][1] = t /\ printed'[n][2] = w
      BY <2>2, <2>5
    <2> QED BY <1>4, <2>4, <2>5
  <1> QED BY <1>5, <1>6, <1>7, <1>8, <1>9 DEF HelloInv

\* p05b: a thread that returns its result.
LEMMA ThreadReturns ==
    ASSUME HelloInv, program = "prob06/p05b", NEW t \in Tids, returned \in [Tids -> Seq(Int)],
           ThreadGoes(t, "print", "ended"), UNCHANGED <<printed, operands>>,
           returned' = [returned EXCEPT ![t] = operation(t, operands[1], operands[2])]
    PROVE  HelloInv'
  <1>0. /\ HelloTyped /\ MadeInTurn /\ OneLineEach /\ LinesInTurn /\ LinesAreTrue
        /\ pc \in [Tids -> {"unborn", "print", "ended"}]
    BY DEF HelloInv, HelloTyped
  <1>1. /\ pc[t] = "print" /\ pc'[t] = "ended" /\ UNCHANGED <<program, main_at, k, nthr>>
        /\ pc' \in [Tids -> {"unborn", "print", "ended"}]
        /\ \A u \in Tids : u # t => pc'[u] = pc[u]
    BY <1>0 DEF ThreadGoes
  <1>2. /\ returned'[t] = operation(t, operands[1], operands[2])
        /\ \A u \in Tids : u # t => returned'[u] = returned[u]
    OBVIOUS
  <1>3. HelloTyped'
    BY <1>0, <1>1 DEF HelloTyped
  <1>4. MadeInTurn'
    BY <1>0, <1>1 DEF MadeInTurn
  <1>5. OneLineEach'
    <2>1. \A u : HasLine(u)' <=> HasLine(u)
      BY DEF HasLine
    <2>2. \A u \in Tids : LineIsDue(u)' <=> LineIsDue(u)
      BY <1>1 DEF LineIsDue
    <2> QED BY <1>0, <2>1, <2>2 DEF OneLineEach
  <1>6. LinesInTurn'
    <2>1. \A u \in Tids : pc'[u] = "ended" => returned'[u] = operation(u, operands[1], operands[2])
      BY <1>0, <1>1, <1>2 DEF LinesInTurn
    <2> QED BY <1>0, <1>1, <2>1 DEF LinesInTurn, operation
  <1>7. LinesAreTrue'
    BY <1>0, <1>1 DEF LinesAreTrue, Outlived, operation
  <1> QED BY <1>3, <1>4, <1>5, <1>6, <1>7 DEF HelloInv

\* p05b: main prints the result of the thread that it joins.
LEMMA MainPrints ==
    ASSUME HelloInv, program = "prob06/p05b", TurnJoin, Output(k, returned[k])
    PROVE  HelloInv'
  <1>0. /\ HelloTyped /\ MadeInTurn /\ OneLineEach /\ LinesInTurn /\ LinesAreTrue
        /\ k \in Nat /\ nthr \in Nat /\ (\A u \in Tids : u \in Int /\ u >= 0)
    BY CounterIsThread DEF HelloInv, HelloTyped
  <1>1. /\ main_at = "join" /\ k < nthr /\ pc[k] = "ended" /\ k' = k + 1 /\ k \in Tids
        /\ UNCHANGED <<program, main_at, nthr, pc, operands, returned>>
    BY <1>0, CounterIsThread DEF TurnJoin, JoinedThread, Output
  <1>2. PICK w : w = returned[k] /\ w = operation(k, operands[1], operands[2]) /\ w \in Seq(Int)
    <2>1. returned[k] = operation(k, operands[1], operands[2])
      BY <1>0, <1>1 DEF LinesInTurn
    <2> QED BY <1>0, <2>1, OperationType DEF HelloTyped
  <1>3. ~HasLine(k)
    BY <1>0, <1>1 DEF OneLineEach, LineIsDue
  <1>4. PICK l \in Nat : l = Len(printed)
    BY <1>0 DEF HelloTyped
  <1>5. /\ printed' \in Seq(Tids \X Seq(Int)) /\ Len(printed') = l + 1
        /\ \A n \in 1 .. l + 1 :
               \/ n \in 1 .. l /\ printed'[n] = printed[n]
               \/ n = l + 1 /\ printed'[n][1] = k /\ printed'[n][2] = w
        /\ \A m, n \in 1 .. l + 1 : printed'[m][1] = printed'[n][1] => m = n
        /\ \A u \in Tids : HasLine(u)' <=> HasLine(u) \/ u = k
    <2>1. printed' = Append(printed, <<k, w>>)
      BY <1>2 DEF Output
    <2>2. PICK j \in Tids : j = k
      BY <1>1
    <2>3. /\ ~HasLine(j) /\ w \in Seq(Int) /\ printed' = Append(printed, <<j, w>>) /\ HelloTyped
          /\ OneLineEach
      BY <1>0, <1>2, <1>3, <2>1, <2>2
    <2> QED BY <1>4, <2>2, <2>3, OneMoreLine
  <1>6. HelloTyped'
    BY <1>0, <1>1, <1>5 DEF HelloTyped
  <1>7. MadeInTurn'
    BY <1>0, <1>1 DEF MadeInTurn
  <1>8. OneLineEach'
    <2>1. \A u \in Tids : LineIsDue(u)' <=> LineIsDue(u) \/ u = k
      BY <1>0, <1>1 DEF LineIsDue
    <2> QED BY <1>0, <1>5, <2>1 DEF OneLineEach
  <1>9. LinesInTurn'
    <2>1. l = k
      BY <1>0, <1>1, <1>4 DEF LinesInTurn
    <2>2. \A n \in 1 .. l + 1 : printed'[n][1] = n - 1
      <3>1. \A n \in 1 .. l : printed[n][1] = n - 1
        BY <1>0, <1>4 DEF LinesInTurn
      <3>2. k = (l + 1) - 1
        BY <2>1
      <3>3. ASSUME NEW n \in 1 .. l + 1 PROVE printed'[n][1] = n - 1
        <4>1. CASE n \in 1 .. l /\ printed'[n] = printed[n]
          BY <3>1, <4>1
        <4>2. CASE n = l + 1 /\ printed'[n][1] = k
          BY <3>2, <4>2
        <4> QED BY <1>5, <4>1, <4>2
      <3> QED BY <3>3
    <2> QED BY <1>0, <1>1, <1>5, <2>1, <2>2 DEF LinesInTurn, operation
  <1>10. LinesAreTrue'
    <2>1. program \notin CounterPrograms /\ program \notin NumberPrograms
      BY DEF CounterPrograms, NumberPrograms
    <2>2. \A n \in 1 .. l : printed[n][2] = operation(printed[n][1], operands[1], operands[2])
      BY <1>0, <1>4 DEF LinesAreTrue, OperationPrograms, Outlived
    <2>3. \A n \in 1 .. l + 1 : printed'[n][2] = operation(printed'[n][1], operands[1], operands[2])
      BY <1>2, <1>5, <2>2
    <2> QED BY <1>1, <1>5, <2>1, <2>3 DEF LinesAreTrue, operation
  <1> QED BY <1>6, <1>7, <1>8, <1>9, <1>10 DEF HelloInv

\* As many threads as lines: each line is about another.
LEMMA AsManyAsLines ==
    ASSUME NEW l \in Nat, NEW S, NEW f \in [1 .. l -> S], \A j \in S : \E n \in 1 .. l : f[n] = j,
           \A m, n \in 1 .. l : f[m] = f[n] => m = n
    PROVE  Cardinality(S) = l
  <1>1. f \in Surjection(1 .. l, S)
    BY DEF Surjection
  <1>2. f \in Injection(1 .. l, S)
    BY DEF Injection, IsInjective
  <1>3. IsFiniteSet(1 .. l) /\ Cardinality(1 .. l) = l
    <2>1. 1 \in Int /\ l \in Int /\ (1 > l => l = 0)
      OBVIOUS
    <2>2. IsFiniteSet(1 .. l) /\ Cardinality(1 .. l) = IF 1 > l THEN 0 ELSE l - 1 + 1
      BY <2>1, FS_Interval, Zenon
    <2> QED BY <2>1, <2>2
  <1> QED BY <1>1, <1>2, <1>3, FS_Surjection

\* Each thread of p03, p04 and p05 prints once, in the order of the threads where main
\* joins them (prob06/p04c.c:27, p05b.c:59-69); what it prints is its own, and a counter
\* that is read late is not below the thread's number (p03.c:8, 18), unless main, whose
\* variables the threads read, has ended before them (p03.c:20, p04a.c:24, p05a.c:43).
THEOREM LinesAreOfEachThread == HelloSpec => []EachIsReported
  <1> DEFINE Inv == HelloInv /\ returned \in [Tids -> Seq(Int)]
  <1>1. /\ program \in HelloPrograms /\ PthreadsInit /\ HelloInit
        /\ nthr = (IF program \in OperationPrograms THEN OPERATIONS ELSE HelloThreads)
        => Inv
    <2> SUFFICES ASSUME program \in HelloPrograms, PthreadsInit, HelloInit,
                        nthr = (IF program \in OperationPrograms THEN OPERATIONS ELSE HelloThreads)
                 PROVE  Inv
      OBVIOUS
    <2>1. /\ main_at = "create" /\ k = 0 /\ pc = [t \in Tids |-> "unborn"]
          /\ printed = << >> /\ Len(printed) = 0 /\ returned = [t \in Tids |-> << >>]
          /\ operands \in Operands
      BY DEF PthreadsInit, HelloInit
    <2>2. nthr \in Nat /\ nthr <= MAXTHREADS
      BY MaxThreadsAssumption, HelloAssumption DEF OPERATIONS
    <2>3. \A t \in Tids : pc[t] = "unborn"
      BY <2>1
    <2>4. HelloTyped
      BY <2>1, <2>2, HelloAssumption DEF HelloTyped, HelloStatements
    <2>5. MadeInTurn
      BY <2>1, <2>3 DEF MadeInTurn
    <2>6. OneLineEach
      BY <2>1, <2>3 DEF OneLineEach, HasLine, LineIsDue
    <2>7. LinesInTurn
      BY <2>1, <2>3 DEF LinesInTurn
    <2>8. LinesAreTrue
      BY <2>1 DEF LinesAreTrue
    <2> QED BY <2>1, <2>4, <2>5, <2>6, <2>7, <2>8 DEF HelloInv
  <1>2. Inv /\ [HelloNext]_HelloVars => Inv'
    <2> SUFFICES ASSUME HelloInv, returned \in [Tids -> Seq(Int)], [HelloNext]_HelloVars
                 PROVE  Inv'
      OBVIOUS
    <2>0. /\ HelloTyped /\ k \in Nat /\ operands \in Int \X Int /\ \A t \in Tids : t \in Int
      BY CounterIsThread DEF HelloInv, HelloTyped
    <2>1. ASSUME NEW t \in Tids, NEW number \in Int, PrintHello(t, number)
          PROVE  \E n \in Int : /\ <<n>> \in Seq(Int) /\ (main_at # "exited" => n = number)
                                /\ ThreadGoes(t, "print", "ended") /\ Output(t, <<n>>)
      BY <2>1, HelloAssumption DEF PrintHello, Pointed
    <2>2. \A t : operation(t, operands[1], operands[2]) \in Seq(Int)
      BY <2>0, OperationType
    <2>3. CASE UNCHANGED HelloVars
      <3>1. /\ UNCHANGED <<program, main_at, k, nthr, pc, printed, operands, returned>>
        BY <2>3 DEF HelloVars, pthread_vars, hello_vars
      <3>2. \A t : (HasLine(t)' <=> HasLine(t)) /\ (LineIsDue(t)' <=> LineIsDue(t))
        BY <3>1 DEF HasLine, LineIsDue
      <3> QED BY <3>1, <3>2 DEF HelloInv, HelloTyped, MadeInTurn, OneLineEach, LinesInTurn,
                                LinesAreTrue, Outlived, operation
    <2>4. CASE p03 \/ p03b \/ p03c
      <3>1. program \in CounterPrograms /\ program \notin NumberPrograms
            /\ program \notin OperationPrograms /\ program # "prob06/p05b" /\ program # "prob06/p04c"
        BY <2>4 DEF p03, p03b, p03c, CounterPrograms, NumberPrograms, OperationPrograms
      <3>2. CASE MakeHello
        BY <3>1, <3>2, MainMakes DEF MakeHello, hello_vars, CreateThread, TurnCreate, MainGoes
      <3>3. CASE LeaveThreads \/ EndAll
        BY <3>1, <3>3, MainEnds DEF LeaveThreads, EndAll, hello_vars, AllCreated, MainGoes
      <3>4. ASSUME NEW t \in Tids, PrintHello(t, k) PROVE Inv'
        <4>1. PICK n \in Int : /\ <<n>> \in Seq(Int) /\ (main_at # "exited" => n = k)
                               /\ ThreadGoes(t, "print", "ended") /\ Output(t, <<n>>)
          BY <2>0, <2>1, <3>4
        <4>2. Outlived => n = k
          BY <3>1, <4>1 DEF Outlived
        <4> QED BY <3>1, <4>1, <4>2, ThreadPrints DEF Output
      <3> QED BY <2>4, <3>2, <3>3, <3>4 DEF p03, p03b, p03c
    <2>5. CASE p04a \/ p04b
      <3>1. program \in NumberPrograms /\ program \notin CounterPrograms
            /\ program \notin OperationPrograms /\ program # "prob06/p05b" /\ program # "prob06/p04c"
        BY <2>5 DEF p04a, p04b, CounterPrograms, NumberPrograms, OperationPrograms
      <3>2. CASE MakeHello
        BY <3>1, <3>2, MainMakes DEF MakeHello, hello_vars, CreateThread, TurnCreate, MainGoes
      <3>3. CASE LeaveThreads
        BY <3>1, <3>3, MainEnds DEF LeaveThreads, hello_vars, AllCreated, MainGoes
      <3>4. ASSUME NEW t \in Tids, PrintHello(t, t) PROVE Inv'
        <4>1. PICK n \in Int : /\ <<n>> \in Seq(Int) /\ (main_at # "exited" => n = t)
                               /\ ThreadGoes(t, "print", "ended") /\ Output(t, <<n>>)
          BY <2>0, <2>1, <3>4
        <4>2. Outlived => n = t
          BY <3>1, <4>1 DEF Outlived
        <4> QED BY <3>1, <4>1, <4>2, ThreadPrints DEF Output
      <3> QED BY <2>5, <3>2, <3>3, <3>4 DEF p04a, p04b
    <2>6. CASE p04c
      <3>1. program \in NumberPrograms /\ program \notin CounterPrograms
            /\ program \notin OperationPrograms /\ program # "prob06/p05b" /\ program = "prob06/p04c"
        BY <2>6 DEF p04c, CounterPrograms, NumberPrograms, OperationPrograms
      <3>2. CASE CreateThread("print") /\ UNCHANGED hello_vars
        BY <3>2, MainMakes DEF hello_vars, CreateThread
      <3>3. CASE JoinAtOnce
        BY <3>3, MainMakes DEF JoinAtOnce, hello_vars, TurnCreate, MainGoes
      <3>4. CASE LeaveThreads
        BY <3>1, <3>4, MainEnds DEF LeaveThreads, hello_vars, AllCreated, MainGoes
      <3>5. ASSUME NEW t \in Tids, PrintHello(t, t) PROVE Inv'
        <4>1. PICK n \in Int : /\ <<n>> \in Seq(Int) /\ (main_at # "exited" => n = t)
                               /\ ThreadGoes(t, "print", "ended") /\ Output(t, <<n>>)
          BY <2>0, <2>1, <3>5
        <4>2. n = t
          <5>1. pc[t] = "print" /\ LinesInTurn
            BY <4>1 DEF ThreadGoes, HelloInv
          <5> QED BY <3>1, <4>1, <5>1 DEF LinesInTurn
        <4> QED BY <3>1, <4>1, <4>2, ThreadPrints DEF Output
      <3> QED BY <2>6, <3>2, <3>3, <3>4, <3>5 DEF p04c
    <2>7. CASE p05a \/ p05a1
      <3>1. program \in OperationPrograms /\ program \notin CounterPrograms
            /\ program \notin NumberPrograms /\ program # "prob06/p05b" /\ program # "prob06/p04c"
        BY <2>7 DEF p05a, p05a1, CounterPrograms, NumberPrograms, OperationPrograms
      <3>2. CASE MakeHello
        BY <3>1, <3>2, MainMakes DEF MakeHello, hello_vars, CreateThread, TurnCreate, MainGoes
      <3>3. CASE LeaveThreads
        BY <3>1, <3>3, MainEnds DEF LeaveThreads, hello_vars, AllCreated, MainGoes
      <3>4. ASSUME NEW t \in Tids, PrintResult(t) PROVE Inv'
        <4>1. PICK x \in Pointed(operands[1]), y \in Pointed(operands[2]) :
                  ThreadGoes(t, "print", "ended") /\ Output(t, operation(t, x, y))
          BY <3>4 DEF PrintResult
        <4>2. operation(t, x, y) \in Seq(Int)
          <5>1. x \in Int /\ y \in Int
            BY <2>0, HelloAssumption DEF Pointed
          <5> QED BY <5>1, OperationType
        <4>3. Outlived => operation(t, x, y) = operation(t, operands[1], operands[2])
          BY <3>1 DEF Outlived, Pointed
        <4> QED BY <3>1, <4>1, <4>2, <4>3, ThreadPrints DEF Output
      <3> QED BY <2>7, <3>2, <3>3, <3>4 DEF p05a, p05a1
    <2>8. CASE p05b
      <3>1. program = "prob06/p05b" /\ program # "prob06/p04c"
        BY <2>8 DEF p05b
      <3>2. CASE MakeHello
        BY <3>1, <3>2, MainMakes DEF MakeHello, hello_vars, CreateThread, TurnCreate, MainGoes
      <3>3. CASE AllCreated("join") /\ k' = 0 /\ UNCHANGED hello_vars
        BY <3>1, <3>3, MainEnds DEF hello_vars, AllCreated, MainGoes
      <3>4. CASE AllJoined("exited") /\ UNCHANGED hello_vars
        BY <3>1, <3>4, MainEnds DEF hello_vars, AllJoined, MainGoes
      <3>5. ASSUME NEW t \in Tids, ThreadGoes(t, "print", "ended"),
                   returned' = [returned EXCEPT ![t] = operation(t, operands[1], operands[2])],
                   UNCHANGED <<mut, printed, operands>>
            PROVE  Inv'
        <4>1. returned' \in [Tids -> Seq(Int)]
          BY <2>2, <3>5
        <4> QED BY <3>1, <3>5, <4>1, ThreadReturns
      <3>6. CASE TurnJoin /\ Output(k, returned[k])
        BY <3>1, <3>6, MainPrints DEF Output
      <3> QED BY <2>8, <3>2, <3>3, <3>4, <3>5, <3>6 DEF p05b
    <2> QED BY <2>3, <2>4, <2>5, <2>6, <2>7, <2>8 DEF HelloNext
  <1>3. Inv => EachIsReported
    <2> SUFFICES ASSUME HelloInv PROVE EachIsReported
      OBVIOUS
    <2>0. /\ HelloTyped /\ MadeInTurn /\ OneLineEach /\ LinesInTurn /\ LinesAreTrue
          /\ nthr \in Nat /\ k \in Nat /\ k <= nthr /\ \A t \in Tids : t \in Int /\ t >= 0
      BY CounterIsThread DEF HelloInv, HelloTyped
    <2>1. PICK l \in Nat : l = Len(printed)
      BY <2>0 DEF HelloTyped
    <2>2. PICK f : f = [n \in 1 .. l |-> printed[n][1]]
      OBVIOUS
    <2>3. PICK R : R = {printed[n][1] : n \in 1 .. Len(printed)}
      OBVIOUS
    <2>4. f \in [1 .. l -> R] /\ \A j \in R : \E n \in 1 .. l : f[n] = j
      BY <2>1, <2>2, <2>3
    <2>5. Cardinality(R) = l
      <3>1. \A m, n \in 1 .. l : f[m] = f[n] => m = n
        BY <2>0, <2>1, <2>2 DEF OneLineEach
      <3> QED BY <2>4, <3>1, AsManyAsLines
    <2>6. ASSUME main_at = "exited", \A t \in 0 .. nthr - 1 : pc[t] = "ended"
          PROVE  l = nthr
      <3>1. \A t \in Tids : HasLine(t) <=> t < nthr
        <4>1. \A t \in Tids : t < nthr => t \in 0 .. nthr - 1
          BY <2>0
        <4>2. \A t \in Tids : LineIsDue(t) <=> t < nthr
          BY <2>0, <2>6, <4>1 DEF LineIsDue, MadeInTurn
        <4> QED BY <2>0, <4>2 DEF OneLineEach
      <3>2. \A n \in 1 .. l : printed[n][1] \in Tids
        BY <2>0, <2>1 DEF HelloTyped
      <3>3. \A j : j \in R <=> j \in Tids /\ HasLine(j)
        BY <2>1, <2>3, <3>2 DEF HasLine
      <3>4. \A j : j \in R <=> j \in 0 .. nthr - 1
        BY <2>0, <3>1, <3>3, CounterIsThread
      <3>5. R = 0 .. nthr - 1
        BY <3>4
      <3>6. Cardinality(0 .. nthr - 1) = nthr
        <4>1. PICK b \in Int : b = nthr - 1 /\ (0 > b => nthr = 0) /\ b - 0 + 1 = nthr
          BY <2>0
        <4>2. 0 \in Int
          OBVIOUS
        <4>3. Cardinality(0 .. b) = IF 0 > b THEN 0 ELSE b - 0 + 1
          BY <4>2, FS_Interval, Zenon
        <4> QED BY <4>1, <4>3
      <3> QED BY <2>5, <3>5, <3>6
    <2>7. program \in {"prob06/p04c", "prob06/p05b"} =>
              \A i_ \in 1 .. Len(printed) : printed[i_][1] = i_ - 1
      BY <2>0 DEF LinesInTurn
    <2> QED BY <2>0, <2>1, <2>3, <2>5, <2>6, <2>7 DEF EachIsReported, LinesAreTrue
  <1> QED BY <1>1, <1>2, <1>3, PTL DEF HelloSpec, HelloVars

-----------------------------------------------------------------------------
(* The programs that fork: the loop counter of a process never passes the    *)
(* turns there are, wherever it is in its loop.                              *)

Lives == {"unborn", "alive", "zombie", "gone"}
Steppings == {"fork", "child", "work", "wait", "end", "ended"}

Turning ==
    \A p \in Procs : /\ step[p] \in {"work", "child"} => turn[p] <= FORKS
                     /\ step[p] \in {"fork", "wait"} => turn[p] <= FORKS + 1

Family == program \in ChildrenPrograms /\ ChildrenTypeOK /\ Turning

\* The first process is one, and FORKS and TRIES are numbers.
LEMMA FirstIsOne == first \in Procs /\ FORKS \in Nat /\ FORKS >= 1 /\ TRIES \in Nat
  BY ChildrenAssumption DEF first, Procs

\* A fork keeps the types: the new process is one of Procs.
LEMMA ForkTyped ==
    ASSUME Family, NEW p \in Procs, NEW to \in {"work", "wait"}, ForkChild(p, "child", to),
           program' = program
    PROVE  Family'
  <1>1. PICK q : q = p \cup {turn[p]}
    OBVIOUS
  <1>2. turn[p] \in 1 .. FORKS /\ q \in Procs
    <2>1. turn[p] \in 1 .. FORKS + 2 /\ turn[p] <= FORKS
      BY DEF ForkChild, Family, ChildrenTypeOK
    <2>2. turn[p] \in 1 .. FORKS
      BY <2>1, FirstIsOne
    <2> QED BY <1>1, <2>2 DEF Procs
  <1>3. /\ life' = [life EXCEPT ![q] = "alive"] /\ step' = [step EXCEPT ![p] = to, ![q] = "child"]
        /\ turn' = [turn EXCEPT ![q] = turn[p]]
        /\ UNCHANGED <<tries, fork_failed, pending, handling, told>>
    BY <1>1 DEF ForkChild
  <1>4. ChildrenTypeOK'
    BY <1>2, <1>3, FirstIsOne DEF Family, ChildrenTypeOK
  <1>5. Turning'
    <2> SUFFICES ASSUME NEW r \in Procs
                 PROVE  /\ step'[r] \in {"work", "child"} => turn'[r] <= FORKS
                        /\ step'[r] \in {"fork", "wait"} => turn'[r] <= FORKS + 1
      BY DEF Turning
    <2>1. turn[r] \in Int /\ turn[p] \in Int
      BY FirstIsOne DEF Family, ChildrenTypeOK
    <2>2. CASE r = p \/ r = q
      <3>1. turn'[r] = turn[p]
        BY <1>2, <1>3, <2>2 DEF Family, ChildrenTypeOK
      <3> QED BY <1>2, <2>1, <3>1, FirstIsOne
    <2>3. CASE r # p /\ r # q
      <3>1. turn'[r] = turn[r] /\ step'[r] = step[r]
        BY <1>2, <1>3, <2>3 DEF Family, ChildrenTypeOK
      <3> QED BY <3>1 DEF Family, Turning
    <2> QED BY <2>2, <2>3
  <1> QED BY <1>4, <1>5 DEF Family

\* So does a step of one process from a statement to another, with what it may do there to
\* the loop counter, to the processes, the signal and what is told.
LEMMA StepTyped ==
    ASSUME Family, program' = program, NEW p \in Procs, NEW to \in Steppings,
           step' = [step EXCEPT ![p] = to],
           turn' \in [Procs -> 1 .. FORKS + 2], \A r \in Procs : r # p => turn'[r] = turn[r],
           to \in {"work", "child"} => turn'[p] <= FORKS,
           to \in {"fork", "wait"} => turn'[p] <= FORKS + 1,
           life' \in [Procs -> Lives], told' \in Seq(Procs \cup {PID0}),
           fork_failed' \in BOOLEAN, pending' \in BOOLEAN, handling' \in BOOLEAN,
           tries' \in [Procs -> 0 .. TRIES]
    PROVE  Family'
  <1>1. step \in [Procs -> Steppings] /\ Turning
    BY DEF Family, ChildrenTypeOK, Steppings
  <1>2. step' \in [Procs -> Steppings] /\ step'[p] = to
        /\ \A r \in Procs : r # p => step'[r] = step[r]
    BY <1>1
  <1>3. Turning'
    BY <1>1, <1>2 DEF Turning
  <1> QED BY <1>2, <1>3 DEF Family, ChildrenTypeOK, Lives, Steppings

\* A turn of the loop more.
LEMMA NextTurnTyped ==
    ASSUME Family, program' = program, NEW p \in Procs, NEW from \in {"work", "child", "wait"},
           NEW to \in {"fork", "wait", "end"}, NextTurn(p, from, to),
           life' \in [Procs -> Lives], told' \in Seq(Procs \cup {PID0}),
           from = "wait" => to = "end" \/ turn[p] <= FORKS
    PROVE  Family'
  <1>1. step' = [step EXCEPT ![p] = to] /\ turn' = [turn EXCEPT ![p] = @ + 1]
        /\ UNCHANGED <<tries, fork_failed, pending, handling>> /\ step[p] = from
    BY DEF NextTurn, Steps, IsAt
  <1>2. turn \in [Procs -> 1 .. FORKS + 2] /\ turn[p] \in 1 .. FORKS + 1 /\ FORKS \in Nat
        /\ (to # "end" => turn[p] <= FORKS)
    BY <1>1, FirstIsOne DEF Family, ChildrenTypeOK, Turning
  <1>3. turn' \in [Procs -> 1 .. FORKS + 2] /\ turn'[p] = turn[p] + 1
        /\ \A r \in Procs : r # p => turn'[r] = turn[r]
    BY <1>1, <1>2
  <1>4. to \in Steppings /\ to \notin {"work", "child"} /\ (to \in {"fork", "wait"} => turn'[p] <= FORKS + 1)
    BY <1>2, <1>3 DEF Steppings
  <1>5. fork_failed \in BOOLEAN /\ pending \in BOOLEAN /\ handling \in BOOLEAN
        /\ tries \in [Procs -> 0 .. TRIES]
    BY DEF Family, ChildrenTypeOK
  <1> QED BY <1>1, <1>3, <1>4, <1>5, StepTyped

\* A step that leaves the loop counters alone.
LEMMA SameTurnTyped ==
    ASSUME Family, program' = program, NEW p \in Procs, NEW to \in Steppings \ {"wait", "child"},
           step' = [step EXCEPT ![p] = to], turn' = turn,
           to = "work" => turn[p] <= FORKS, to = "fork" => turn[p] <= FORKS + 1,
           life' \in [Procs -> Lives], told' \in Seq(Procs \cup {PID0}),
           fork_failed' \in BOOLEAN, pending' \in BOOLEAN, handling' = handling,
           tries' \in [Procs -> 0 .. TRIES]
    PROVE  Family'
  <1>1. turn \in [Procs -> 1 .. FORKS + 2] /\ handling \in BOOLEAN
    BY DEF Family, ChildrenTypeOK
  <1> QED BY <1>1, StepTyped DEF Steppings

\* An exit.
LEMMA ExitTyped ==
    ASSUME Family, program' = program, NEW p \in Procs, NEW from \in Steppings, Exit(p, from)
    PROVE  Family'
  <1>1. step' = [step EXCEPT ![p] = "ended"] /\ "ended" \in Steppings \ {"wait", "child"}
    BY DEF Exit, Steps, Steppings
  <1>2. life' \in [Procs -> Lives]
    BY DEF Exit, Family, ChildrenTypeOK, Lives
  <1>3. pending' \in BOOLEAN /\ UNCHANGED <<turn, tries, fork_failed, handling, told>>
    BY DEF Exit, Family, ChildrenTypeOK
  <1>4. tries \in [Procs -> 0 .. TRIES] /\ fork_failed \in BOOLEAN /\ told \in Seq(Procs \cup {PID0})
    BY DEF Family, ChildrenTypeOK
  <1> QED BY <1>1, <1>2, <1>3, <1>4, SameTurnTyped

\* A fork that fails.
LEMMA CannotForkTyped ==
    ASSUME Family, program' = program, NEW p \in Procs, NEW to \in {"end", "work"}, CannotFork(p, to)
    PROVE  Family'
  <1>1. step' = [step EXCEPT ![p] = to] /\ to \in Steppings \ {"wait", "child"} /\ to # "fork"
        /\ turn[p] <= FORKS /\ UNCHANGED <<life, turn, tries, pending, handling, told>>
        /\ fork_failed' \in BOOLEAN
    BY DEF CannotFork, Steps, Steppings
  <1>2. life \in [Procs -> Lives] /\ tries \in [Procs -> 0 .. TRIES] /\ pending \in BOOLEAN
        /\ told \in Seq(Procs \cup {PID0})
    BY DEF Family, ChildrenTypeOK, Lives
  <1> QED BY <1>1, <1>2, SameTurnTyped

\* A wait of the first process.
LEMMA WaitTyped ==
    ASSUME Family, program' = program, NEW to \in {"end", "wait"}, WaitNot(to),
           to = "end" \/ turn[first] <= FORKS
    PROVE  Family'
  <1>1. NextTurn(first, "wait", to)
    BY DEF WaitNot, Wait
  <1>2. life \in [Procs -> Lives] /\ told \in Seq(Procs \cup {PID0})
    BY DEF Family, ChildrenTypeOK, Lives
  <1>3. life' \in [Procs -> Lives] /\ told' \in Seq(Procs \cup {PID0})
    <2>1. CASE \E q \in Ended(first) : Reap(q) /\ Tell(q)
      <3>1. PICK q \in Procs : life' = [life EXCEPT ![q] = "gone"] /\ told' = Append(told, q)
        BY <2>1 DEF Ended, ChildrenOf, Reap, Tell
      <3> QED BY <1>2, <3>1 DEF Lives
    <2>2. CASE UNCHANGED life /\ told' \in {told, Append(told, PID0)}
      BY <1>2, <2>2
    <2> QED BY <2>1, <2>2 DEF WaitNot, Wait, Tell
  <1> QED BY <1>1, <1>3, FirstIsOne, NextTurnTyped

\* Working and waiting between two forks (p6b and p6c of prob03).
LEMMA WorkAndWaitTyped ==
    ASSUME Family, program' = program, NEW p \in Procs, WorkAndWait(p)
    PROVE  Family'
  <1>0. /\ life \in [Procs -> Lives] /\ told \in Seq(Procs \cup {PID0}) /\ tries \in [Procs -> 0 .. TRIES]
        /\ turn \in [Procs -> 1 .. FORKS + 2] /\ fork_failed \in BOOLEAN /\ pending \in BOOLEAN
        /\ handling \in BOOLEAN /\ (step[p] = "work" => turn[p] <= FORKS)
    BY DEF Family, ChildrenTypeOK, Lives, Turning
  <1>1. CASE /\ tries[p] < TRIES /\ Steps(p, "work", "work")
             /\ tries' = [tries EXCEPT ![p] = @ + 1]
             /\ UNCHANGED <<turn, fork_failed, pending, handling, told>>
             /\ (\E q \in Ended(p) : Reap(q)) \/ UNCHANGED life
    <2>1. life' \in [Procs -> Lives]
      BY <1>0, <1>1 DEF Reap, Lives
    <2>2. tries' \in [Procs -> 0 .. TRIES]
      BY <1>0, <1>1, FirstIsOne
    <2> QED BY <1>0, <1>1, <2>1, <2>2, SameTurnTyped DEF Steps, IsAt, Steppings
  <1>2. CASE /\ Steps(p, "work", "fork") /\ tries' = [tries EXCEPT ![p] = 0]
             /\ turn' = [turn EXCEPT ![p] = @ + 1]
             /\ UNCHANGED <<life, fork_failed, pending, handling, told>>
    <2>1. tries' \in [Procs -> 0 .. TRIES]
      BY <1>0, <1>2, FirstIsOne
    <2>2. turn[p] \in 1 .. FORKS /\ FORKS \in Nat
      BY <1>0, <1>2, FirstIsOne DEF Steps, IsAt
    <2>3. turn' \in [Procs -> 1 .. FORKS + 2] /\ turn'[p] <= FORKS + 1
          /\ \A r \in Procs : r # p => turn'[r] = turn[r]
      BY <1>0, <1>2, <2>2
    <2> QED BY <1>0, <1>2, <2>1, <2>3, StepTyped DEF Steps, Steppings
  <1> QED BY <1>1, <1>2 DEF WorkAndWait

\* A handler of SIGCHLD comes and goes between two steps.
LEMMA HandlerTyped ==
    ASSUME Family, program' = program, Catch \/ sigchld_handler
    PROVE  Family'
  <1>1. life' \in [Procs -> Lives]
    BY DEF Catch, sigchld_handler, Reap, Family, ChildrenTypeOK, Lives
  <1>2. pending' \in BOOLEAN /\ handling' \in BOOLEAN /\ UNCHANGED <<step, turn, tries, fork_failed, told>>
    BY DEF Catch, sigchld_handler, Family, ChildrenTypeOK
  <1> QED BY <1>1, <1>2 DEF Family, ChildrenTypeOK, Turning, Lives

\* The programs that fork in all turns, then wait.
LEMMA ForkAllTyped ==
    ASSUME Family, program' = program, ForkAll
    PROVE  Family'
  <1>0. /\ life \in [Procs -> Lives] /\ told \in Seq(Procs \cup {PID0}) /\ tries \in [Procs -> 0 .. TRIES]
        /\ turn \in [Procs -> 1 .. FORKS + 2] /\ fork_failed \in BOOLEAN /\ pending \in BOOLEAN
        /\ handling \in BOOLEAN
    BY DEF Family, ChildrenTypeOK, Lives
  <1>1. CASE ForkChild(first, "child", "work") \/ CannotFork(first, "work")
    BY <1>1, FirstIsOne, ForkTyped, CannotForkTyped
  <1>2. CASE WorkOn(first)
    BY <1>0, <1>2, FirstIsOne, NextTurnTyped DEF WorkOn
  <1>3. CASE /\ Steps(first, "fork", "wait") /\ turn' = [turn EXCEPT ![first] = 1]
             /\ UNCHANGED <<life, tries, fork_failed, pending, handling, told>>
    <2>1. turn' \in [Procs -> 1 .. FORKS + 2] /\ turn'[first] <= FORKS + 1
          /\ \A r \in Procs : r # first => turn'[r] = turn[r]
      BY <1>0, <1>3, FirstIsOne
    <2> QED BY <1>0, <1>3, <2>1, FirstIsOne, StepTyped DEF Steps, Steppings
  <1>4. CASE \E j \in 1 .. FORKS : ChildExits({j})
    <2>1. PICK p \in Procs : Exit(p, "child")
      BY <1>4 DEF ChildExits, Procs
    <2> QED BY <2>1, ExitTyped DEF Steppings
  <1> QED BY <1>1, <1>2, <1>3, <1>4 DEF ForkAll

\* Together: the loops of all the programs stay within their turns.
LEMMA ChildrenKeepTypes == ChildrenSpec => []Family
  <1>1. program \in ChildrenPrograms /\ ChildrenInit => Family
    <2> SUFFICES ASSUME program \in ChildrenPrograms, ChildrenInit PROVE Family
      OBVIOUS
    <2>1. life \in [Procs -> Lives] /\ step \in [Procs -> Steppings] /\ told \in Seq(Procs \cup {PID0})
      BY DEF ChildrenInit, Lives, Steppings
    <2>2. turn \in [Procs -> 1 .. FORKS + 2] /\ tries \in [Procs -> 0 .. TRIES]
      BY FirstIsOne DEF ChildrenInit
    <2>3. Turning
      BY FirstIsOne DEF ChildrenInit, Turning
    <2> QED BY <2>1, <2>2, <2>3 DEF ChildrenInit, Family, ChildrenTypeOK, Lives, Steppings
  <1>2. Family /\ [ChildrenNext]_<<program, children_vars>> => Family'
    <2> SUFFICES ASSUME Family, [ChildrenNext]_<<program, children_vars>> PROVE Family'
      OBVIOUS
    <2>0. /\ life \in [Procs -> Lives] /\ told \in Seq(Procs \cup {PID0}) /\ first \in Procs
          /\ {1} \in Procs
      BY FirstIsOne DEF Family, ChildrenTypeOK, Lives, Procs
    <2>1. CASE UNCHANGED <<program, children_vars>>
      BY <2>1 DEF children_vars, Family, ChildrenTypeOK, Turning
    <2>2. ASSUME program' = program, NEW p \in Procs, ForkFamily(p) PROVE Family'
      BY <2>2, ForkTyped, CannotForkTyped, ExitTyped DEF ForkFamily, Steppings
    <2>3. ASSUME program' = program, NEW p \in Procs, ChildExits(p) PROVE Family'
      BY <2>3, ExitTyped DEF ChildExits, Steppings
    <2>4. ASSUME program' = program, NEW p \in Procs, NEW from \in {"work", "child"},
                 NextTurn(p, from, "fork"), UNCHANGED <<life, told>>
          PROVE  Family'
      BY <2>0, <2>4, NextTurnTyped
    <2>5. ASSUME program' = program, OneChild PROVE Family'
      <3>1. CASE Wait("end")
        BY <2>5, <3>1, WaitTyped DEF WaitNot
      <3>2. CASE ForkChild(first, "child", "wait") \/ CannotFork(first, "end")
        BY <2>0, <2>5, <3>2, ForkTyped, CannotForkTyped
      <3>3. CASE ChildExits({1}) \/ Exit(first, "end")
        BY <2>0, <2>3, <2>5, <3>3, ExitTyped DEF Steppings
      <3> QED BY <2>5, <3>1, <3>2, <3>3 DEF OneChild
    <2>6. ASSUME program' = program, ForkAll \/ WaitNot(AfterWait) \/ Wait(AfterWait) \/ Exit(first, "end")
          PROVE  Family'
      <3>1. CASE ForkAll
        BY <2>6, <3>1, ForkAllTyped
      <3>2. CASE WaitNot(AfterWait) \/ Wait(AfterWait)
        <4>1. /\ WaitNot(AfterWait) /\ AfterWait \in {"end", "wait"}
              /\ AfterWait = "end" \/ turn[first] <= FORKS
          BY <3>2 DEF WaitNot, AfterWait
        <4> QED BY <2>6, <4>1, WaitTyped
      <3>3. CASE Exit(first, "end")
        BY <2>0, <2>6, <3>3, ExitTyped DEF Steppings
      <3> QED BY <2>6, <3>1, <3>2, <3>3
    <2>7. CASE ChildrenNext
      <3>0. program' = program
        BY <2>7 DEF ChildrenNext
      <3>1. CASE p6
        <4>1. PICK p \in Procs : ForkFamily(p) \/ ChildExits(p) \/ WorkOn(p)
          BY <3>1 DEF p6
        <4>2. CASE ForkFamily(p)
          BY <2>2, <3>0, <4>2
        <4>3. CASE ChildExits(p)
          BY <2>3, <3>0, <4>3
        <4>4. CASE WorkOn(p)
          BY <2>4, <3>0, <4>4 DEF WorkOn
        <4> QED BY <4>1, <4>2, <4>3, <4>4
      <3>2. CASE p6b
        BY <2>2, <2>3, <3>0, <3>2, WorkAndWaitTyped DEF p6b
      <3>3. CASE p6c
        BY <2>2, <2>4, <3>0, <3>3, WorkAndWaitTyped DEF p6c
      <3>4. CASE p9 \/ p9b
        BY <2>5, <3>0, <3>4 DEF p9, p9b
      <3>5. CASE p4a \/ p4b \/ p5a
        BY <2>6, <3>0, <3>5 DEF p4a, p4b, p5a
      <3>6. CASE p5b
        BY <2>6, <3>0, <3>6, HandlerTyped DEF p5b
      <3> QED BY <2>7, <3>1, <3>2, <3>3, <3>4, <3>5, <3>6 DEF ChildrenNext
    <2> QED BY <2>1, <2>7
  <1> QED BY <1>1, <1>2, PTL DEF ChildrenSpec

\* The processes, the statements they are at and their counters have their types, and
\* what is told are processes: no loop forks or waits in a turn it does not have
\* (prob03/p6.c:12, prob04/p4a.c:12, 24).
THEOREM ChildrenAreTyped == ChildrenSpec => []ChildrenTypeOK
  <1>1. Family => ChildrenTypeOK
    BY DEF Family
  <1> QED BY <1>1, ChildrenKeepTypes, PTL

-----------------------------------------------------------------------------
(* What becomes of the children: which of them there are, and which have been *)
(* told of.                                                                   *)

\* A child ends before its parent does, or after, in which case nobody waits for it: it
\* is a zombie by its own exit only, which sets the signal (prob04/p5b.c:11).
LEMMA ZombieLemma ==
    ASSUME Family, NoZombieIsLeft, ChildrenNext \/ UNCHANGED <<program, children_vars>>
    PROVE  NoZombieIsLeft'
  <1> SUFFICES ASSUME program = "prob04/p5b", program' = program PROVE NoZombieIsLeft'
    BY DEF NoZombieIsLeft, ChildrenNext
  <1>0. life \in [Procs -> Lives] /\ first \in Procs /\ pending \in BOOLEAN
    BY FirstIsOne DEF Family, ChildrenTypeOK, Lives
  <1>1. Ended(first) = {q \in Procs \ {first} : Parent(q) = first /\ life[q] = "zombie"}
    BY DEF Ended, ChildrenOf
  <1>2. Ended(first)' = {q \in Procs \ {first} : Parent(q) = first /\ life'[q] = "zombie"}
    BY DEF Ended, ChildrenOf
  <1>3. Ended(first) = {} \/ pending \/ handling
    BY DEF NoZombieIsLeft
  <1>4. ASSUME pending' = pending, handling' = handling,
               \A q \in Procs : life'[q] = "zombie" => life[q] = "zombie"
        PROVE  NoZombieIsLeft'
    BY <1>1, <1>2, <1>3, <1>4 DEF NoZombieIsLeft
  <1>5. CASE UNCHANGED <<program, children_vars>>
    BY <1>4, <1>5 DEF children_vars
  <1>6. CASE ForkAll
    <2>1. CASE ForkChild(first, "child", "work")
      BY <1>0, <1>4, <2>1 DEF ForkChild
    <2>2. CASE CannotFork(first, "work") \/ WorkOn(first)
      BY <1>4, <2>2 DEF CannotFork, WorkOn, NextTurn
    <2>3. CASE Steps(first, "fork", "wait") /\ UNCHANGED <<life, pending, handling>>
      BY <1>4, <2>3
    <2>4. CASE \E j \in 1 .. FORKS : ChildExits({j})
      <3>1. PICK p \in Procs : Exit(p, "child") /\ p # first
        BY <2>4 DEF ChildExits, Procs, first
      <3>2. CASE life[Parent(p)] = "alive"
        <4>1. pending'
          BY <3>1, <3>2 DEF Exit
        <4> QED BY <4>1 DEF NoZombieIsLeft
      <3>3. CASE life[Parent(p)] # "alive"
        <4>1. pending' = pending /\ handling' = handling
          BY <1>0, <3>1, <3>3 DEF Exit
        <4>2. \A q \in Procs : life'[q] = "zombie" => life[q] = "zombie"
          BY <3>1, <3>3 DEF Exit
        <4> QED BY <1>4, <4>1, <4>2
      <3> QED BY <3>2, <3>3
    <2> QED BY <1>6, <2>1, <2>2, <2>3, <2>4 DEF ForkAll
  <1>7. CASE WaitNot(AfterWait)
    <2>1. (\E q \in Ended(first) : Reap(q)) \/ UNCHANGED life
      BY <1>7 DEF WaitNot, Wait
    <2>2. UNCHANGED <<pending, handling>>
      BY <1>7 DEF WaitNot, Wait, NextTurn
    <2> QED BY <1>0, <1>4, <2>1, <2>2 DEF Reap
  <1>8. CASE Exit(first, "end")
    <2>1. pending' = pending /\ handling' = handling
      BY <1>0, <1>8 DEF Exit
    <2>2. \A q \in Procs : life'[q] = "zombie" => life[q] = "zombie"
      BY <1>8 DEF Exit
    <2> QED BY <1>4, <2>1, <2>2
  <1>9. CASE Catch
    BY <1>9 DEF Catch, NoZombieIsLeft
  <1>10. CASE sigchld_handler
    BY <1>1, <1>2, <1>10 DEF sigchld_handler, NoZombieIsLeft
  <1> QED BY <1>5, <1>6, <1>7, <1>8, <1>9, <1>10
          DEF ChildrenNext, p6, p6b, p6c, p9, p9b, p4a, p4b, p5a, p5b

\* No child that has ended is forgotten by the handler of SIGCHLD, however many signals
\* merge (prob04/p5b.c:8-13): the exit that makes a zombie also sends the signal, and the
\* handler returns only when it finds none.
THEOREM NoChildIsForgotten == ChildrenSpec => []NoZombieIsLeft
  <1>1. program \in ChildrenPrograms /\ ChildrenInit => NoZombieIsLeft
    BY DEF ChildrenInit, NoZombieIsLeft, Ended, ChildrenOf
  <1>2. Family /\ NoZombieIsLeft /\ [ChildrenNext]_<<program, children_vars>> => NoZombieIsLeft'
    BY ZombieLemma
  <1> QED BY <1>1, <1>2, ChildrenKeepTypes, PTL DEF ChildrenSpec

\* The programs that wait, and among them those that wait until there are no children.
Tellers == OneChildPrograms \cup TellingPrograms
Patient == OneChildPrograms \cup {"prob04/p4a"}

\* The processes that the first one may fork.
Singles == {{j} : j \in 1 .. FORKS}
Living == {q \in Singles : life[q] \in {"alive", "zombie"}}

\* The first process alone forks, a child for each turn.
Forked ==
    /\ step[first] # "child" /\ (step[first] # "ended" => life[first] = "alive")
    /\ \A q \in Procs \ {first} : life[q] # "unborn" => q \in Singles
    /\ step[first] = "fork" => \A j \in 1 .. FORKS : j >= turn[first] => life[{j}] = "unborn"
    /\ step[first] = "work" => \A j \in 1 .. FORKS : j > turn[first] => life[{j}] = "unborn"

ToldOnce ==
    /\ \A m \in 1 .. Len(told) : told[m] # PID0 => told[m] \in Procs \ {first} /\ life[told[m]] = "gone"
    /\ \A m, n \in 1 .. Len(told) : told[m] = told[n] => m = n \/ told[m] = PID0

ToldAll ==
    /\ \A m \in 1 .. Len(told) : told[m] # PID0
    /\ step[first] # "ended" =>
           \A q \in Singles : life[q] = "gone" => \E m \in 1 .. Len(told) : told[m] = q
    /\ step[first] = "end" => Living = {}

\* A turn of the waiting loop is left for each child, and one more.
TurnsLeft ==
    /\ (program = "prob04/p4a" /\ step[first] = "wait") =>
           Cardinality(Living) <= FORKS + 1 - turn[first]
    /\ program \in OneChildPrograms =>
           /\ Living \subseteq {{1}}
           /\ step[first] \in {"fork", "wait"} => turn[first] = 1

Telling ==
    /\ Family
    /\ program \in FamilyPrograms => told = << >>
    /\ program \in Tellers => Forked /\ ToldOnce
    /\ program \in Patient => ToldAll /\ TurnsLeft

LEMMA SinglesLemma ==
    /\ Singles \subseteq Procs \ {first}
    /\ IsFiniteSet(Singles) /\ Cardinality(Singles) <= FORKS
    /\ \A q \in Singles : Parent(q) = first
  <1>1. Singles \subseteq Procs \ {first}
    BY DEF Singles, Procs, first
  <1>2. IsFiniteSet(Singles) /\ Cardinality(Singles) <= FORKS
    <2>1. IsFiniteSet(1 .. FORKS) /\ Cardinality(1 .. FORKS) = FORKS
      BY FirstIsOne, FS_Interval
    <2> DEFINE single == [j \in 1 .. FORKS |-> {j}]
    <2>2. single \in Surjection(1 .. FORKS, Singles)
      BY DEF Surjection, Singles
    <2> QED BY <2>1, <2>2, FS_Surjection
  <1>3. ASSUME NEW q \in Singles PROVE Parent(q) = first
    <2>1. PICK j \in 1 .. FORKS : q = {j}
      BY DEF Singles
    <2>2. \E m \in q : \A n \in q : n <= m
      BY <2>1, FirstIsOne
    <2>3. (CHOOSE m \in q : \A n \in q : n <= m) \in q
      BY <2>2
    <2>4. Parent(q) = q \ {CHOOSE m \in q : \A n \in q : n <= m}
      BY DEF Parent
    <2> QED BY <2>1, <2>3, <2>4 DEF first
  <1> QED BY <1>1, <1>2, <1>3

\* The children there are, and those that have ended.
LEMMA ChildrenLemma ==
    ASSUME Forked
    PROVE  /\ ChildrenOf(first) = Living /\ Ended(first) = {q \in Living : life[q] = "zombie"}
           /\ \A p \in Singles : Ended(p) = {}
           /\ IsFiniteSet(Living) /\ Cardinality(Living) \in Nat /\ Cardinality(Living) <= FORKS
  <1>1. ChildrenOf(first) = Living
    BY SinglesLemma DEF ChildrenOf, Living, Forked
  <1>2. ASSUME NEW p \in Singles PROVE Ended(p) = {}
    <2>1. \A q \in Procs \ {first} : life[q] # "unborn" => Parent(q) = first
      BY SinglesLemma DEF Forked
    <2>2. p # first
      BY SinglesLemma
    <2> QED BY <2>1, <2>2 DEF Ended, ChildrenOf
  <1>3. IsFiniteSet(Living) /\ Cardinality(Living) <= Cardinality(Singles)
    BY SinglesLemma, FS_Subset DEF Living
  <1>4. Cardinality(Living) \in Nat /\ Cardinality(Singles) \in Nat /\ Cardinality(Singles) <= FORKS
    BY <1>3, SinglesLemma, FS_CardinalityType
  <1> QED BY <1>1, <1>2, <1>3, <1>4, FirstIsOne DEF Ended

\* What has been told stays so when those that are gone stay gone.
LEMMA StaysTold ==
    ASSUME ToldOnce, told' = told, \A q \in Procs : life[q] = "gone" => life'[q] = "gone"
    PROVE  ToldOnce'
  BY DEF ToldOnce

\* What a step of the first process needs that neither ends nor tells of a child.
LEMMA QuietTells ==
    ASSUME Telling, program \in Tellers, Family', UNCHANGED <<program, life, told>>,
           step'[first] # "child", step'[first] # "ended", step[first] # "ended",
           step'[first] = "fork" =>
               /\ program \notin OneChildPrograms
               /\ step[first] = "work" /\ turn'[first] = turn[first] + 1,
           step'[first] = "work" => step[first] = "fork" /\ turn'[first] = turn[first],
           (step'[first] = "end" /\ program \in Patient) => Living = {},
           (step'[first] = "wait" /\ program = "prob04/p4a") =>
               Cardinality(Living) <= FORKS + 1 - turn'[first],
           (step'[first] = "wait" /\ program \in OneChildPrograms) => turn'[first] = 1
    PROVE  Telling'
  <1>1. ToldOnce'
    BY StaysTold DEF Telling
  <1>2. Forked'
    <2>1. turn[first] \in Int
      BY FirstIsOne DEF Family, ChildrenTypeOK, Telling
    <2>2. Forked
      BY DEF Telling
    <2>3. /\ step'[first] # "child" /\ (step'[first] # "ended" => life'[first] = "alive")
          /\ \A q \in Procs \ {first} : life'[q] # "unborn" => q \in Singles
      BY <2>2 DEF Forked
    <2>4. step'[first] = "fork" => \A j \in 1 .. FORKS : j >= turn'[first] => life'[{j}] = "unborn"
      BY <2>1, <2>2 DEF Forked
    <2>5. step'[first] = "work" => \A j \in 1 .. FORKS : j > turn'[first] => life'[{j}] = "unborn"
      BY <2>1, <2>2 DEF Forked
    <2> QED BY <2>3, <2>4, <2>5 DEF Forked
  <1>3. Living' = Living
    BY DEF Living
  <1>4. program \in Patient => ToldAll' /\ TurnsLeft'
    <2> SUFFICES ASSUME program \in Patient PROVE ToldAll' /\ TurnsLeft'
      OBVIOUS
    <2>1. ToldAll /\ TurnsLeft
      BY DEF Telling
    <2>2. ToldAll'
      BY <1>3, <2>1 DEF ToldAll
    <2>3. TurnsLeft'
      BY <1>3, <2>1 DEF TurnsLeft
    <2> QED BY <2>2, <2>3
  <1>5. program \notin FamilyPrograms \/ told' = << >>
    BY DEF Telling
  <1> QED BY <1>1, <1>2, <1>4, <1>5 DEF Telling

\* A fork makes the child of the turn, which was not there.
LEMMA ForkTells ==
    ASSUME Telling, program \in Tellers, Family', program' = program,
           NEW to \in {"work", "wait"}, ForkChild(first, "child", to),
           to = "wait" => program \in OneChildPrograms, to = "work" => program \notin OneChildPrograms
    PROVE  Telling'
  <1>1. PICK t \in 1 .. FORKS : t = turn[first]
    BY FirstIsOne DEF ForkChild, Telling, Family, ChildrenTypeOK
  <1>2. PICK q : q = {t}
    OBVIOUS
  <1>3. first \cup {turn[first]} = q
    BY <1>1, <1>2 DEF first
  <1>4. q \in Singles /\ q \in Procs /\ q # first /\ life[q] = "unborn" /\ first \in Procs
    <2>1. q \in Singles /\ q \in Procs /\ q # first /\ first \in Procs
      BY <1>1, <1>2, SinglesLemma, FirstIsOne DEF Singles
    <2>2. Forked /\ step[first] = "fork" /\ t >= turn[first]
      BY <1>1, FirstIsOne DEF Telling, ForkChild, IsAt
    <2> QED BY <1>2, <2>1, <2>2 DEF Forked
  <1>5. /\ life \in [Procs -> Lives] /\ step \in [Procs -> Steppings] /\ turn \in [Procs -> 1 .. FORKS + 2]
        /\ step[first] = "fork" /\ Forked /\ ToldOnce
    BY DEF Telling, Family, ChildrenTypeOK, Lives, Steppings, ForkChild, IsAt
  <1>6. /\ life'[q] = "alive" /\ \A r \in Procs : r # q => life'[r] = life[r]
        /\ step'[first] = to /\ turn'[first] = t /\ told' = told
    BY <1>1, <1>3, <1>4, <1>5 DEF ForkChild
  <1>7. ToldOnce'
    BY <1>4, <1>5, <1>6, StaysTold
  <1>8. Forked'
    <2>1. /\ step'[first] # "child" /\ life'[first] = "alive"
          /\ \A r \in Procs \ {first} : life'[r] # "unborn" => r \in Singles
      BY <1>4, <1>5, <1>6 DEF Forked
    <2>2. ASSUME NEW j \in 1 .. FORKS, j > turn'[first] PROVE life'[{j}] = "unborn"
      <3>1. {j} # q /\ {j} \in Procs /\ j >= turn[first]
        BY <1>1, <1>2, <1>6, <2>2, FirstIsOne DEF Procs
      <3> QED BY <1>5, <1>6, <3>1 DEF Forked
    <2>3. to # "fork"
      OBVIOUS
    <2> QED BY <1>6, <2>1, <2>2, <2>3 DEF Forked
  <1>9. program \in Patient => ToldAll' /\ TurnsLeft'
    <2> SUFFICES ASSUME program \in Patient PROVE ToldAll' /\ TurnsLeft'
      OBVIOUS
    <2>1. ToldAll /\ TurnsLeft
      BY DEF Telling
    <2>2. ToldAll'
      BY <1>4, <1>5, <1>6, <2>1, SinglesLemma DEF ToldAll
    <2>3. Living' \subseteq Living \cup {q}
      BY <1>6, SinglesLemma DEF Living
    <2>4. program \in OneChildPrograms => t = 1
      BY <1>1, <1>5, <2>1 DEF TurnsLeft
    <2>5. TurnsLeft'
      BY <1>2, <1>6, <2>1, <2>3, <2>4 DEF TurnsLeft, OneChildPrograms
    <2> QED BY <2>2, <2>5
  <1>10. program \notin FamilyPrograms \/ told' = << >>
    BY <1>6 DEF Telling
  <1> QED BY <1>7, <1>8, <1>9, <1>10 DEF Telling

\* A child that exits is a zombie until it has been waited for, or the parent is gone.
LEMMA ChildExitTells ==
    ASSUME Telling, program \in Tellers, Family', program' = program,
           NEW p \in Singles, Exit(p, "child")
    PROVE  Telling'
  <1>1. p \in Procs /\ p # first /\ Parent(p) = first /\ first \in Procs
    BY SinglesLemma, FirstIsOne
  <1>2. /\ life \in [Procs -> Lives] /\ step \in [Procs -> Steppings] /\ turn \in [Procs -> 1 .. FORKS + 2]
        /\ Forked /\ ToldOnce
    BY DEF Telling, Family, ChildrenTypeOK, Lives, Steppings
  <1>3. Ended(p) = {}
    BY <1>2, ChildrenLemma
  <1>4. /\ life[p] = "alive" /\ step' = [step EXCEPT ![p] = "ended"] /\ turn' = turn /\ told' = told
        /\ \A q \in Procs : q # p => life'[q] = life[q]
        /\ life'[p] \in {"zombie", "gone"}
        /\ (life[first] = "alive" /\ program # "prob04/p5a") => life'[p] = "zombie"
    BY <1>1, <1>3 DEF Exit, Steps, IsAt
  <1>5. step'[first] = step[first]
    BY <1>1, <1>2, <1>4
  <1>6. ToldOnce'
    BY <1>2, <1>4, StaysTold
  <1>7. Forked'
    <2>1. \A j \in 1 .. FORKS : {j} \in Procs
      BY DEF Procs
    <2> QED BY <1>1, <1>2, <1>4, <1>5, <2>1 DEF Forked
  <1>8. program \in Patient => ToldAll' /\ TurnsLeft'
    <2> SUFFICES ASSUME program \in Patient PROVE ToldAll' /\ TurnsLeft'
      OBVIOUS
    <2>1. ToldAll /\ TurnsLeft /\ program # "prob04/p5a"
      BY DEF Telling, Patient, OneChildPrograms
    <2>2. Living' \subseteq Living /\ (step[first] # "ended" => Living' = Living)
      BY <1>2, <1>4, <2>1, SinglesLemma DEF Living, Forked
    <2>3. ToldAll'
      BY <1>2, <1>4, <1>5, <2>1, <2>2, SinglesLemma DEF ToldAll, Forked
    <2>4. TurnsLeft'
      BY <1>4, <1>5, <2>1, <2>2 DEF TurnsLeft
    <2> QED BY <2>3, <2>4
  <1>9. program \notin FamilyPrograms \/ told' = << >>
    BY <1>4 DEF Telling
  <1> QED BY <1>6, <1>7, <1>8, <1>9 DEF Telling

\* A wait that finds a zombie: the child is gone, and told of.
LEMMA ReapTells ==
    ASSUME Telling, program \in Tellers, Family', program' = program, NEW to \in {"wait", "end"},
           NEW q \in Ended(first), Reap(q), NextTurn(first, "wait", to), Tell(q),
           program = "prob04/p4a" => to = AfterWait, program \in OneChildPrograms => to = "end"
    PROVE  Telling'
  <1>1. /\ life \in [Procs -> Lives] /\ step \in [Procs -> Steppings] /\ turn \in [Procs -> 1 .. FORKS + 2]
        /\ Forked /\ ToldOnce /\ first \in Procs /\ told \in Seq(Procs \cup {PID0}) /\ FORKS \in Nat
    BY FirstIsOne DEF Telling, Family, ChildrenTypeOK, Lives, Steppings
  <1>2. q \in Living /\ life[q] = "zombie" /\ q \in Singles /\ q \in Procs \ {first} /\ q # PID0
    <2>1. q \in Living /\ life[q] = "zombie"
      BY <1>1, ChildrenLemma
    <2>2. q \in Singles /\ q \in Procs \ {first}
      BY <2>1, SinglesLemma DEF Living
    <2>3. 0 \notin q
      BY <2>2 DEF Procs
    <2> QED BY <2>1, <2>2, <2>3 DEF PID0
  <1>3. /\ life'[q] = "gone" /\ \A r \in Procs : r # q => life'[r] = life[r]
        /\ step[first] = "wait" /\ step'[first] = to
        /\ turn'[first] = turn[first] + 1
    BY <1>1, <1>2 DEF Reap, NextTurn, Steps, IsAt
  <1>4. PICK n \in Nat : n = Len(told)
    BY <1>1
  <1>5. Len(told') = n + 1 /\ told'[n + 1] = q /\ \A m \in 1 .. n : told'[m] = told[m]
    BY <1>1, <1>4 DEF Tell
  <1>6. ToldOnce'
    <2>1. \A m \in 1 .. n + 1 : m \in 1 .. n \/ m = n + 1
      BY <1>4
    <2>2. \A m \in 1 .. n : told[m] # q
      BY <1>1, <1>2, <1>4 DEF ToldOnce
    <2>3. \A m \in 1 .. n + 1 : told'[m] # PID0 => told'[m] \in Procs \ {first} /\ life'[told'[m]] = "gone"
      <3> SUFFICES ASSUME NEW m \in 1 .. n + 1, told'[m] # PID0
                   PROVE  told'[m] \in Procs \ {first} /\ life'[told'[m]] = "gone"
        OBVIOUS
      <3>1. CASE m = n + 1
        BY <1>2, <1>3, <1>5, <3>1
      <3>2. CASE m \in 1 .. n
        <4>1. told'[m] = told[m] /\ told[m] \in Procs \ {first} /\ life[told[m]] = "gone"
          BY <1>1, <1>4, <1>5, <3>2 DEF ToldOnce
        <4> QED BY <1>2, <1>3, <4>1
      <3> QED BY <2>1, <3>1, <3>2
    <2>4. \A m, l \in 1 .. n + 1 : told'[m] = told'[l] => m = l \/ told'[m] = PID0
      BY <1>1, <1>4, <1>5, <2>1, <2>2 DEF ToldOnce
    <2> QED BY <1>5, <2>3, <2>4 DEF ToldOnce
  <1>7. Forked'
    <2>1. \A j \in 1 .. FORKS : {j} \in Procs
      BY DEF Procs
    <2> QED BY <1>1, <1>2, <1>3, <2>1 DEF Forked
  <1>8. Living' = Living \ {q}
    BY <1>2, <1>3, SinglesLemma DEF Living
  <1>9. /\ IsFiniteSet(Living) /\ Cardinality(Living) \in Nat
        /\ Cardinality(Living') = Cardinality(Living) - 1 /\ Cardinality(Living') \in Nat
    <2>1. IsFiniteSet(Living) /\ Cardinality(Living) \in Nat
      BY <1>1, ChildrenLemma
    <2>2. Cardinality(Living \ {q}) = Cardinality(Living) - 1 /\ IsFiniteSet(Living \ {q})
      BY <1>2, <2>1, FS_RemoveElement
    <2> QED BY <1>8, <2>1, <2>2, FS_CardinalityType
  <1>10. program \in Patient => ToldAll' /\ TurnsLeft'
    <2> SUFFICES ASSUME program \in Patient PROVE ToldAll' /\ TurnsLeft'
      OBVIOUS
    <2>1. ToldAll /\ TurnsLeft
      BY DEF Telling
    <2>2. turn[first] \in Nat
      BY <1>1
    <2>3. to = "end" => Living' = {}
      <3>1. CASE program \in OneChildPrograms
        BY <1>2, <1>8, <2>1, <3>1 DEF TurnsLeft
      <3>2. CASE program = "prob04/p4a" /\ to = "end"
        <4>1. turn[first] > FORKS
          BY <1>1, <3>2 DEF AfterWait
        <4>2. Cardinality(Living) <= FORKS + 1 - turn[first]
          BY <1>3, <2>1, <3>2 DEF TurnsLeft
        <4>3. Cardinality(Living') < 0
          BY <1>1, <1>9, <2>2, <4>1, <4>2
        <4> QED BY <1>9, <4>3
      <3> QED BY <3>1, <3>2 DEF Patient
    <2>4. \A m \in 1 .. n + 1 : told'[m] # PID0
      <3>1. \A m \in 1 .. n + 1 : m \in 1 .. n \/ m = n + 1
        BY <1>4
      <3> QED BY <1>2, <1>4, <1>5, <2>1, <3>1 DEF ToldAll
    <2>5. ASSUME NEW r \in Singles, life'[r] = "gone" PROVE \E m \in 1 .. n + 1 : told'[m] = r
      <3>1. CASE r = q
        BY <1>4, <1>5, <3>1
      <3>2. CASE r # q
        <4>1. PICK m \in 1 .. n : told[m] = r
          BY <1>3, <1>4, <2>1, <2>5, <3>2, SinglesLemma DEF ToldAll
        <4> QED BY <1>4, <1>5, <4>1
      <3> QED BY <3>1, <3>2
    <2>6. ToldAll'
      BY <1>3, <1>5, <2>3, <2>4, <2>5 DEF ToldAll
    <2>7. TurnsLeft'
      <3>1. CASE program = "prob04/p4a"
        <4>1. Cardinality(Living) <= FORKS + 1 - turn[first]
          BY <1>3, <2>1, <3>1 DEF TurnsLeft
        <4>2. Cardinality(Living') <= FORKS + 1 - turn'[first]
          BY <1>1, <1>3, <1>9, <2>2, <4>1
        <4> QED BY <3>1, <4>2 DEF TurnsLeft, OneChildPrograms
      <3>2. CASE program \in OneChildPrograms
        BY <1>3, <1>8, <2>1, <3>2 DEF TurnsLeft, OneChildPrograms
      <3> QED BY <3>1, <3>2 DEF Patient
    <2> QED BY <2>6, <2>7
  <1>11. program \notin FamilyPrograms
    BY DEF Tellers, FamilyPrograms, OneChildPrograms, TellingPrograms
  <1> QED BY <1>6, <1>7, <1>10, <1>11 DEF Telling

\* The other programs (prob04/p4b.c, p5a.c, p5b.c) may wait in vain, or in the handler.
LEMMA ImpatientTells ==
    ASSUME Telling, program \in Tellers, program \notin Patient, Family', program' = program,
           \/ step'[first] \in {"wait", "end"} /\ step[first] = "wait" /\ life' = life /\ Tell(PID0)
           \/ /\ \E q \in Ended(first) : Reap(q)
              /\ UNCHANGED <<step, turn, told>>
    PROVE  Telling'
  <1>1. /\ life \in [Procs -> Lives] /\ Forked /\ ToldOnce /\ first \in Procs
        /\ told \in Seq(Procs \cup {PID0})
    BY FirstIsOne DEF Telling, Family, ChildrenTypeOK, Lives
  <1>2. program \notin FamilyPrograms
    BY DEF Tellers, FamilyPrograms, OneChildPrograms, TellingPrograms
  <1>3. CASE step'[first] \in {"wait", "end"} /\ step[first] = "wait" /\ life' = life /\ Tell(PID0)
    <2>1. PICK n \in Nat : n = Len(told)
      BY <1>1
    <2>2. Len(told') = n + 1 /\ told'[n + 1] = PID0 /\ \A m \in 1 .. n : told'[m] = told[m]
      BY <1>1, <1>3, <2>1 DEF Tell
    <2>3. \A m \in 1 .. n + 1 : m \in 1 .. n \/ m = n + 1
      BY <2>1
    <2>4. ToldOnce'
      <3>1. \A m \in 1 .. n + 1 : told'[m] # PID0 => told'[m] \in Procs \ {first} /\ life'[told'[m]] = "gone"
        BY <1>1, <1>3, <2>1, <2>2, <2>3 DEF ToldOnce
      <3>2. \A m, l \in 1 .. n + 1 : told'[m] = told'[l] => m = l \/ told'[m] = PID0
        BY <1>1, <2>1, <2>2, <2>3 DEF ToldOnce
      <3> QED BY <2>2, <3>1, <3>2 DEF ToldOnce
    <2>5. Forked'
      BY <1>1, <1>3 DEF Forked
    <2> QED BY <1>2, <2>4, <2>5 DEF Telling
  <1>4. CASE UNCHANGED <<step, turn, told>> /\ \E q \in Ended(first) : Reap(q)
    <2>1. PICK q \in Living : Reap(q)
      BY <1>1, <1>4, ChildrenLemma
    <2>2. q \in Singles /\ q \in Procs \ {first} /\ life[q] # "unborn"
      BY <2>1, SinglesLemma DEF Living
    <2>3. life'[q] = "gone" /\ \A r \in Procs : r # q => life'[r] = life[r]
      BY <1>1, <2>1, <2>2 DEF Reap
    <2>4. ToldOnce'
      BY <1>1, <1>4, <2>3, StaysTold
    <2>5. Forked'
      <3>1. \A j \in 1 .. FORKS : {j} \in Procs
        BY DEF Procs
      <3> QED BY <1>1, <1>4, <2>2, <2>3, <3>1 DEF Forked
    <2> QED BY <1>2, <2>4, <2>5 DEF Telling
  <1> QED BY <1>3, <1>4

\* The first process exits: what it has told is told.
LEMMA FirstExitTells ==
    ASSUME Telling, program \in Tellers, Family', program' = program, Exit(first, "end")
    PROVE  Telling'
  <1>1. /\ life \in [Procs -> Lives] /\ step \in [Procs -> Steppings]
        /\ Forked /\ ToldOnce /\ first \in Procs
    BY FirstIsOne DEF Telling, Family, ChildrenTypeOK, Lives, Steppings
  <1>2. /\ step'[first] = "ended" /\ turn' = turn /\ told' = told /\ step[first] = "end"
        /\ \A q \in Procs \ {first} : life'[q] = life[q] \/ (life'[q] = "gone" /\ q \in Ended(first))
        /\ life[first] = "alive"
    <2>1. step' = [step EXCEPT ![first] = "ended"] /\ turn' = turn /\ told' = told
          /\ step[first] = "end" /\ life[first] = "alive"
      BY DEF Exit, Steps, IsAt
    <2>2. ASSUME NEW q \in Procs \ {first}
          PROVE  life'[q] = life[q] \/ (life'[q] = "gone" /\ q \in Ended(first))
      BY DEF Exit
    <2> QED BY <1>1, <2>1, <2>2
  <1>3. ToldOnce'
    BY <1>1, <1>2 DEF ToldOnce
  <1>4. Forked'
    BY <1>1, <1>2, ChildrenLemma DEF Forked, Living
  <1>5. program \in Patient => ToldAll' /\ TurnsLeft'
    <2> SUFFICES ASSUME program \in Patient PROVE ToldAll' /\ TurnsLeft'
      OBVIOUS
    <2>1. ToldAll /\ TurnsLeft
      BY DEF Telling
    <2>2. Living' \subseteq Living
      BY <1>2, SinglesLemma DEF Living
    <2> QED BY <1>2, <2>1, <2>2 DEF ToldAll, TurnsLeft
  <1>6. program \notin FamilyPrograms
    BY DEF Tellers, FamilyPrograms, OneChildPrograms, TellingPrograms
  <1> QED BY <1>3, <1>4, <1>5, <1>6 DEF Telling

\* A wait without children goes on, in p4a in a turn that was left over.
LEMMA VainWaitTells ==
    ASSUME Telling, program \in Tellers, Family', program' = program, NEW to \in {"wait", "end"},
           ChildrenOf(first) = {}, NextTurn(first, "wait", to), UNCHANGED <<life, told>>,
           program = "prob04/p4a" => to = AfterWait, program \in OneChildPrograms => to = "end"
    PROVE  Telling'
  <1>1. /\ step \in [Procs -> Steppings] /\ turn \in [Procs -> 1 .. FORKS + 2] /\ Forked
        /\ first \in Procs /\ FORKS \in Nat
    BY FirstIsOne DEF Telling, Family, ChildrenTypeOK, Steppings
  <1>2. Living = {} /\ Cardinality(Living) = 0
    BY <1>1, ChildrenLemma, FS_EmptySet
  <1>3. step'[first] = to /\ step[first] = "wait" /\ turn'[first] = turn[first] + 1
    BY <1>1 DEF NextTurn, Steps, IsAt
  <1>4. (to = "wait" /\ program = "prob04/p4a") => Cardinality(Living) <= FORKS + 1 - turn'[first]
    <2>1. (to = "wait" /\ program = "prob04/p4a") => turn[first] <= FORKS
      BY DEF AfterWait
    <2> QED BY <1>1, <1>2, <1>3, <2>1
  <1> QED BY <1>2, <1>3, <1>4, QuietTells

\* A step of a program that waits.
LEMMA StepTells ==
    ASSUME Telling, program \in Tellers, Family', ChildrenNext
    PROVE  Telling'
  <1>0. /\ program' = program /\ Forked /\ first \in Procs /\ FORKS \in Nat /\ FORKS >= 1
        /\ step \in [Procs -> Steppings] /\ turn \in [Procs -> 1 .. FORKS + 2]
    BY FirstIsOne DEF Telling, Family, ChildrenTypeOK, Steppings, ChildrenNext
  <1>1. \A p \in Procs, to \in Steppings, from \in Steppings :
            Steps(p, from, to) => /\ step[p] = from /\ step'[p] = to
                                  /\ \A q \in Procs : q # p => step'[q] = step[q]
    BY <1>0 DEF Steps, IsAt
  <1>2. CASE program \in TellingPrograms /\ ForkAll
    <2>0. program \notin OneChildPrograms
      BY <1>2 DEF OneChildPrograms, TellingPrograms
    <2>1. CASE ForkChild(first, "child", "work")
      BY <1>0, <2>0, <2>1, ForkTells
    <2>2. CASE CannotFork(first, "work")
      <3>1. step[first] = "fork" /\ step'[first] = "work" /\ UNCHANGED <<turn, life, told>>
        BY <1>0, <1>1, <2>2 DEF CannotFork, Steppings
      <3> QED BY <1>0, <3>1, QuietTells
    <2>3. CASE WorkOn(first)
      <3>1. step[first] = "work" /\ step'[first] = "fork" /\ turn'[first] = turn[first] + 1
            /\ UNCHANGED <<life, told>>
        BY <1>0, <1>1, <2>3 DEF WorkOn, NextTurn, Steppings
      <3> QED BY <1>0, <2>0, <3>1, QuietTells
    <2>4. CASE /\ turn[first] > FORKS /\ Steps(first, "fork", "wait")
               /\ turn' = [turn EXCEPT ![first] = 1]
               /\ UNCHANGED <<life, tries, fork_failed, pending, handling, told>>
      <3>1. step[first] = "fork" /\ step'[first] = "wait" /\ turn'[first] = 1
        BY <1>0, <1>1, <2>4 DEF Steppings
      <3>2. Cardinality(Living) <= FORKS + 1 - turn'[first]
        BY <1>0, <3>1, ChildrenLemma
      <3> QED BY <1>0, <2>0, <2>4, <3>1, <3>2, QuietTells
    <2>5. CASE \E j \in 1 .. FORKS : ChildExits({j})
      <3>1. PICK p \in Singles : Exit(p, "child")
        BY <2>5 DEF ChildExits, Singles
      <3> QED BY <1>0, <3>1, ChildExitTells
    <2> QED BY <1>2, <2>1, <2>2, <2>3, <2>4, <2>5 DEF ForkAll
  <1>3. CASE program \in OneChildPrograms /\ OneChild
    <2>1. CASE ForkChild(first, "child", "wait")
      BY <1>0, <1>3, <2>1, ForkTells
    <2>2. CASE CannotFork(first, "end")
      <3>1. step[first] = "fork" /\ step'[first] = "end" /\ UNCHANGED <<turn, life, told>>
        BY <1>0, <1>1, <2>2 DEF CannotFork, Steppings
      <3>2. turn[first] = 1 /\ Living \subseteq {{1}} /\ 1 \in 1 .. FORKS
        BY <1>0, <1>3, <3>1 DEF Telling, TurnsLeft, Patient
      <3>3. life[{1}] = "unborn"
        BY <1>0, <3>1, <3>2 DEF Forked
      <3>4. Living = {}
        BY <3>2, <3>3 DEF Living
      <3> QED BY <1>0, <3>1, <3>4, QuietTells
    <2>3. CASE ChildExits({1})
      <3>1. {1} \in Singles /\ Exit({1}, "child")
        BY <1>0, <2>3 DEF ChildExits, Singles
      <3> QED BY <1>0, <3>1, ChildExitTells
    <2>4. CASE Wait("end")
      <3>1. program # "prob04/p4a"
        BY <1>3 DEF OneChildPrograms
      <3> QED BY <1>0, <2>4, <3>1, ReapTells, VainWaitTells DEF Wait
    <2>5. CASE Exit(first, "end")
      BY <1>0, <2>5, FirstExitTells
    <2> QED BY <1>3, <2>1, <2>2, <2>3, <2>4, <2>5 DEF OneChild
  <1>4. CASE program \in TellingPrograms /\ Wait(AfterWait)
    <2>1. AfterWait \in {"wait", "end"} /\ program \notin OneChildPrograms
      BY <1>4 DEF AfterWait, OneChildPrograms, TellingPrograms
    <2> QED BY <1>0, <1>4, <2>1, ReapTells, VainWaitTells DEF Wait
  <1>5. CASE /\ program \in TellingPrograms \ {"prob04/p4a"}
             /\ NextTurn(first, "wait", AfterWait) /\ Tell(PID0) /\ UNCHANGED life
    <2>1. step[first] = "wait" /\ step'[first] \in {"wait", "end"} /\ program \notin Patient
      BY <1>0, <1>1, <1>5 DEF NextTurn, AfterWait, Steppings, Patient, OneChildPrograms, TellingPrograms
    <2> QED BY <1>0, <1>5, <2>1, ImpatientTells
  <1>6. CASE Exit(first, "end")
    BY <1>0, <1>6, FirstExitTells
  <1>7. CASE program = "prob04/p5b" /\ (Catch \/ sigchld_handler)
    <2>0. program \notin Patient /\ UNCHANGED <<step, turn, told>>
      BY <1>7 DEF Patient, OneChildPrograms, Catch, sigchld_handler
    <2>1. CASE UNCHANGED life
      BY <1>0, <2>0, <2>1, StaysTold DEF Telling, Forked
    <2>2. CASE \E q \in Ended(first) : Reap(q)
      BY <1>0, <2>0, <2>2, ImpatientTells
    <2> QED BY <1>7, <2>1, <2>2 DEF Catch, sigchld_handler
  <1> QED
    <2>1. program \notin FamilyPrograms
      BY DEF Tellers, FamilyPrograms, OneChildPrograms, TellingPrograms
    <2>2. ~p6 /\ ~p6b /\ ~p6c
      BY <2>1 DEF p6, p6b, p6c, FamilyPrograms
    <2>3. CASE p9 \/ p9b
      BY <1>3, <2>3 DEF p9, p9b, OneChildPrograms
    <2>4. CASE p4a
      BY <1>2, <1>4, <1>6, <2>4 DEF p4a, TellingPrograms
    <2>5. CASE p4b \/ p5a
      BY <1>2, <1>4, <1>5, <1>6, <2>5 DEF p4b, p5a, WaitNot, TellingPrograms
    <2>6. CASE p5b
      BY <1>2, <1>4, <1>5, <1>6, <1>7, <2>6 DEF p5b, WaitNot, TellingPrograms
    <2> QED BY <2>2, <2>3, <2>4, <2>5, <2>6 DEF ChildrenNext

\* No child's end is told twice or before it, and where the parent does wait all have been
\* told when it ends (prob03/p9.c:19, prob04/p4a.c:31): a child that is told of was a
\* zombie and is gone for good, and a turn of the loop is left for each that is not.
THEOREM EndsAreTold == ChildrenSpec => []EachEndIsTold
  <1>1. Family /\ ChildrenInit => Telling
    <2> SUFFICES ASSUME Family, ChildrenInit PROVE Telling
      OBVIOUS
    <2>1. /\ told = << >> /\ Len(told) = 0 /\ first \in Procs /\ FORKS >= 1
          /\ life[first] = "alive" /\ step[first] = "fork" /\ turn[first] = 1
          /\ \A q \in Procs \ {first} : life[q] = "unborn"
      BY FirstIsOne DEF ChildrenInit
    <2>2. Living = {} /\ \A q \in Singles : life[q] = "unborn"
      BY <2>1, SinglesLemma DEF Living
    <2>3. Forked
      BY <2>1, <2>2 DEF Forked, Singles
    <2>4. ToldOnce /\ ToldAll
      BY <2>1, <2>2 DEF ToldOnce, ToldAll
    <2>5. TurnsLeft
      BY <2>1, <2>2 DEF TurnsLeft
    <2> QED BY <2>1, <2>3, <2>4, <2>5 DEF Telling
  <1>2. Telling /\ Family' /\ [ChildrenNext]_<<program, children_vars>> => Telling'
    <2> SUFFICES ASSUME Telling, Family', [ChildrenNext]_<<program, children_vars>> PROVE Telling'
      OBVIOUS
    <2>1. CASE UNCHANGED <<program, children_vars>>
      <3>1. UNCHANGED <<program, life, step, turn, told>> /\ Living' = Living
        BY <2>1 DEF children_vars, Living
      <3>2. Forked => Forked'
        BY <3>1 DEF Forked
      <3>3. ToldOnce => ToldOnce'
        BY <3>1, StaysTold
      <3>4. ToldAll => ToldAll'
        BY <3>1 DEF ToldAll
      <3>5. TurnsLeft => TurnsLeft'
        BY <3>1 DEF TurnsLeft
      <3> QED BY <3>1, <3>2, <3>3, <3>4, <3>5 DEF Telling
    <2>2. CASE ChildrenNext /\ program \in Tellers
      BY <2>2, StepTells
    <2>3. CASE ChildrenNext /\ program \notin Tellers
      <3>1. program \in FamilyPrograms /\ program' = program /\ program \notin Patient
        BY <2>3 DEF Telling, Family, ChildrenPrograms, Tellers, Patient, TellingPrograms, ChildrenNext
      <3>2. ~p9 /\ ~p9b /\ ~p4a /\ ~p4b /\ ~p5a /\ ~p5b
        BY <2>3 DEF p9, p9b, p4a, p4b, p5a, p5b, Tellers, OneChildPrograms, TellingPrograms
      <3>3. told' = told
        <4>1. \A p \in Procs : ForkFamily(p) \/ ChildExits(p) => told' = told
          BY DEF ForkFamily, ChildExits, ForkChild, CannotFork, Exit
        <4>2. \A p \in Procs : WorkOn(p) \/ WorkAndWait(p) => told' = told
          BY DEF WorkOn, WorkAndWait
        <4> QED BY <2>3, <3>2, <4>1, <4>2 DEF ChildrenNext, p6, p6b, p6c
      <3> QED BY <2>3, <3>1, <3>3 DEF Telling
    <2> QED BY <2>1, <2>2, <2>3
  <1>3. Telling => EachEndIsTold
    <2> SUFFICES ASSUME Telling PROVE EachEndIsTold
      OBVIOUS
    <2>1. CASE program \in FamilyPrograms
      <3>1. told = << >> /\ Len(told) = 0 /\ program \notin OneChildPrograms \cup {"prob04/p4a"}
        BY <2>1 DEF Telling, FamilyPrograms, OneChildPrograms
      <3> QED BY <3>1 DEF EachEndIsTold
    <2>2. CASE program \in Tellers
      <3>1. Forked /\ ToldOnce
        BY <2>2 DEF Telling
      <3>2. ASSUME program \in Patient, step[first] = "end"
            PROVE  {told[m] : m \in 1 .. Len(told)} = Born \ {first}
        <4>1. ToldAll
          BY <3>2 DEF Telling
        <4>2. ASSUME NEW m \in 1 .. Len(told) PROVE told[m] \in Born \ {first}
          BY <3>1, <4>1 DEF ToldOnce, ToldAll, Born
        <4>3. ASSUME NEW q \in Born \ {first} PROVE \E m \in 1 .. Len(told) : told[m] = q
          <5>1. q \in Singles /\ q \notin Living /\ life[q] # "unborn" /\ q \in Procs
            BY <3>1, <3>2, <4>1 DEF Forked, ToldAll, Born
          <5>2. life[q] = "gone"
            BY <5>1 DEF Living, Telling, Family, ChildrenTypeOK
          <5> QED BY <3>2, <4>1, <5>1, <5>2 DEF ToldAll
        <4> QED BY <4>2, <4>3
      <3> QED BY <3>1, <3>2 DEF EachEndIsTold, ToldOnce, Patient
    <2> QED BY <2>1, <2>2 DEF Telling, Family, ChildrenPrograms, Tellers
  <1> QED BY <1>1, <1>2, <1>3, ChildrenKeepTypes, PTL DEF ChildrenSpec

-----------------------------------------------------------------------------
(* prob04/p3b: what the child has counted, in v or in a handler that has     *)
(* loaded it, together with the signals still to be handled, stays within    *)
(* what was sent of either kind.                                             *)

Frames == {f \in Seq(Kinds \cup Int) : f[1] \in Kinds /\ (Len(f) = 1 \/ (Len(f) = 2 /\ f[2] \in Int))}

LEMMA FrameParts ==
    ASSUME NEW f \in Frames
    PROVE  /\ f[1] \in Kinds
           /\ Len(f) = 1 => \A w \in Int : /\ Append(f, w) \in Frames /\ Len(Append(f, w)) = 2
                                           /\ Append(f, w)[1] = f[1] /\ Append(f, w)[2] = w
           /\ Len(f) = 2 => f[2] \in Int
           /\ Len(f) \in {1, 2}
  <1>1. f \in Seq(Kinds \cup Int) /\ f[1] \in Kinds /\ (Len(f) = 1 \/ (Len(f) = 2 /\ f[2] \in Int))
    BY DEF Frames
  <1>2. ASSUME NEW w \in Int, Len(f) = 1
        PROVE  /\ Append(f, w) \in Frames /\ Len(Append(f, w)) = 2
               /\ Append(f, w)[1] = f[1] /\ Append(f, w)[2] = w
    <2>0. PICK X : X = Kinds \cup Int /\ w \in X /\ f \in Seq(X)
      BY <1>1
    <2>1. Append(f, w) \in Seq(Kinds \cup Int) /\ Len(Append(f, w)) = 2
      BY <1>2, <2>0
    <2>2. Append(f, w)[1] = f[1] /\ Append(f, w)[2] = w
      <3>1. 1 \in 1 .. Len(f) /\ Len(f) + 1 = 2
        BY <1>2
      <3> QED BY <2>0, <3>1, AppendProperties
    <2> QED BY <1>1, <2>1, <2>2 DEF Frames
  <1> QED BY <1>1, <1>2

HasFrame(s) == \E n \in 1 .. Len(frames) : frames[n][1] = s

\* What is still to be counted of a kind: a signal pending, a handler at work.
Owing(s) == (IF HasFrame(s) THEN 1 ELSE 0) + (IF s \in due THEN 1 ELSE 0)

Within(w) ==
    w + Owing("SIGUSR1") <= sent["SIGUSR1"] /\ Owing("SIGUSR2") - w <= sent["SIGUSR2"]

\* The values at hand: v, and what a handler has loaded.
Held == {w \in Int : w = v \/ \E n \in 1 .. Len(frames) : Len(frames[n]) = 2 /\ frames[n][2] = w}

Tally ==
    /\ frames \in Seq(Frames) /\ v \in Int /\ sent \in [Kinds -> Nat]
    /\ \A m, n \in 1 .. Len(frames) : frames[m][1] = frames[n][1] => m = n
    /\ \A w \in Held : Within(w)

OwingRight == \A s \in Kinds :
    /\ Owing(s) \in {0, 1, 2}
    /\ ~HasFrame(s) /\ s \notin due => Owing(s) = 0
    /\ ~HasFrame(s) /\ s \in due => Owing(s) = 1
    /\ HasFrame(s) /\ s \notin due => Owing(s) = 1
    /\ HasFrame(s) /\ s \in due => Owing(s) = 2

LEMMA OwingLemma == OwingRight
  <1> SUFFICES ASSUME NEW s \in Kinds
               PROVE  /\ Owing(s) \in {0, 1, 2}
                      /\ ~HasFrame(s) /\ s \notin due => Owing(s) = 0
                      /\ ~HasFrame(s) /\ s \in due => Owing(s) = 1
                      /\ HasFrame(s) /\ s \notin due => Owing(s) = 1
                      /\ HasFrame(s) /\ s \in due => Owing(s) = 2
    BY DEF OwingRight
  <1>1. CASE HasFrame(s)
    BY <1>1 DEF Owing
  <1>2. CASE ~HasFrame(s)
    BY <1>2 DEF Owing
  <1> QED BY <1>1, <1>2

LEMMA OwingNext == OwingRight'
  BY OwingLemma, PTL

\* What is counted stays within what is sent when no more is owed, or one more of a kind
\* of which one more is sent.
LEMMA StaysWithin ==
    ASSUME Tally, sent' \in [Kinds -> Nat],
           \A s \in Kinds : Owing(s)' - Owing(s) <= sent'[s] - sent[s]
    PROVE  \A w \in Int : Within(w) => Within(w)'
  <1>1. \A s \in Kinds : sent[s] \in Nat /\ sent'[s] \in Nat
    BY DEF Tally
  <1>2. \A s \in Kinds : Owing(s) \in Int /\ Owing(s)' \in Int
    BY OwingLemma, OwingNext DEF OwingRight
  <1>3. "SIGUSR1" \in Kinds /\ "SIGUSR2" \in Kinds
    BY DEF Kinds
  <1> QED BY <1>1, <1>2, <1>3 DEF Within

\* A signal that is sent is pending once, however often.
LEMMA SendingTallies ==
    ASSUME Tally, UNCHANGED <<frames, v>>,
           \/ UNCHANGED <<sent, due>>
           \/ kill("SIGTERM") /\ UNCHANGED sent
           \/ \E s \in Kinds : kill(s) /\ sent' = [sent EXCEPT ![s] = @ + 1]
    PROVE  Tally'
  <1>1. \A s \in Kinds : HasFrame(s)' <=> HasFrame(s)
    BY DEF HasFrame
  <1>2. "SIGTERM" \notin Kinds
    BY DEF Kinds
  <1>3. ASSUME NEW s \in Kinds, s \in due' <=> s \in due
        PROVE  Owing(s)' = Owing(s)
    BY <1>1, <1>3, OwingLemma, OwingNext DEF OwingRight
  <1>4. sent' \in [Kinds -> Nat] /\ \A s \in Kinds : Owing(s)' - Owing(s) <= sent'[s] - sent[s]
    <2>1. CASE UNCHANGED <<sent, due>> \/ (kill("SIGTERM") /\ UNCHANGED sent)
      <3>1. \A s \in Kinds : s \in due' <=> s \in due
        BY <1>2, <2>1 DEF kill
      <3>2. \A s \in Kinds : Owing(s)' = Owing(s) /\ Owing(s) \in Int
        BY <1>3, <3>1, OwingLemma DEF OwingRight
      <3>3. sent' = sent /\ sent \in [Kinds -> Nat]
        BY <2>1 DEF Tally
      <3> QED BY <3>2, <3>3
    <2>2. ASSUME NEW s \in Kinds, kill(s), sent' = [sent EXCEPT ![s] = @ + 1]
          PROVE  sent' \in [Kinds -> Nat] /\ \A r \in Kinds : Owing(r)' - Owing(r) <= sent'[r] - sent[r]
      <3>1. sent \in [Kinds -> Nat]
        BY DEF Tally
      <3>2. sent' \in [Kinds -> Nat] /\ sent'[s] = sent[s] + 1 /\ \A r \in Kinds : r # s => sent'[r] = sent[r]
        BY <2>2, <3>1
      <3>3. \A r \in Kinds : r # s => Owing(r)' = Owing(r)
        <4>1. \A r \in Kinds : r # s => (r \in due' <=> r \in due)
          BY <2>2 DEF kill
        <4> QED BY <1>3, <4>1
      <3>4. Owing(s)' \in {Owing(s), Owing(s) + 1}
        <4>1. s \in due => s \in due'
          BY <2>2 DEF kill
        <4> QED BY <1>1, <4>1, OwingLemma, OwingNext DEF OwingRight
      <3>5. \A r \in Kinds : Owing(r) \in Int /\ sent[r] \in Int
        BY <3>1, OwingLemma DEF OwingRight
      <3> QED BY <3>2, <3>3, <3>4, <3>5
    <2> QED BY <2>1, <2>2
  <1>5. \A w \in Int : Within(w) => Within(w)'
    BY <1>4, StaysWithin
  <1>6. Held' = Held
    BY DEF Held
  <1>7. \A w \in Held : w \in Int /\ Within(w)
    BY DEF Tally, Held
  <1> QED BY <1>4, <1>5, <1>6, <1>7 DEF Tally

\* A handler is begun for a signal that was pending, so that no more is owed.
LEMMA CatchingTallies ==
    ASSUME Tally, CatchSignal
    PROVE  Tally'
  <1>1. PICK s \in Kinds : /\ s \in due /\ due' = due \ {s} /\ frames' = Append(frames, <<s>>)
                           /\ \A f \in 1 .. Len(frames) : frames[f][1] # s
    <2>1. Handled \subseteq Kinds
      BY DEF Handled, Kinds
    <2> QED BY <2>1 DEF CatchSignal
  <1>2. UNCHANGED <<sent, v>>
    BY DEF CatchSignal
  <1>3. frames \in Seq(Frames) /\ <<s>> \in Frames /\ v \in Int /\ sent \in [Kinds -> Nat]
    BY DEF Tally, Frames
  <1>4. /\ frames' \in Seq(Frames) /\ Len(frames') = Len(frames) + 1
        /\ frames'[Len(frames) + 1] = <<s>>
        /\ \A n \in 1 .. Len(frames) : frames'[n] = frames[n]
    BY <1>1, <1>3
  <1>5. Len(frames) \in Nat
    BY <1>3
  <1>6. <<s>>[1] = s /\ Len(<<s>>) = 1
    OBVIOUS
  <1>7. ~HasFrame(s) /\ HasFrame(s)' /\ \A r \in Kinds : r # s => (HasFrame(r)' <=> HasFrame(r))
    <2>1. ~HasFrame(s)
      BY <1>1 DEF HasFrame
    <2>2. Len(frames) + 1 \in 1 .. Len(frames')
      BY <1>4, <1>5
    <2>3. HasFrame(s)'
      BY <1>4, <1>6, <2>2 DEF HasFrame
    <2>4. ASSUME NEW r \in Kinds, r # s PROVE HasFrame(r)' <=> HasFrame(r)
      <3>1. \A n \in 1 .. Len(frames') : n \in 1 .. Len(frames) \/ n = Len(frames) + 1
        BY <1>4, <1>5
      <3>2. \A n \in 1 .. Len(frames) : n \in 1 .. Len(frames')
        BY <1>4, <1>5
      <3> QED BY <1>4, <1>6, <2>4, <3>1, <3>2 DEF HasFrame
    <2> QED BY <2>1, <2>3, <2>4
  <1>8. \A r \in Kinds : Owing(r)' = Owing(r) /\ Owing(r) \in Int
    BY <1>1, <1>7, OwingLemma, OwingNext DEF OwingRight
  <1>9. \A w \in Int : Within(w) => Within(w)'
    <2>1. \A r \in Kinds : Owing(r)' - Owing(r) <= sent'[r] - sent[r]
      BY <1>2, <1>3, <1>8
    <2> QED BY <1>2, <1>3, <2>1, StaysWithin
  <1>10. \A m, n \in 1 .. Len(frames') : frames'[m][1] = frames'[n][1] => m = n
    BY <1>1, <1>4, <1>5, <1>6 DEF Tally
  <1>11. \A w \in Held' : w \in Held
    <2> SUFFICES ASSUME NEW w \in Int, w \in Held' PROVE w \in Held
      BY DEF Held
    <2>1. CASE w = v
      BY <2>1 DEF Held
    <2>2. ASSUME NEW n \in 1 .. Len(frames'), Len(frames'[n]) = 2, frames'[n][2] = w
          PROVE  w \in Held
      <3>1. n # Len(frames) + 1
        <4> SUFFICES ASSUME n = Len(frames) + 1 PROVE FALSE
          OBVIOUS
        <4>1. frames'[n] = <<s>>
          BY <1>4
        <4>2. Len(frames'[n]) = 1
          BY <1>6, <4>1
        <4> QED BY <2>2, <4>2
      <3>2. n \in 1 .. Len(frames) /\ frames'[n] = frames[n]
        BY <1>4, <1>5, <3>1
      <3> QED BY <2>2, <3>2 DEF Held
    <2> QED BY <1>2, <2>1, <2>2 DEF Held
  <1>12. \A w \in Held' : w \in Int /\ Within(w)'
    BY <1>9, <1>11 DEF Tally, Held
  <1> QED BY <1>2, <1>3, <1>4, <1>10, <1>12 DEF Tally

\* A handler that loads v, and one that stores it, one off.
LEMMA HandlingTallies ==
    ASSUME Tally, sigint_handler
    PROVE  Tally'
  <1>1. PICK n \in Nat : n = Len(frames)
    BY DEF Tally
  <1>2. frames \in Seq(Frames) /\ v \in Int /\ sent \in [Kinds -> Nat] /\ UNCHANGED <<sent, due>>
    BY DEF Tally, sigint_handler
  <1>3. n # 0 /\ n \in 1 .. n /\ frames[n] \in Frames
    BY <1>1, <1>2 DEF sigint_handler
  <1>4. PICK s \in Kinds : s = frames[n][1]
    BY <1>3, FrameParts
  <1>5. \A w \in Held : w \in Int /\ Within(w)
    BY DEF Tally, Held
  <1>6. \A l, m \in 1 .. n : frames[l][1] = frames[m][1] => l = m
    BY <1>1 DEF Tally
  <1>7. CASE Len(frames[n]) = 1 /\ frames' = [frames EXCEPT ![n] = Append(@, v)] /\ UNCHANGED v
    <2>1. PICK g \in Frames : g = Append(frames[n], v) /\ Len(g) = 2 /\ g[1] = s /\ g[2] = v
      BY <1>2, <1>3, <1>4, <1>7, FrameParts
    <2>2. /\ Len(frames') = n /\ frames' \in Seq(Frames) /\ frames'[n] = g
          /\ \A m \in 1 .. n : m # n => frames'[m] = frames[m]
      <3>1. frames \in [1 .. n -> Frames]
        BY <1>1, <1>2
      <3>2. frames' = [frames EXCEPT ![n] = g]
        BY <1>7, <2>1
      <3>3. frames' \in [1 .. n -> Frames]
        BY <2>1, <3>1, <3>2
      <3>4. frames' \in Seq(Frames)
        BY <3>3
      <3> QED BY <1>3, <3>1, <3>2, <3>3, <3>4
    <2>4. \A m \in 1 .. n : frames'[m][1] = frames[m][1]
      BY <1>4, <2>1, <2>2
    <2>5. \A r \in Kinds : HasFrame(r)' <=> HasFrame(r)
      BY <1>1, <2>2, <2>4 DEF HasFrame
    <2>6. \A r \in Kinds : Owing(r)' = Owing(r) /\ Owing(r) \in Int
      BY <1>2, <2>5, OwingLemma, OwingNext DEF OwingRight
    <2>7. \A w \in Int : Within(w) => Within(w)'
      <3>1. \A r \in Kinds : Owing(r)' - Owing(r) <= sent'[r] - sent[r]
        BY <1>2, <2>6
      <3> QED BY <1>2, <3>1, StaysWithin
    <2>8. \A w \in Held' : w \in Held
      <3> SUFFICES ASSUME NEW w \in Int, w \in Held' PROVE w \in Held
        BY DEF Held
      <3>1. CASE w = v
        BY <3>1 DEF Held
      <3>2. ASSUME NEW m \in 1 .. n, Len(frames'[m]) = 2, frames'[m][2] = w PROVE w \in Held
        <4>1. CASE m = n
          <5>1. w = v
            BY <2>1, <2>2, <3>2, <4>1
          <5> QED BY <5>1 DEF Held
        <4>2. CASE m # n
          BY <1>1, <2>2, <3>2, <4>2 DEF Held
        <4> QED BY <4>1, <4>2
      <3> QED BY <1>7, <2>2, <3>1, <3>2 DEF Held
    <2>9. \A w \in Held' : Within(w)'
      BY <1>5, <2>7, <2>8
    <2>10. \A l, m \in 1 .. Len(frames') : frames'[l][1] = frames'[m][1] => l = m
      BY <1>6, <2>2, <2>4
    <2> QED BY <1>2, <1>7, <2>2, <2>9, <2>10 DEF Tally
  <1>8. CASE /\ Len(frames[n]) = 2 /\ frames' = SubSeq(frames, 1, n - 1)
             /\ v' = frames[n][2] + (IF frames[n][1] = "SIGUSR1" THEN 1 ELSE -1)
    <2>1. PICK w \in Int : w = frames[n][2] /\ Within(w)
      <3>1. frames[n][2] \in Int
        BY <1>3, <1>8, FrameParts
      <3>2. frames[n][2] \in Held
        BY <1>1, <1>3, <1>8, <3>1 DEF Held
      <3> QED BY <1>5, <3>1, <3>2
    <2>2. (s = "SIGUSR1" /\ v' = w + 1) \/ (s = "SIGUSR2" /\ v' = w - 1)
      <3>1. CASE s = "SIGUSR1"
        BY <1>4, <1>8, <2>1, <3>1
      <3>2. CASE s = "SIGUSR2"
        <4>1. v' = w + (-1)
          BY <1>4, <1>8, <2>1, <3>2
        <4> QED BY <3>2, <4>1
      <3> QED BY <3>1, <3>2 DEF Kinds
    <2>3. /\ frames' \in Seq(Frames) /\ Len(frames') = n - 1
          /\ \A m \in 1 .. n - 1 : frames'[m] = frames[m] /\ m \in 1 .. n /\ m # n
      BY <1>1, <1>2, <1>3, <1>8
    <2>4. HasFrame(s) /\ ~HasFrame(s)'
      <3>1. HasFrame(s)
        BY <1>1, <1>3, <1>4 DEF HasFrame
      <3>2. \A m \in 1 .. n - 1 : frames[m][1] # s
        BY <1>3, <1>4, <1>6, <2>3
      <3> QED BY <2>3, <3>1, <3>2 DEF HasFrame
    <2>5. \A r \in Kinds : HasFrame(r)' => HasFrame(r)
      BY <1>1, <2>3 DEF HasFrame
    <2>6. /\ \A r \in Kinds : Owing(r)' <= Owing(r) /\ Owing(r) \in Int /\ Owing(r)' \in Int
          /\ Owing(s)' = Owing(s) - 1
      BY <1>2, <2>4, <2>5, OwingLemma, OwingNext DEF OwingRight
    <2>7. \A u \in Int : Within(u) => Within(u)'
      <3>1. \A r \in Kinds : Owing(r)' - Owing(r) <= sent'[r] - sent[r]
        <4> SUFFICES ASSUME NEW r \in Kinds PROVE Owing(r)' - Owing(r) <= sent'[r] - sent[r]
          OBVIOUS
        <4>1. PICK a \in Int, b \in Int, c \in Int : a = Owing(r)' /\ b = Owing(r) /\ c = sent[r] /\ sent'[r] = c
          BY <1>2, <2>6
        <4> QED BY <2>6, <4>1
      <3> QED BY <1>2, <3>1, StaysWithin
    <2>8. v' \in Int /\ Within(v)'
      <3>1. PICK a \in Int, b \in Int, x \in Int, y \in Int :
                /\ a = Owing("SIGUSR1") /\ b = Owing("SIGUSR2")
                /\ x = Owing("SIGUSR1")' /\ y = Owing("SIGUSR2")'
        BY <2>6 DEF Kinds
      <3>2. PICK c \in Int, d \in Int : /\ c = sent["SIGUSR1"] /\ d = sent["SIGUSR2"]
                                        /\ c = sent'["SIGUSR1"] /\ d = sent'["SIGUSR2"]
        BY <1>2 DEF Kinds
      <3>3. w + a <= c /\ b - w <= d
        BY <2>1, <3>1, <3>2 DEF Within
      <3>4. x <= a /\ y <= b /\ (s = "SIGUSR1" => x = a - 1) /\ (s = "SIGUSR2" => y = b - 1)
        BY <2>6, <3>1 DEF Kinds
      <3>5. v' \in Int /\ v' + x <= c /\ y - v' <= d
        BY <2>2, <3>3, <3>4
      <3> QED BY <3>1, <3>2, <3>5 DEF Within
    <2>9. \A u \in Held' : Within(u)'
      <3> SUFFICES ASSUME NEW u \in Int, u \in Held', u # v' PROVE Within(u)'
        BY <2>8 DEF Held
      <3>1. PICK m \in 1 .. n - 1 : Len(frames'[m]) = 2 /\ frames'[m][2] = u
        BY <2>3 DEF Held
      <3>2. u \in Held
        BY <1>1, <2>3, <3>1 DEF Held
      <3> QED BY <1>5, <2>7, <3>2
    <2>10. \A l, m \in 1 .. Len(frames') : frames'[l][1] = frames'[m][1] => l = m
      BY <1>6, <2>3
    <2> QED BY <1>2, <2>3, <2>8, <2>9, <2>10 DEF Tally
  <1> QED BY <1>1, <1>7, <1>8 DEF sigint_handler

\* Signals merge, and handlers that interrupt each other lose updates, but none is made up
\* for (prob04/p3b.c:15, 20), however many are sent: a value that is loaded or stored
\* leaves room for all that is still owed.
THEOREM CounterIsBounded == SignalsSpec => []CountsWhatWasSent
  <1>1. SignalsInit => Tally
    <2> SUFFICES ASSUME SignalsInit PROVE Tally
      OBVIOUS
    <2>1. frames = << >> /\ Len(frames) = 0 /\ v = 0 /\ due = {} /\ sent = [s \in Kinds |-> 0]
      BY DEF SignalsInit
    <2>2. \A s : ~HasFrame(s)
      BY <2>1 DEF HasFrame
    <2>3. Owing("SIGUSR1") = 0 /\ Owing("SIGUSR2") = 0
      BY <2>1, <2>2, OwingLemma DEF OwingRight, Kinds
    <2>4. sent["SIGUSR1"] = 0 /\ sent["SIGUSR2"] = 0 /\ sent \in [Kinds -> Nat]
      BY <2>1 DEF Kinds
    <2>5. Within(v)
      BY <2>1, <2>3, <2>4 DEF Within
    <2>6. \A w \in Held : w = v
      BY <2>1 DEF Held
    <2>7. frames \in Seq(Frames)
      BY <2>1
    <2> QED BY <2>1, <2>4, <2>5, <2>6, <2>7 DEF Tally
  <1>2. Tally /\ [SignalsNext]_<<program, signals_vars>> => Tally'
    <2> SUFFICES ASSUME Tally, [SignalsNext]_<<program, signals_vars>> PROVE Tally'
      OBVIOUS
    <2>1. CASE UNCHANGED <<program, signals_vars>>
      BY <2>1, SendingTallies DEF signals_vars
    <2>2. CASE ForkCounter \/ SendSignal \/ SendTerm \/ Install
      BY <2>2, SendingTallies DEF ForkCounter, SendSignal, SendTerm, Install
    <2>3. CASE Die
      <3>1. frames' = << >> /\ Len(frames') = 0 /\ due' = {} /\ UNCHANGED <<sent, v>>
        BY <2>3 DEF Die
      <3>2. \A s : ~HasFrame(s)'
        BY <3>1 DEF HasFrame
      <3>3. \A s \in Kinds : Owing(s)' = 0 /\ Owing(s) \in Nat /\ sent[s] \in Nat
        BY <3>1, <3>2, OwingLemma, OwingNext DEF Tally, OwingRight
      <3>4. \A s \in Kinds : Owing(s)' - Owing(s) <= sent'[s] - sent[s]
        BY <3>1, <3>3
      <3>5. \A w \in Int : Within(w) => Within(w)'
        BY <3>1, <3>4, StaysWithin DEF Tally
      <3>6. \A w \in Held' : w = v /\ w \in Held
        BY <3>1 DEF Held
      <3>7. \A w \in Held' : Within(w)'
        BY <3>5, <3>6 DEF Tally, Held
      <3>8. frames' \in Seq(Frames)
        BY <3>1
      <3> QED BY <3>1, <3>7, <3>8 DEF Tally
    <2> QED BY <2>1, <2>2, <2>3, CatchingTallies, HandlingTallies DEF SignalsNext, p3b
  <1>3. Tally => CountsWhatWasSent
    <2> SUFFICES ASSUME Tally PROVE CountsWhatWasSent
      OBVIOUS
    <2>1. v \in Int /\ Within(v)
      BY DEF Tally, Held
    <2>2. PICK a \in Nat, b \in Nat : a = Owing("SIGUSR1") /\ b = Owing("SIGUSR2")
      BY OwingLemma DEF OwingRight, Kinds
    <2>3. PICK c \in Int, d \in Int : c = sent["SIGUSR1"] /\ d = sent["SIGUSR2"]
      BY DEF Tally, Kinds
    <2>4. v + a <= c /\ b - v <= d
      BY <2>1, <2>2, <2>3 DEF Within
    <2>5. -d <= v /\ v <= c
      BY <2>1, <2>4
    <2> QED BY <2>1, <2>3, <2>5 DEF CountsWhatWasSent
  <1> QED BY <1>1, <1>2, <1>3, PTL DEF SignalsSpec

-----------------------------------------------------------------------------
(* The programs that talk through pipes (Pipes) *)

\* The variables are functions on the processes and on the pipes.
PipesShape ==
    /\ DOMAIN place = Everybody /\ DOMAIN piped = PipeNames
    /\ DOMAIN received = Everybody /\ DOMAIN todo = Everybody

LEMMA PipesInitShape == PipesInit => PipesShape
  BY DEF PipesInit, PipesShape

\* Every operation on a pipe keeps them so.
LEMMA PipeShapes ==
    ASSUME PipesShape, NEW p \in Everybody, NEW q, NEW from, NEW to, NEW f, NEW end, NEW other,
        NEW failed,
           \/ ClosePipe(p, from, f, end, to) \/ Finish(p, from, to) \/ WritePipe(p, from, f, to)
           \/ ReadPipe(p, from, f, to, other) \/ MakePipes(p, from, f, to)
           \/ ForkPipes(p, q, from, to, other, failed)
    PROVE  PipesShape'
  BY DEF PipesShape, ClosePipe, Finish, WritePipe, ReadPipe, MakePipes, ForkPipes, Goes, Close

LEMMA PipesKeepShape ==
    ASSUME PipesShape, [PipesNext]_<<program, pipes_vars>>
    PROVE  PipesShape'
  <1>1. CASE UNCHANGED <<program, pipes_vars>>
    BY <1>1 DEF PipesShape, pipes_vars
  <1>2. CASE SumAndDifference
    BY <1>2, PipeShapes DEF SumAndDifference, Everybody, Pair
  <1>3. CASE FatherOfTwo \/ SonOfTwo
    BY <1>3, PipeShapes DEF FatherOfTwo, SonOfTwo, Everybody, Pair
  <1>4. CASE SortPart
    BY <1>4, PipeShapes DEF SortPart, Everybody, Pipeline
  <1>5. ASSUME NEW p \in Pipeline, LsPart(p)
        PROVE  PipesShape'
    <2>1. p \in Everybody
      BY DEF Everybody
    <2>2. CASE Goes(p, "exec_ls", "listing") /\ \E l \in Listings :
               /\ received' = [received EXCEPT ![p] = l]
                              /\ todo' = [todo EXCEPT ![p] = [g \in 1 .. Len(l) |-> <<l[g]>>]]
       /\ UNCHANGED <<piped, open>>
      BY <2>2 DEF PipesShape, Goes
    <2> QED BY <1>5, <2>1, <2>2, PipeShapes DEF LsPart
  <1>6. ASSUME NEW p \in Pipeline, GrepPart(p)
        PROVE  PipesShape'
    <2>1. p \in Everybody
      BY DEF Everybody
    <2>2. CASE \E l \in {"grepping", "writing"} : Goes(p, "matching", l)
               /\ UNCHANGED <<piped, open, received>>
                    /\ (todo' = [todo EXCEPT ![p] = <<<<"match">>>>] \/ UNCHANGED todo)
      BY <2>2 DEF PipesShape, Goes
    <2> QED BY <1>6, <2>1, <2>2, PipeShapes DEF GrepPart
  <1>7. CASE mkfifo \/ \E p \in Users, ends \in SUBSET {"READ", "WRITE"} : OpenFifo(p, ends)
    BY <1>7 DEF mkfifo, OpenFifo, PipesShape, Goes
  <1>8. CASE p06a1 \/ p06a2 \/ p06b1
    <2>1. CASE mkfifo \/ OpenFifo("reader", {"READ"}) \/ OpenFifo("writer_a2", {"WRITE"})
               \/ OpenFifo("writer_b1", {"READ", "WRITE"})
      BY <1>7, <2>1 DEF Users, Writers
    <2> QED BY <1>8, <2>1, PipeShapes DEF p06a1, p06a2, p06b1, SendMessages, readline, Everybody,
        Users, Writers
  <1> QED
    BY <1>1, <1>2, <1>3, <1>4, <1>5, <1>6, <1>8 DEF PipesNext, p1a_pipe, p1b_pipe, p1c, p2a, p4, p06

\* prob05/p1a.c, p1b.c and p1c.c: where the two stand tells what is in the pipe, what the
\* son has read, and which ends are open.  A father who is told -1 has no son.
SumInv ==
    /\ place["son"] = "unborn" =>
           \/ place["father"] \in {"son", "read", "end", "ended"}
           \/ /\ place["father"] \in {"start", "fork"}
              /\ piped["fd"] = << >> /\ received["son"] = << >> /\ todo["father"] = <<<<Typed>>>>
              /\ place["father"] = "fork" =>
                     <<"father", "fd", "READ">> \in open /\ <<"father", "fd", "WRITE">> \in open
    /\ place["son"] # "unborn" =>
           /\ \/ /\ place["father"] \in {"close", "write"} /\ place["son"] \in {"son", "read"}
                 /\ piped["fd"] = << >> /\ received["son"] = << >> /\ todo["father"] = <<<<Typed>>>>
              \/ /\ place["father"] \in {"end", "ended"} /\ place["son"] \in {"son", "read"}
                 /\ piped["fd"] = <<Typed>> /\ received["son"] = << >>
              \/ /\ place["father"] \in {"end", "ended"} /\ place["son"] \in {"end", "ended"}
                 /\ received["son"] = <<Typed>>
           /\ place["son"] \in {"son", "read", "end"} => <<"son", "fd", "READ">> \in open
           /\ place["father"] \in {"close", "write"} => <<"father", "fd", "WRITE">> \in open

LEMMA SumInitially == PipesInit => SumInv
  BY DEF PipesInit, SumInv, Everybody, Pair, PipeNames, Pipeline, Users, Writers

LEMMA SumStep ==
    ASSUME PipesShape, SumInv, SumAndDifference, UNCHANGED program
    PROVE  SumInv'
  <1> USE DEF SumInv, PipesShape, Goes, Typed
  <1>0. Typed' = Typed /\ {"father", "son"} \subseteq Everybody /\ "fd" \in PipeNames
        /\ "father" # "son"
    BY DEF Everybody, Pair, PipeNames
  <1>1. CASE MakePipes("father", "start", {"fd"}, "fork")
    BY <1>0, <1>1 DEF MakePipes
  <1>2. CASE ForkPipes("father", "son", "fork", "close", "son", "son")
    BY <1>0, <1>2 DEF ForkPipes
  <1>3. CASE ClosePipe("father", "close", "fd", "READ", "write")
    BY <1>0, <1>3 DEF ClosePipe, Close
  <1>4. CASE WritePipe("father", "write", "fd", "end")
    BY <1>0, <1>4 DEF WritePipe, OpenEnds, Finish, Close
  <1>5. ASSUME NEW p \in Pair, ClosePipe(p, "son", "fd", "WRITE", "read")
        PROVE  SumInv'
    BY <1>0, <1>5 DEF ClosePipe, Close, Pair
  <1>6. ASSUME NEW p \in Pair, ReadPipe(p, "read", "fd", "end", "end")
        PROVE  SumInv'
    BY <1>0, <1>6 DEF ReadPipe, OpenEnds, Pair
  <1>7. ASSUME NEW p \in Pair, Finish(p, "end", "ended")
        PROVE  SumInv'
    BY <1>0, <1>7 DEF Finish, Close, Pair
  <1> QED
    BY <1>1, <1>2, <1>3, <1>4, <1>5, <1>6, <1>7 DEF SumAndDifference

\* prob05/p2a.c: the son does not answer before he has heard the father, the father holds
\* the way back open until he has read twice, and where the two stand tells how far the
\* answer has come.
PairInv ==
    /\ place["son"] = "unborn" =>
           \/ place["father"] \in {"end", "ended"}
           \/ /\ place["father"] \in {"start", "fork"}
              /\ piped["fd"] = << >> /\ piped["fd1"] = << >>
              /\ received["father"] = << >> /\ todo["son"] = SonWrites
              /\ place["father"] = "fork" =>
                     \A f \in {"fd", "fd1"}, end \in {"READ", "WRITE"} : <<"father", f, end>> \in open
    /\ place["son"] # "unborn" =>
           /\ \/ /\ place["father"] \in {"close", "close1", "write", "close2", "read"}
                 /\ place["son"] \in {"son", "son1", "read", "close", "sums"}
                 /\ piped["fd1"] = << >> /\ received["father"] = << >> /\ todo["son"] = SonWrites
              \/ /\ place["father"] \in {"close2", "read"} /\ place["son"] = "products"
                 /\ piped["fd1"] = <<"sums">> /\ received["father"] = << >>
                 /\ todo["son"] = <<<<"products", "beyond">>>>
              \/ /\ place["father"] = "read1" /\ place["son"] = "products"
                 /\ piped["fd1"] = << >> /\ received["father"] = <<"sums">>
                 /\ todo["son"] = <<<<"products", "beyond">>>>
              \/ /\ place["father"] \in {"close2", "read"} /\ place["son"] \in {"end", "ended"}
                 /\ piped["fd1"] = <<"sums", "products", "beyond">> /\ received["father"] = << >>
              \/ /\ place["father"] = "read1" /\ place["son"] \in {"end", "ended"}
                 /\ piped["fd1"] = <<"products", "beyond">> /\ received["father"] = <<"sums">>
              \/ /\ place["father"] \in {"end", "ended"} /\ place["son"] \in {"end", "ended"}
                 /\ received["father"] = <<"sums", "products">>
           /\ place["father"] \in {"close", "close1", "write"} =>
                  /\ piped["fd"] = << >> /\ <<"father", "fd", "WRITE">> \in open
                  /\ place["son"] \in {"son", "son1", "read"}
           /\ place["father"] # "ended" => <<"father", "fd1", "READ">> \in open
           /\ place["son"] # "ended" => <<"son", "fd1", "WRITE">> \in open
           /\ place["son"] \in {"son", "son1", "read", "close"} => <<"son", "fd", "READ">> \in open

\* The pieces a sequence of two or three is put together from.
LEMMA OneAndTwo ==
    ASSUME NEW S, NEW a \in S, NEW b \in S, NEW c \in S
    PROVE  <<a>> \o <<b, c>> = <<a, b, c>>
  <1> DEFINE s == <<a>> \o <<b, c>>
  <1>1. s \in Seq(S) /\ Len(s) = 3 /\ s[1] = a /\ s[2] = b /\ s[3] = c
    OBVIOUS
  <1>2. <<a, b, c>> \in Seq(S) /\ Len(<<a, b, c>>) = 3
    OBVIOUS
  <1> HIDE DEF s
  <1>3. s = <<a, b, c>>
    BY <1>1, <1>2, SeqEqual
  <1> QED BY <1>3 DEF s

LEMMA OneAndOne ==
    ASSUME NEW S, NEW a \in S, NEW b \in S
    PROVE  Append(<<a>>, b) = <<a, b>>
  <1> DEFINE s == Append(<<a>>, b)
  <1>1. s \in Seq(S) /\ Len(s) = 2 /\ s[1] = a /\ s[2] = b
    OBVIOUS
  <1>2. <<a, b>> \in Seq(S) /\ Len(<<a, b>>) = 2
    OBVIOUS
  <1> HIDE DEF s
  <1>3. s = <<a, b>>
    BY <1>1, <1>2, SeqEqual
  <1> QED BY <1>3 DEF s

LEMMA PairInitially == PipesInit => PairInv
  BY DEF PipesInit, PairInv, Everybody, Pair, PipeNames, Pipeline, Users, Writers

LEMMA PairStep ==
    ASSUME PipesShape, PairInv, FatherOfTwo \/ SonOfTwo
    PROVE  PairInv'
  <1> USE DEF PairInv, PipesShape, Goes
  <1>0. {"father", "son"} \subseteq Everybody /\ {"fd", "fd1"} \subseteq PipeNames /\ "father" # "son"
    BY DEF Everybody, Pair, PipeNames
  \* The answer, piece by piece.
  <1>a. /\ Head(SonWrites) = <<"sums">> /\ Tail(SonWrites) = <<<<"products", "beyond">>>>
        /\ SonWrites # << >>
    BY DEF SonWrites
  <1>b. << >> \o <<"sums">> = <<"sums">> /\ << >> \o <<"products", "beyond">> = <<"products", "beyond">>
    OBVIOUS
  <1> DEFINE answer == {"sums", "products", "beyond"}
  <1>c. <<"sums">> \o <<"products", "beyond">> = <<"sums", "products", "beyond">>
    <2>1. "sums" \in answer /\ "products" \in answer /\ "beyond" \in answer
      OBVIOUS
    <2> QED BY <2>1, OneAndTwo
  <1>d. /\ Head(<<"sums">>) = "sums" /\ Tail(<<"sums">>) = << >>
        /\ Head(<<"sums", "products", "beyond">>) = "sums"
        /\ Head(<<"products", "beyond">>) = "products"
        /\ Head(<<<<"products", "beyond">>>>) = <<"products", "beyond">>
    OBVIOUS
  <1>e. Tail(<<"sums", "products", "beyond">>) = <<"products", "beyond">>
    OBVIOUS
  <1>f. Append(<< >>, "sums") = <<"sums">> /\ Append(<<"sums">>, "products") = <<"sums", "products">>
    <2>1. "sums" \in answer /\ "products" \in answer
      OBVIOUS
    <2>2. Append(<< >>, "sums") = <<"sums">>
      OBVIOUS
    <2> QED BY <2>1, <2>2, OneAndOne
  <1>1. CASE MakePipes("father", "start", {"fd", "fd1"}, "fork")
    BY <1>0, <1>1 DEF MakePipes
  <1>2. CASE ForkPipes("father", "son", "fork", "close", "son", "end")
    BY <1>0, <1>2 DEF ForkPipes
  <1>3. CASE ClosePipe("father", "close", "fd", "READ", "close1")
    BY <1>0, <1>3 DEF ClosePipe, Close
  <1>4. CASE ClosePipe("father", "close1", "fd1", "WRITE", "write")
    BY <1>0, <1>4 DEF ClosePipe, Close
  <1>5. CASE WritePipe("father", "write", "fd", "close2")
    BY <1>0, <1>5 DEF WritePipe, OpenEnds, Finish, Close
  <1>6. CASE ClosePipe("father", "close2", "fd", "WRITE", "read")
    BY <1>0, <1>6 DEF ClosePipe, Close
  <1>7. CASE ReadPipe("father", "read", "fd1", "read1", "read1")
    <2>1. piped["fd1"] # << >>
      BY <1>0, <1>7 DEF ReadPipe, OpenEnds
    <2>2. /\ place'["father"] = "read1" /\ place'["son"] = place["son"]
          /\ received'["father"] = Append(received["father"], Head(piped["fd1"]))
          /\ piped'["fd1"] = Tail(piped["fd1"]) /\ UNCHANGED <<open, todo>>
      BY <1>0, <1>7, <2>1 DEF ReadPipe
    <2> HIDE DEF SonWrites
    <2>3. CASE place["son"] = "products"
      <3>1. piped["fd1"] = <<"sums">> /\ received["father"] = << >>
            /\ todo["son"] = <<<<"products", "beyond">>>>
        BY <1>7, <2>1, <2>3 DEF ReadPipe
      <3>2. piped'["fd1"] = << >> /\ received'["father"] = <<"sums">>
        BY <2>2, <3>1, <1>d, <1>f
      <3> QED BY <1>7, <2>2, <2>3, <3>1, <3>2 DEF ReadPipe
    <2>4. CASE place["son"] # "products"
      <3>1. piped["fd1"] = <<"sums", "products", "beyond">> /\ received["father"] = << >>
            /\ place["son"] \in {"end", "ended"}
        BY <1>7, <2>1, <2>4 DEF ReadPipe
      <3>2. piped'["fd1"] = <<"products", "beyond">> /\ received'["father"] = <<"sums">>
        BY <2>2, <3>1, <1>d, <1>e, <1>f
      <3> QED BY <1>7, <2>2, <2>4, <3>1, <3>2 DEF ReadPipe
    <2> QED BY <2>3, <2>4
  <1>8. CASE ReadPipe("father", "read1", "fd1", "end", "end")
    <2>1. piped["fd1"] # << >>
      BY <1>0, <1>8 DEF ReadPipe, OpenEnds
    <2>2. /\ place'["father"] = "end" /\ place'["son"] = place["son"]
          /\ received'["father"] = Append(received["father"], Head(piped["fd1"]))
          /\ piped'["fd1"] = Tail(piped["fd1"]) /\ UNCHANGED <<open, todo>>
      BY <1>0, <1>8, <2>1 DEF ReadPipe
    <2> HIDE DEF SonWrites
    <2>3. piped["fd1"] = <<"products", "beyond">> /\ received["father"] = <<"sums">>
          /\ place["son"] \in {"end", "ended"}
      BY <1>8, <2>1 DEF ReadPipe
    <2>4. received'["father"] = <<"sums", "products">>
      BY <2>2, <2>3, <1>d, <1>f
    <2> QED BY <1>8, <2>2, <2>3, <2>4 DEF ReadPipe
  <1>9. CASE Finish("father", "end", "ended")
    BY <1>0, <1>9 DEF Finish, Close
  <1>10. CASE ClosePipe("son", "son", "fd", "WRITE", "son1")
    BY <1>0, <1>10 DEF ClosePipe, Close
  <1>11. CASE ClosePipe("son", "son1", "fd1", "READ", "read")
    BY <1>0, <1>11 DEF ClosePipe, Close
  <1>12. CASE ReadPipe("son", "read", "fd", "close", "close")
    BY <1>0, <1>12 DEF ReadPipe, OpenEnds
  <1>13. CASE ClosePipe("son", "close", "fd", "READ", "sums")
    BY <1>0, <1>13 DEF ClosePipe, Close
  <1>14. CASE WritePipe("son", "sums", "fd1", "products")
    <2>1. OpenEnds("fd1", "READ") # {} /\ place["father"] \in {"close2", "read", "read1"}
      BY <1>0, <1>14 DEF WritePipe, Finish, OpenEnds
    <2>2. /\ place'["son"] = "products" /\ place'["father"] = place["father"]
          /\ piped'["fd1"] = piped["fd1"] \o Head(todo["son"]) /\ piped'["fd"] = piped["fd"]
          /\ todo'["son"] = Tail(todo["son"]) /\ UNCHANGED <<open, received>>
      BY <1>0, <1>14, <2>1 DEF WritePipe
    <2>3. piped'["fd1"] = <<"sums">> /\ todo'["son"] = <<<<"products", "beyond">>>>
      <3>1. place["son"] = "sums" /\ place["son"] # "unborn"
        BY <1>14, <2>1 DEF WritePipe
      <3>2. piped["fd1"] = << >> /\ todo["son"] = SonWrites
        BY <3>1
      <3> QED BY <2>2, <3>2, <1>a, <1>b
    <2> QED BY <1>14, <2>1, <2>2, <2>3 DEF WritePipe
  <1>15. CASE WritePipe("son", "products", "fd1", "end")
    <2>1. OpenEnds("fd1", "READ") # {} /\ place["father"] \in {"close2", "read", "read1"}
      BY <1>0, <1>15 DEF WritePipe, Finish, OpenEnds
    <2>2. /\ place'["son"] = "end" /\ place'["father"] = place["father"]
          /\ piped'["fd1"] = piped["fd1"] \o Head(todo["son"]) /\ piped'["fd"] = piped["fd"]
          /\ todo'["son"] = Tail(todo["son"]) /\ UNCHANGED <<open, received>>
      BY <1>0, <1>15, <2>1 DEF WritePipe
    <2>3. CASE place["father"] = "read1"
      <3>1. piped["fd1"] = << >> /\ received["father"] = <<"sums">>
            /\ todo["son"] = <<<<"products", "beyond">>>>
        <4>1. place["son"] = "products"
          BY <1>15, <2>1 DEF WritePipe, Finish
        <4> QED BY <2>3, <4>1
      <3>2. piped'["fd1"] = <<"products", "beyond">>
        BY <2>2, <3>1, <1>b, <1>d
      <3> QED BY <1>15, <2>2, <2>3, <3>1, <3>2 DEF WritePipe
    <2>4. CASE place["father"] # "read1"
      <3>1. piped["fd1"] = <<"sums">> /\ received["father"] = << >>
            /\ todo["son"] = <<<<"products", "beyond">>>>
        BY <1>15, <2>1, <2>4 DEF WritePipe
      <3>2. piped'["fd1"] = <<"sums", "products", "beyond">>
        BY <2>2, <3>1, <1>c, <1>d
      <3> QED BY <1>15, <2>1, <2>2, <2>4, <3>1, <3>2 DEF WritePipe
    <2> QED BY <2>3, <2>4
  <1>16. CASE Finish("son", "end", "ended")
    BY <1>0, <1>16 DEF Finish, Close
  <1> QED
    BY <1>1, <1>2, <1>3, <1>4, <1>5, <1>6, <1>7, <1>8, <1>9, <1>10, <1>11, <1>12, <1>13, <1>14,
       <1>15, <1>16 DEF FatherOfTwo, SonOfTwo

\* A message behind the others: its writer has one more in order, nobody else's change.
LEMMA OneMore ==
    ASSUME NEW s \in Seq(Writers \X Nat), NEW w \in Writers, NEW n \in Nat
    PROVE  /\ InOrder(s, w, n) => InOrder(Append(s, <<w, n + 1>>), w, n + 1)
           /\ \A u \in Writers \ {w} : /\ Of(Append(s, <<w, n + 1>>), u) = Of(s, u)
                                       /\ \A h \in Nat : InOrder(s, u, h) => InOrder(Append(s, <<w, n + 1>>), u, h)
  <1> DEFINE t == Append(s, <<w, n + 1>>)
             l == Len(s)
  <1>1. /\ l \in Nat /\ Len(t) = l + 1 /\ t[l + 1] = <<w, n + 1>>
        /\ \A g \in 1 .. l : t[g] = s[g]
    OBVIOUS
  <1>2. \A g \in 1 .. l : s[g][1] \in Writers /\ s[g][2] \in Nat
    OBVIOUS
  <1>3. t[l + 1][1] = w /\ t[l + 1][2] = n + 1
    BY <1>1
  <1> HIDE DEF t, l
  <1>4. Of(t, w) = Of(s, w) \cup {l + 1}
    BY <1>1, <1>3 DEF Of, l
  <1>5. \A g \in Of(s, w) : g \in 1 .. l /\ t[g] = s[g] /\ s[g][2] \in Nat
    BY <1>1, <1>2 DEF Of, l
  <1>6. ASSUME InOrder(s, w, n)
        PROVE  InOrder(t, w, n + 1)
    <2>1. {t[g][2] : g \in Of(t, w)} = {s[g][2] : g \in Of(s, w)} \cup {n + 1}
      BY <1>3, <1>4, <1>5
    <2>2. {t[g][2] : g \in Of(t, w)} = 1 .. n + 1
      <3>1. {s[g][2] : g \in Of(s, w)} = 1 .. n
        BY <1>6 DEF InOrder
      <3>2. (1 .. n) \cup {n + 1} = 1 .. n + 1
        OBVIOUS
      <3> QED BY <2>1, <3>1, <3>2
    <2>3. \A g \in Of(s, w) : s[g][2] \in 1 .. n
      BY <1>6 DEF InOrder
    <2>4. ASSUME NEW g \in Of(t, w), NEW j \in Of(t, w), g < j
          PROVE  t[g][2] < t[j][2]
      <3>1. g \in Of(s, w)
        BY <1>1, <1>4, <1>5, <2>4
      <3>2. CASE j = l + 1
        <4>1. t[g][2] = s[g][2] /\ s[g][2] \in 1 .. n
          BY <3>1, <1>5, <2>3
        <4>2. t[j][2] = n + 1
          BY <3>2, <1>3
        <4> QED BY <4>1, <4>2
      <3>3. CASE j # l + 1
        <4>1. j \in Of(s, w)
          BY <3>3, <1>4
        <4> QED BY <1>6, <3>1, <4>1, <1>5, <2>4 DEF InOrder
      <3> QED BY <3>2, <3>3
    <2> QED BY <2>2, <2>4 DEF InOrder
  <1>7. ASSUME NEW u \in Writers \ {w}
        PROVE  /\ Of(t, u) = Of(s, u)
               /\ \A h \in Nat : InOrder(s, u, h) => InOrder(t, u, h)
    <2>1. Of(t, u) = Of(s, u)
      BY <1>1, <1>3 DEF Of, l
    <2>2. \A g \in Of(s, u) : t[g] = s[g]
      BY <1>1 DEF Of, l
    <2>3. {t[g][2] : g \in Of(t, u)} = {s[g][2] : g \in Of(s, u)}
      BY <2>1, <2>2
    <2> QED BY <2>1, <2>2, <2>3 DEF InOrder
  <1> QED BY <1>6, <1>7 DEF t

\* What the reader takes from the pipe stays where it was in the stream.
LEMMA ReadMoves ==
    ASSUME NEW S, NEW r \in Seq(S), NEW s \in Seq(S), s # << >>
    PROVE  /\ Append(r, Head(s)) \in Seq(S) /\ Tail(s) \in Seq(S)
           /\ Append(r, Head(s)) \o Tail(s) = r \o s
  <1> DEFINE a == Append(r, Head(s)) \o Tail(s)
             b == r \o s
  <1>1. Head(s) \in S /\ Tail(s) \in Seq(S) /\ Len(Tail(s)) = Len(s) - 1 /\ Len(s) \in Nat \ {0}
    OBVIOUS
  <1>2. Append(r, Head(s)) \in Seq(S) /\ Len(Append(r, Head(s))) = Len(r) + 1
    BY <1>1
  <1>3. a \in Seq(S) /\ b \in Seq(S) /\ Len(a) = Len(r) + Len(s) /\ Len(b) = Len(r) + Len(s)
    BY <1>1, <1>2
  <1>4. ASSUME NEW g \in 1 .. Len(a)
        PROVE  a[g] = b[g]
    <2>1. CASE g <= Len(r)
      BY <1>1, <1>2, <1>3, <2>1
    <2>2. CASE g = Len(r) + 1
      BY <1>1, <1>2, <1>3, <2>2
    <2>3. CASE g > Len(r) + 1
      BY <1>1, <1>2, <1>3, <2>3
    <2> QED BY <1>3, <2>1, <2>2, <2>3
  <1> HIDE DEF a, b
  <1>5. a = b
    BY <1>3, <1>4, SeqEqual
  <1> QED BY <1>1, <1>2, <1>5 DEF a, b

\* What is written to a pipe is behind all that has been and that will be read before it.
LEMMA WriteAppends ==
    ASSUME NEW S, NEW r \in Seq(S), NEW s \in Seq(S), NEW m \in S
    PROVE  s \o <<m>> \in Seq(S) /\ r \o (s \o <<m>>) = Append(r \o s, m)
  <1> DEFINE a == r \o (s \o <<m>>)
             b == Append(r \o s, m)
  <1>1. s \o <<m>> \in Seq(S) /\ Len(s \o <<m>>) = Len(s) + 1
    OBVIOUS
  <1>2. a \in Seq(S) /\ b \in Seq(S) /\ Len(a) = Len(r) + Len(s) + 1 /\ Len(b) = Len(r) + Len(s) + 1
    BY <1>1
  <1>3. ASSUME NEW g \in 1 .. Len(a)
        PROVE  a[g] = b[g]
    <2>1. CASE g <= Len(r)
      BY <1>1, <1>2, <2>1
    <2>2. CASE g > Len(r) /\ g <= Len(r) + Len(s)
      BY <1>1, <1>2, <2>2
    <2>3. CASE g = Len(r) + Len(s) + 1
      BY <1>1, <1>2, <2>3
    <2> QED BY <1>2, <2>1, <2>2, <2>3
  <1> HIDE DEF a, b
  <1>4. a = b
    BY <1>2, <1>3, SeqEqual
  <1> QED BY <1>1, <1>4 DEF a, b

\* The messages a writer of the named pipe has still to write are its last ones.
StillToWrite(w) ==
    /\ todo[w] \in Seq(Seq(Writers \X Nat)) /\ Len(todo[w]) <= MESSAGES
    /\ \A g \in 1 .. Len(todo[w]) : todo[w][g] = <<<<w, MESSAGES - Len(todo[w]) + g>>>>

\* What the reader has read and may still read.
Stream == received["reader"] \o piped["fifo"]

\* A writer's first messages are in the stream, or all are lost and it is gone.
Delivered(w) ==
    \/ InOrder(Stream, w, MESSAGES - Len(todo[w]))
    \/ place[w] \in {"ended", "killed"} /\ Of(Stream, w) = {}

\* prob05/p06a1.c, p06a2.c and p06b1.c: the reader has the named pipe open from its open to its
\* close and reads nothing before, a writer until it is gone, so that a pipe emptied with
\* its last end has held messages of writers that are gone only.
FifoInv ==
    /\ place["reader"] \in {"start", "open", "opening", "opened", "closing", "ended"}
    /\ <<"reader", "fifo", "READ">> \in open <=> place["reader"] \in {"opening", "opened", "closing"}
    /\ place["reader"] \in {"start", "open", "opening"} => received["reader"] = << >>
    /\ received["reader"] \in Seq(Writers \X Nat) /\ piped["fifo"] \in Seq(Writers \X Nat)
    /\ \A w \in Writers :
           /\ place[w] \in {"open", "opening", "opened", "ended", "killed"}
           /\ place[w] \in {"opening", "opened"} => <<w, "fifo", "WRITE">> \in open
           /\ place[w] \in {"open", "opening"} => Len(todo[w]) = MESSAGES
           /\ StillToWrite(w)
           /\ place["reader"] # "ended" => Delivered(w)

LEMMA NothingInOrder ==
    ASSUME NEW w
    PROVE  Of(<< >>, w) = {} /\ InOrder(<< >>, w, 0)
  <1>1. Of(<< >>, w) = {}
    BY DEF Of
  <1> QED BY <1>1 DEF InOrder

LEMMA FifoInitially == PipesInit => FifoInv
  <1> SUFFICES ASSUME PipesInit PROVE FifoInv
    OBVIOUS
  <1> USE PipesAssumption
  <1>1. /\ received["reader"] = << >> /\ piped["fifo"] = << >> /\ open = {}
        /\ place["reader"] \in {"start", "open"} /\ "reader" \in Everybody
    BY DEF PipesInit, Everybody, Users, PipeNames
  <1>2. \A w \in Writers : place[w] = "open" /\ todo[w] = Messages(w)
    BY DEF PipesInit, Everybody, Users, Writers
  <1>3. Stream = << >>
    BY <1>1 DEF Stream
  <1>4. ASSUME NEW w \in Writers
        PROVE  StillToWrite(w) /\ Len(todo[w]) = MESSAGES /\ Delivered(w)
    <2>1. \A g \in 1 .. MESSAGES : <<<<w, g>>>> \in Seq(Writers \X Nat)
      OBVIOUS
    <2>2. Messages(w) \in Seq(Seq(Writers \X Nat)) /\ Len(Messages(w)) = MESSAGES
      BY <2>1 DEF Messages
    <2>3. \A g \in 1 .. MESSAGES : Messages(w)[g] = <<<<w, MESSAGES - MESSAGES + g>>>>
      BY DEF Messages
    <2>4. todo[w] = Messages(w) /\ MESSAGES - Len(todo[w]) = 0
      BY <1>2, <2>2
    <2>5. StillToWrite(w)
      <3>1. todo[w] \in Seq(Seq(Writers \X Nat)) /\ Len(todo[w]) = MESSAGES
        BY <2>2, <2>4
      <3>2. \A g \in 1 .. Len(todo[w]) : todo[w][g] = <<<<w, MESSAGES - Len(todo[w]) + g>>>>
        <4>1. \A g \in 1 .. MESSAGES : todo[w][g] = <<<<w, MESSAGES - MESSAGES + g>>>>
          BY <2>3, <2>4
        <4> QED BY <3>1, <4>1
      <3> QED BY <3>1, <3>2 DEF StillToWrite
    <2>6. Delivered(w)
      BY <1>3, <2>4, NothingInOrder DEF Delivered
    <2> QED BY <2>2, <2>4, <2>5, <2>6
  <1> QED BY <1>1, <1>2, <1>4 DEF FifoInv

\* A writer that ends or is killed takes along what is in the pipe only with the last end.
LEMMA WriterGoes ==
    ASSUME PipesShape, FifoInv, NEW w \in Writers, NEW to \in {"ended", "killed"},
        Finish(w, "opened", to)
    PROVE  FifoInv'
  <1>1. /\ place[w] = "opened" /\ place'[w] = to /\ w # "reader" /\ w \in Everybody
        /\ \A p \in Everybody \ {w} : place'[p] = place[p]
        /\ UNCHANGED <<received, todo>> /\ open' = {e \in open : e[1] # w}
        /\ "fifo" \in PipeNames /\ "reader" \in Everybody /\ Writers \subseteq Everybody
    BY DEF Finish, Goes, Close, PipesShape, Everybody, Users, Writers, PipeNames
  <1>2. piped'["fifo"] = IF \E e \in open' : e[2] = "fifo" THEN piped["fifo"] ELSE << >>
    BY <1>1 DEF Finish, Close
  <1>3. /\ <<"reader", "fifo", "READ">> \in open' <=> <<"reader", "fifo", "READ">> \in open
        /\ \A u \in Writers \ {w} : <<u, "fifo", "WRITE">> \in open => <<u, "fifo", "WRITE">> \in open'
    BY <1>1
  <1>4. /\ place'["reader"] = place["reader"]
        /\ \A u \in Writers \ {w} : place'[u] = place[u]
    BY <1>1
  <1>5. \A u \in Writers : StillToWrite(u)' /\ Len(todo'[u]) = Len(todo[u])
    BY <1>1 DEF FifoInv, StillToWrite
  <1>6. CASE \E e \in open' : e[2] = "fifo"
    <2>1. piped'["fifo"] = piped["fifo"] /\ Stream' = Stream
      BY <1>1, <1>2, <1>6 DEF Stream
    <2>2. \A u \in Writers : Delivered(u) => Delivered(u)'
      BY <1>1, <1>4, <1>5, <2>1 DEF Delivered
    <2> QED BY <1>1, <1>3, <1>4, <1>5, <2>1, <2>2 DEF FifoInv
  <1>7. CASE ~\E e \in open' : e[2] = "fifo"
    <2>1. piped'["fifo"] = << >>
      BY <1>2, <1>7
    <2>2. place["reader"] \in {"start", "open", "ended"}
      BY <1>3, <1>7 DEF FifoInv
    <2>3. \A u \in Writers \ {w} : place[u] \in {"open", "ended", "killed"}
      BY <1>3, <1>7 DEF FifoInv
    <2>4. ASSUME place["reader"] # "ended", NEW u \in Writers
          PROVE  Delivered(u)'
      <3>1. Stream' = << >>
        BY <1>1, <2>1, <2>2, <2>4 DEF Stream, FifoInv
      <3>2. Of(Stream', u) = {} /\ InOrder(Stream', u, 0)
        BY <3>1, NothingInOrder
      <3>3. CASE u = w \/ place[u] \in {"ended", "killed"}
        BY <1>1, <1>4, <3>2, <3>3 DEF Delivered
      <3>4. CASE u # w /\ place[u] = "open"
        <4>1. MESSAGES - Len(todo'[u]) = 0
          <5>1. Len(todo[u]) = MESSAGES
            BY <3>4 DEF FifoInv
          <5> QED BY <1>5, <5>1, PipesAssumption
        <4> QED BY <3>2, <4>1 DEF Delivered
      <3> QED BY <2>3, <3>3, <3>4
    <2>5. /\ piped'["fifo"] \in Seq(Writers \X Nat)
          /\ place["reader"] \in {"start", "open", "opening"} => received'["reader"] = << >>
          /\ received'["reader"] \in Seq(Writers \X Nat)
      BY <1>1, <2>1 DEF FifoInv
    <2>6. ASSUME NEW u \in Writers
          PROVE  /\ place'[u] \in {"open", "opening", "opened", "ended", "killed"}
                 /\ place'[u] \in {"opening", "opened"} => <<u, "fifo", "WRITE">> \in open'
                 /\ place'[u] \in {"open", "opening"} => Len(todo'[u]) = MESSAGES
      BY <1>1, <1>3, <1>4, <1>5, <2>6 DEF FifoInv
    <2>7. place["reader"] \in {"start", "open", "opening", "opened", "closing", "ended"}
          /\ (<<"reader", "fifo", "READ">> \in open' <=> place["reader"] \in {"opening", "opened", "closing"})
      BY <1>3 DEF FifoInv
    <2> QED BY <1>4, <1>5, <2>4, <2>5, <2>6, <2>7 DEF FifoInv
  <1> QED BY <1>6, <1>7

\* A message in the pipe is its writer's next one.
LEMMA WriterWrites ==
    ASSUME PipesShape, FifoInv, NEW w \in Writers, WritePipe(w, "opened", "fifo", "opened")
    PROVE  FifoInv'
  <1>1. CASE OpenEnds("fifo", "READ") = {} /\ Finish(w, "opened", "killed")
    BY <1>1, WriterGoes
  <1>2. CASE /\ OpenEnds("fifo", "READ") # {} /\ Goes(w, "opened", "opened")
             /\ piped' = [piped EXCEPT !["fifo"] = @ \o Head(todo[w])]
             /\ todo' = [todo EXCEPT ![w] = Tail(@)] /\ UNCHANGED <<open, received>>
    <2> USE PipesAssumption
    <2> DEFINE n == MESSAGES - Len(todo[w])
    <2>1. /\ todo[w] \in Seq(Seq(Writers \X Nat)) /\ todo[w] # << >> /\ place[w] = "opened"
          /\ Len(todo[w]) \in 1 .. MESSAGES /\ n \in Nat /\ todo[w][1] = <<<<w, n + 1>>>>
      <3>1. StillToWrite(w) /\ todo[w] # << >> /\ place[w] = "opened"
        BY <1>2 DEF FifoInv, WritePipe, Goes
      <3>2. todo[w] \in Seq(Seq(Writers \X Nat)) /\ Len(todo[w]) \in 1 .. MESSAGES
        BY <3>1 DEF StillToWrite
      <3>3. todo[w][1] = <<<<w, n + 1>>>>
        <4>1. \A g \in 1 .. Len(todo[w]) : todo[w][g] = <<<<w, MESSAGES - Len(todo[w]) + g>>>>
          BY <3>1 DEF StillToWrite
        <4>2. 1 \in 1 .. Len(todo[w])
          BY <3>2
        <4> QED BY <4>1, <4>2
      <3>4. n \in Nat
        BY <3>2
      <3> QED BY <3>1, <3>2, <3>3, <3>4
    <2>a. Len(todo[w]) = MESSAGES - n
      BY <2>1
    <2> HIDE DEF n
    <2>2. /\ \A p \in Everybody : place'[p] = place[p]
          /\ w \in Everybody /\ "reader" \in Everybody /\ Writers \subseteq Everybody
                /\ "fifo" \in PipeNames
          /\ todo'[w] = Tail(todo[w]) /\ \A u \in Writers \ {w} : todo'[u] = todo[u]
          /\ UNCHANGED <<open, received>>
      BY <1>2, <2>1 DEF Goes, PipesShape, Everybody, Users, PipeNames
    <2>3. piped'["fifo"] = piped["fifo"] \o <<<<w, n + 1>>>>
      <3>1. Head(todo[w]) = todo[w][1]
        OBVIOUS
      <3> QED BY <1>2, <2>1, <2>2, <3>1 DEF PipesShape
    <2>4. <<w, n + 1>> \in Writers \X Nat
      BY <2>1
    <2>5. piped'["fifo"] \in Seq(Writers \X Nat) /\ Stream' = Append(Stream, <<w, n + 1>>)
      <3>1. received["reader"] \in Seq(Writers \X Nat) /\ piped["fifo"] \in Seq(Writers \X Nat)
        BY DEF FifoInv
      <3>2. received'["reader"] = received["reader"]
        BY <2>2
      <3> HIDE DEF FifoInv
      <3> DEFINE S == Writers \X Nat
                 r == received["reader"]
                 s == piped["fifo"]
                 m == <<w, n + 1>>
      <3>3. r \in Seq(S) /\ s \in Seq(S) /\ m \in S
        BY <2>4, <3>1
      <3> HIDE DEF S, r, s, m
      <3>4. s \o <<m>> \in Seq(S) /\ r \o (s \o <<m>>) = Append(r \o s, m)
        BY <3>3, WriteAppends
      <3> QED BY <2>3, <3>2, <3>4 DEF Stream, S, r, s, m
    <2>6. Stream \in Seq(Writers \X Nat)
      BY DEF Stream, FifoInv
    <2>7. Len(todo'[w]) = Len(todo[w]) - 1 /\ StillToWrite(w)'
      <3>1. /\ Tail(todo[w]) \in Seq(Seq(Writers \X Nat)) /\ Len(Tail(todo[w])) = Len(todo[w]) - 1
            /\ \A g \in 1 .. Len(todo[w]) - 1 : Tail(todo[w])[g] = todo[w][g + 1]
        BY <2>1
      <3>2. \A g \in 1 .. Len(todo[w]) : todo[w][g] = <<<<w, MESSAGES - Len(todo[w]) + g>>>>
        BY DEF FifoInv, StillToWrite
      <3>a. Len(todo'[w]) = Len(todo[w]) - 1 /\ Len(todo[w]) - 1 <= MESSAGES
        BY <2>1, <2>2, <3>1
      <3>3. ASSUME NEW g \in 1 .. Len(todo[w]) - 1
            PROVE  Tail(todo[w])[g] = <<<<w, MESSAGES - (Len(todo[w]) - 1) + g>>>>
        <4>1. g + 1 \in 1 .. Len(todo[w])
              /\ MESSAGES - Len(todo[w]) + (g + 1) = MESSAGES - (Len(todo[w]) - 1) + g
          <5>1. Len(todo[w]) \in Nat /\ MESSAGES \in Nat /\ g \in Nat /\ g >= 1 /\ g + 1 <= Len(todo[w])
            BY <2>1
          <5> QED BY <5>1
        <4> QED BY <3>1, <3>2, <4>1
      <3>4. \A g \in 1 .. Len(todo'[w]) : todo'[w][g] = <<<<w, MESSAGES - Len(todo'[w]) + g>>>>
        BY <2>2, <3>a, <3>3
      <3> QED BY <2>2, <3>1, <3>a, <3>4 DEF StillToWrite
    <2>8. ASSUME place["reader"] # "ended"
          PROVE  Delivered(w)'
      <3>1. InOrder(Stream, w, n)
        BY <2>1, <2>8 DEF FifoInv, Delivered, n
      <3>2. InOrder(Stream', w, n + 1)
        BY <2>1, <2>5, <2>6, <3>1, OneMore
      <3>3. MESSAGES - Len(todo'[w]) = n + 1
        BY <2>1, <2>7, <2>a
      <3> QED BY <3>2, <3>3 DEF Delivered
    <2>9. ASSUME place["reader"] # "ended", NEW u \in Writers \ {w}
          PROVE  Delivered(u)'
      <3>1. Delivered(u) /\ StillToWrite(u)
        BY <2>9 DEF FifoInv
      <3>2. MESSAGES - Len(todo[u]) \in Nat /\ todo'[u] = todo[u] /\ place'[u] = place[u]
        BY <2>2, <3>1 DEF StillToWrite
      <3>3. /\ Of(Stream', u) = Of(Stream, u)
            /\ \A h \in Nat : InOrder(Stream, u, h) => InOrder(Stream', u, h)
        BY <2>1, <2>5, <2>6, OneMore
      <3> QED BY <3>1, <3>2, <3>3 DEF Delivered
    <2>10. ASSUME NEW u \in Writers
           PROVE  /\ place'[u] \in {"open", "opening", "opened", "ended", "killed"}
                  /\ place'[u] \in {"opening", "opened"} => <<u, "fifo", "WRITE">> \in open'
                  /\ place'[u] \in {"open", "opening"} => Len(todo'[u]) = MESSAGES
                  /\ StillToWrite(u)'
      <3>1. CASE u = w
        BY <2>1, <2>2, <2>7, <3>1 DEF FifoInv
      <3>2. CASE u # w
        BY <2>2, <3>2 DEF FifoInv, StillToWrite
      <3> QED BY <3>1, <3>2
    <2>11. /\ place'["reader"] = place["reader"] /\ open' = open /\ received' = received
           /\ place["reader"] \in {"start", "open", "opening", "opened", "closing", "ended"}
           /\ <<"reader", "fifo", "READ">> \in open <=> place["reader"] \in {"opening", "opened", "closing"}
           /\ place["reader"] \in {"start", "open", "opening"} => received["reader"] = << >>
           /\ received["reader"] \in Seq(Writers \X Nat)
      BY <2>2 DEF FifoInv
    <2> QED BY <2>5, <2>8, <2>9, <2>10, <2>11 DEF FifoInv
  <1> QED BY <1>1, <1>2 DEF WritePipe

\* What is read moves on within the stream; at the end of file the reader closes.
LEMMA ReaderReads ==
    ASSUME PipesShape, FifoInv, readline
    PROVE  FifoInv'
  <1>1. CASE /\ piped["fifo"] # << >> /\ Goes("reader", "opened", "opened")
             /\ received' = [received EXCEPT !["reader"] = Append(@, Head(piped["fifo"]))]
             /\ piped' = [piped EXCEPT !["fifo"] = Tail(@)] /\ UNCHANGED <<open, todo>>
    <2>1. /\ \A p \in Everybody : place'[p] = place[p] /\ place["reader"] = "opened"
          /\ received'["reader"] = Append(received["reader"], Head(piped["fifo"]))
          /\ piped'["fifo"] = Tail(piped["fifo"]) /\ UNCHANGED <<open, todo>>
          /\ "reader" \in Everybody /\ Writers \subseteq Everybody
      BY <1>1 DEF Goes, PipesShape, Everybody, Users, PipeNames
    <2>2. /\ received'["reader"] \in Seq(Writers \X Nat) /\ piped'["fifo"] \in Seq(Writers \X Nat)
          /\ Stream' = Stream
      <3>1. received["reader"] \in Seq(Writers \X Nat) /\ piped["fifo"] \in Seq(Writers \X Nat)
            /\ piped["fifo"] # << >>
        BY <1>1 DEF FifoInv
      <3> DEFINE S == Writers \X Nat
                 r == received["reader"]
                 s == piped["fifo"]
      <3>2. r \in Seq(S) /\ s \in Seq(S) /\ s # << >>
        BY <3>1
      <3> HIDE DEF S, r, s
      <3>3. Append(r, Head(s)) \in Seq(S) /\ Tail(s) \in Seq(S)
            /\ Append(r, Head(s)) \o Tail(s) = r \o s
        BY <3>2, ReadMoves
      <3> QED BY <2>1, <3>3 DEF Stream, S, r, s
    <2>3. \A w \in Writers : /\ StillToWrite(w) => StillToWrite(w)'
                             /\ Delivered(w) => Delivered(w)'
      BY <2>1, <2>2 DEF StillToWrite, Delivered
    <2> QED BY <2>1, <2>2, <2>3 DEF FifoInv
  <1>2. CASE /\ piped["fifo"] = << >> /\ OpenEnds("fifo", "WRITE") = {}
             /\ Goes("reader", "opened", "closing") /\ UNCHANGED <<piped, open, received, todo>>
    <2>1. /\ \A p \in Everybody \ {"reader"} : place'[p] = place[p]
          /\ place["reader"] = "opened" /\ place'["reader"] = "closing"
          /\ Writers \subseteq Everybody \ {"reader"} /\ UNCHANGED <<piped, open, received, todo>>
      BY <1>2 DEF Goes, PipesShape, Everybody, Users, Writers
    <2>2. \A w \in Writers : /\ StillToWrite(w) => StillToWrite(w)'
                             /\ Delivered(w) => Delivered(w)'
      BY <2>1 DEF StillToWrite, Delivered, Stream
    <2> QED BY <2>1, <2>2 DEF FifoInv
  <1> QED BY <1>1, <1>2 DEF readline, ReadPipe

\* An open tells the others that wait, and moves no message.
LEMMA SomebodyOpens ==
    ASSUME PipesShape, FifoInv, NEW p \in Users, NEW ends,
           p = "reader" => ends = {"READ"}, p \in Writers => "WRITE" \in ends,
           OpenFifo(p, ends)
    PROVE  FifoInv'
  <1>1. /\ place[p] = "open" /\ place["reader"] # "start" /\ UNCHANGED <<piped, received, todo>>
        /\ open' = open \cup {p} \X {"fifo"} \X ends
        /\ place'[p] \in {"opening", "opened"}
        /\ \A q \in Everybody : \/ place'[q] = place[q]
                                \/ (q = p \/ place[q] = "opening")
                                      /\ place'[q] \in {"opening", "opened"}
        /\ "reader" \in Everybody /\ Writers \subseteq Everybody /\ Users = Writers \cup {"reader"}
        /\ "reader" \notin Writers
    BY DEF OpenFifo, PipesShape, Everybody, Users, Writers
  <1>2. /\ <<"reader", "fifo", "READ">> \in open' <=> place'["reader"] \in {"opening", "opened", "closing"}
        /\ place'["reader"] \in {"start", "open", "opening", "opened", "closing", "ended"}
        /\ place'["reader"] = "ended" <=> place["reader"] = "ended"
        /\ place'["reader"] \in {"start", "open", "opening"} => received["reader"] = << >>
    BY <1>1 DEF FifoInv
  <1>3. ASSUME NEW w \in Writers
        PROVE  /\ place'[w] \in {"open", "opening", "opened", "ended", "killed"}
               /\ place'[w] \in {"opening", "opened"} => <<w, "fifo", "WRITE">> \in open'
               /\ place'[w] \in {"open", "opening"} => Len(todo[w]) = MESSAGES
               /\ place[w] \in {"ended", "killed"} => place'[w] = place[w]
    BY <1>1 DEF FifoInv
  <1>4. Stream' = Stream
    BY <1>1 DEF Stream
  <1>5. \A w \in Writers : /\ StillToWrite(w) => StillToWrite(w)'
                           /\ Delivered(w) => Delivered(w)'
    BY <1>1, <1>3, <1>4 DEF StillToWrite, Delivered
  <1> QED BY <1>1, <1>2, <1>3, <1>5 DEF FifoInv

LEMMA FifoStep ==
    ASSUME PipesShape, FifoInv, p06a1 \/ p06a2 \/ p06b1
    PROVE  FifoInv'
  <1>1. CASE mkfifo
    <2>1. /\ place["reader"] = "start" /\ place'["reader"] = "open"
          /\ \A w \in Writers : place'[w] = place[w]
          /\ UNCHANGED <<piped, open, received, todo>>
      BY <1>1 DEF mkfifo, Goes, PipesShape, Everybody, Users, Writers
    <2>2. \A w \in Writers : /\ StillToWrite(w) => StillToWrite(w)'
                             /\ Delivered(w) => Delivered(w)'
      BY <2>1 DEF StillToWrite, Delivered, Stream
    <2> QED BY <2>1, <2>2 DEF FifoInv
  <1>2. CASE Finish("reader", "closing", "ended")
    <2>1. /\ place'["reader"] = "ended" /\ \A w \in Writers : place'[w] = place[w]
          /\ open' = {e \in open : e[1] # "reader"} /\ UNCHANGED <<received, todo>>
          /\ piped'["fifo"] \in {piped["fifo"], << >>}
      <3>1. "reader" \in Everybody /\ Writers \subseteq Everybody \ {"reader"} /\ "fifo" \in PipeNames
        BY DEF Everybody, Users, Writers, PipeNames
      <3>2. place'["reader"] = "ended" /\ \A w \in Writers : place'[w] = place[w]
        BY <1>2, <3>1 DEF Finish, Goes, PipesShape
      <3>3. open' = {e \in open : e[1] # "reader"} /\ UNCHANGED <<received, todo>>
        BY <1>2 DEF Finish, Close
      <3>4. piped'["fifo"] \in {piped["fifo"], << >>}
        BY <1>2, <3>1 DEF Finish, Close
      <3> QED BY <3>2, <3>3, <3>4
    <2>2. piped'["fifo"] \in Seq(Writers \X Nat) /\ received'["reader"] \in Seq(Writers \X Nat)
      <3>1. received["reader"] \in Seq(Writers \X Nat) /\ piped["fifo"] \in Seq(Writers \X Nat)
        BY DEF FifoInv
      <3>2. << >> \in Seq(Writers \X Nat)
        OBVIOUS
      <3> HIDE DEF FifoInv
      <3> QED BY <2>1, <3>1, <3>2
    <2>3. \A w \in Writers : StillToWrite(w) => StillToWrite(w)'
      BY <2>1 DEF StillToWrite
    <2>4. \A w \in Writers : <<w, "fifo", "WRITE">> \in open => <<w, "fifo", "WRITE">> \in open'
      BY <2>1 DEF Writers
    <2>5. <<"reader", "fifo", "READ">> \notin open'
      BY <2>1
    <2> QED BY <2>1, <2>2, <2>3, <2>4, <2>5 DEF FifoInv
  <1>3. CASE readline
    BY <1>3, ReaderReads
  <1>4. CASE OpenFifo("reader", {"READ"}) \/ OpenFifo("writer_a2", {"WRITE"})
             \/ OpenFifo("writer_b1", {"READ", "WRITE"})
    BY <1>4, SomebodyOpens DEF Users, Writers
  <1>5. ASSUME NEW w \in Writers, SendMessages(w)
        PROVE  FifoInv'
    BY <1>5, WriterWrites, WriterGoes DEF SendMessages
  <1> QED BY <1>1, <1>2, <1>3, <1>4, <1>5 DEF p06a1, p06a2, p06b1, Writers

\* While the reader has the named pipe open it has not ended.
LEMMA FifoInvDelivers == FifoInv => FifoDelivers
  BY DEF FifoInv, FifoDelivers, Delivered, Stream

\* prob05/p4.c: the first process stays what becomes sort as long as no fork fails.
Beginning == {"start", "fork_ls"}
Sorting == {"close2", "pipe1", "fork_grep", "close1", "close3", "sorting", "sorted"}
InsteadOfSort ==
    {"ls", "exec_ls", "listing", "grep", "grepping", "matching", "writing", "grepped", "ended", "killed"}

\* The lines grep has read and may still read are the first of those ls has found, which
\* has the others still to write.
Lines == received["grep"] \o piped["fd2"]

Listed ==
    /\ received["ls"] \in Seq({"match", "other"}) /\ received["grep"] \in Seq({"match", "other"})
    /\ piped["fd2"] \in Seq({"match", "other"}) /\ todo["ls"] \in Seq(Seq({"match", "other"}))
    /\ Len(Lines) + Len(todo["ls"]) = Len(received["ls"])
    /\ \A g \in 1 .. Len(Lines) : Lines[g] = received["ls"][g]
    /\ \A g \in 1 .. Len(todo["ls"]) : todo["ls"][g] = <<received["ls"][Len(Lines) + g]>>

\* Each match that grep has read is in its hands, in the pipe or with sort.
InHands ==
    IF \/ place["grep"] = "writing"
       \/ place["grep"] = "matching" /\ received["grep"][Len(received["grep"])] = "match"
    THEN 1 ELSE 0

Counted ==
    /\ received["sort"] \in Seq({"match"}) /\ piped["fd1"] \in Seq({"match"})
    /\ place["grep"] = "matching" => received["grep"] # << >>
    /\ place["grep"] = "writing" => todo["grep"] = <<<<"match">>>>
    /\ Cardinality(Matches(received["grep"])) =
           Len(received["sort"]) + Len(piped["fd1"]) + InHands

\* Each pipe has a reader while somebody writes to it, and a writer until all is written.
Staged ==
    /\ place["ls"] \in {"ls", "exec_ls", "listing", "ended"} /\ place["grep"] # "killed"
    /\ place["grep"] = "unborn" <=> place["sort"] \in {"close2", "pipe1", "fork_grep"}
    /\ place["grep"] = "unborn" => piped["fd1"] = << >>
    /\ place["grep"] \in {"grepped", "ended"} => place["ls"] = "ended" /\ piped["fd2"] = << >>
    /\ place["sort"] = "sorted" => place["grep"] = "ended" /\ piped["fd1"] = << >>
    /\ place["ls"] \in {"ls", "exec_ls"} => received["ls"] = << >>
    /\ place["ls"] = "ended" => todo["ls"] = << >>
    /\ place["sort"] \notin {"sorting", "sorted"} => <<"sort", "fd2", "READ">> \in open
    /\ place["sort"] \notin {"close2", "pipe1"} => <<"sort", "fd1", "READ">> \in open
    /\ place["sort"] = "fork_grep" => <<"sort", "fd1", "WRITE">> \in open
    /\ place["ls"] # "ended" => <<"ls", "fd2", "WRITE">> \in open
    /\ place["grep"] \notin {"unborn", "ended"} =>
           <<"grep", "fd2", "READ">> \in open /\ <<"grep", "fd1", "WRITE">> \in open

PipelineInv ==
    /\ place["sort"] \in Beginning \cup Sorting \cup InsteadOfSort
    /\ place["ls"] \in {"unborn", "ls", "exec_ls", "listing", "ended", "killed"}
    /\ place["grep"] \in {"unborn", "grep", "grepping", "matching", "writing", "grepped", "ended", "killed"}
    /\ place["sort"] \in Beginning =>
           /\ place["ls"] = "unborn" /\ place["grep"] = "unborn"
           /\ received["ls"] = << >> /\ piped["fd1"] = << >> /\ piped["fd2"] = << >>
           /\ place["sort"] = "fork_ls" =>
                  <<"sort", "fd2", "READ">> \in open /\ <<"sort", "fd2", "WRITE">> \in open
    /\ place["sort"] \in Sorting => Staged
    /\ place["sort"] \in Beginning \cup Sorting => Listed /\ Counted

LEMMA PipelineMembers ==
    /\ {"sort", "ls", "grep"} \subseteq Everybody /\ {"fd1", "fd2"} \subseteq PipeNames
    /\ Beginning \cap Sorting = {} /\ Beginning \cap InsteadOfSort = {}
          /\ Sorting \cap InsteadOfSort = {}
  BY DEF Everybody, Pipeline, PipeNames, Beginning, Sorting, InsteadOfSort

LEMMA PipelineInitially == PipesInit => PipelineInv
  <1> SUFFICES ASSUME PipesInit PROVE PipelineInv
    OBVIOUS
  <1>1. /\ place["sort"] = "start" /\ place["ls"] = "unborn" /\ place["grep"] = "unborn"
        /\ piped["fd1"] = << >> /\ piped["fd2"] = << >>
    BY DEF PipesInit, Everybody, Pair, Pipeline, Users, Writers, PipeNames
  <1>2. /\ received["ls"] = << >> /\ received["grep"] = << >> /\ received["sort"] = << >>
        /\ todo["ls"] = << >>
    BY DEF PipesInit, Everybody, Pair, Pipeline, Users, Writers
  <1>3. Lines = << >>
    BY <1>1, <1>2 DEF Lines
  <1>4. Listed
    BY <1>1, <1>2, <1>3 DEF Listed
  <1>5. Matches(received["grep"]) = {}
    BY <1>2 DEF Matches
  <1>6. Counted
    <2>1. InHands = 0 /\ Cardinality(Matches(received["grep"])) = 0
      BY <1>1, <1>5, FS_EmptySet DEF InHands
    <2>2. << >> \in Seq({"match"}) /\ Len(<< >>) = 0
      OBVIOUS
    <2> QED BY <1>1, <1>2, <2>1, <2>2 DEF Counted
  <1> QED BY <1>1, <1>2, <1>4, <1>6 DEF PipelineInv, Beginning, Sorting, InsteadOfSort

LEMMA LinesTyped ==
    ASSUME Listed
    PROVE  Lines \in Seq({"match", "other"}) /\ Len(Lines) \in Nat
  <1> DEFINE S == {"match", "other"}
             r == received["grep"]
             s == piped["fd2"]
  <1>1. r \in Seq(S) /\ s \in Seq(S)
    BY DEF Listed
  <1> HIDE DEF S, r, s
  <1>2. r \o s \in Seq(S) /\ Len(r \o s) \in Nat
    BY <1>1
  <1> QED BY <1>2 DEF Lines, S, r, s

\* What no step touches stays true.
LEMMA ListedKept ==
    ASSUME Listed, received'["ls"] = received["ls"], received'["grep"] = received["grep"],
           piped'["fd2"] = piped["fd2"], todo'["ls"] = todo["ls"]
    PROVE  Listed'
  <1>1. Lines' = Lines
    BY DEF Lines
  <1> QED BY <1>1 DEF Listed

LEMMA CountedKept ==
    ASSUME Counted, received'["sort"] = received["sort"], received'["grep"] = received["grep"],
           piped'["fd1"] = piped["fd1"], todo'["grep"] = todo["grep"],
           \/ place'["grep"] = place["grep"]
           \/ /\ place["grep"] \notin {"matching", "writing"}
              /\ place'["grep"] \notin {"matching", "writing"}
    PROVE  Counted'
  <1>1. InHands' = InHands
    BY DEF InHands
  <1>2. Matches(received'["grep"]) = Matches(received["grep"])
    BY DEF Matches
  <1> QED BY <1>1, <1>2 DEF Counted

\* Closing ends keeps what is in a pipe that has another one, or has nothing in it.
LEMMA CloseKeeps ==
    ASSUME NEW ends, Close(ends), NEW f \in PipeNames,
           piped[f] = << >> \/ \E e \in open \ ends : e[2] = f
    PROVE  piped'[f] = piped[f]
  BY DEF Close

\* Before the first fork.
LEMMA PipelineBegins ==
    ASSUME PipesShape, PipelineInv, place["sort"] \in Beginning, SortPart
    PROVE  PipelineInv'
  <1>1. /\ place["ls"] = "unborn" /\ place["grep"] = "unborn"
        /\ received["ls"] = << >> /\ piped["fd1"] = << >> /\ piped["fd2"] = << >>
        /\ Listed /\ Counted /\ place["sort"] \in {"start", "fork_ls"}
    BY DEF PipelineInv, Beginning
  <1>2. CASE MakePipes("sort", "start", {"fd2"}, "fork_ls")
    <2>1. /\ place'["sort"] = "fork_ls" /\ place'["ls"] = place["ls"] /\ place'["grep"] = place["grep"]
          /\ UNCHANGED <<piped, received, todo>>
          /\ <<"sort", "fd2", "READ">> \in open' /\ <<"sort", "fd2", "WRITE">> \in open'
      BY <1>2, PipelineMembers DEF MakePipes, Goes, PipesShape
    <2>2. Listed' /\ Counted'
      BY <1>1, <2>1, ListedKept, CountedKept
    <2> QED BY <1>1, <2>1, <2>2 DEF PipelineInv, Beginning, Sorting, InsteadOfSort
  <1>3. CASE Goes("sort", "fork_ls", "ls") /\ UNCHANGED <<piped, open, received, todo>>
    <2>1. /\ place'["sort"] = "ls" /\ place'["ls"] = place["ls"] /\ place'["grep"] = place["grep"]
      BY <1>3, PipelineMembers DEF Goes, PipesShape
    <2> QED BY <1>1, <2>1 DEF PipelineInv, Beginning, Sorting, InsteadOfSort
  <1>4. CASE /\ place["sort"] = "fork_ls"
                   /\ place' = [place EXCEPT !["sort"] = "close2", !["ls"] = "ls"]
             /\ open' = open \cup {<<"ls", e[2], e[3]>> : e \in {e \in open : e[1] = "sort"}}
             /\ UNCHANGED <<piped, received, todo>>
    <2>1. /\ place'["sort"] = "close2" /\ place'["ls"] = "ls" /\ place'["grep"] = place["grep"]
      BY <1>4, PipelineMembers DEF PipesShape
    <2>2. Listed' /\ Counted'
      BY <1>1, <1>4, <2>1, ListedKept, CountedKept
    <2>3. <<"sort", "fd2", "READ">> \in open /\ <<"sort", "fd2", "WRITE">> \in open
      BY <1>4 DEF PipelineInv, Beginning
    <2>4. <<"ls", "fd2", "WRITE">> \in open' /\ <<"sort", "fd2", "READ">> \in open'
      BY <1>4, <2>3
    <2>5. Staged'
      BY <1>1, <1>4, <2>1, <2>4 DEF Staged
    <2> QED BY <1>1, <2>1, <2>2, <2>5 DEF PipelineInv, Beginning, Sorting, InsteadOfSort
  <1>5. CASE ForkPipes("sort", "ls", "fork_ls", "close2", "ls", "ls")
    BY <1>3, <1>4, <1>5 DEF ForkPipes
  <1> QED
    BY <1>1, <1>2, <1>5 DEF SortPart, ClosePipe, MakePipes, ForkPipes, ReadPipe, Finish, Goes

\* One that has become ls or grep itself, or has ended, stays so.
LEMMA PipelineOtherwise ==
    ASSUME PipesShape, PipelineInv, place["sort"] \in InsteadOfSort, p4
    PROVE  PipelineInv'
  <1>1. \A p \in Pipeline : LsPart(p) =>
            /\ place[p] \in {"ls", "exec_ls", "listing"}
            /\ place' \in {[place EXCEPT ![p] = l] : l \in {"exec_ls", "listing", "ended", "killed"}}
    BY DEF LsPart, ClosePipe, WritePipe, Finish, Goes
  <1>2. \A p \in Pipeline : GrepPart(p) =>
            /\ place[p] \in {"grep", "grepping", "matching", "writing", "grepped"}
            /\ place' \in {[place EXCEPT ![p] = l] : l \in {"grepping", "matching", "writing", "grepped", "ended", "killed"}}
    BY DEF GrepPart, ClosePipe, WritePipe, ReadPipe, Finish, Goes
  <1>3. ~SortPart
    BY DEF SortPart, ClosePipe, MakePipes, ForkPipes, ReadPipe, Finish, Goes, InsteadOfSort
  <1>4. /\ place'["sort"] \in InsteadOfSort
        /\ place'["ls"] \in {"unborn", "ls", "exec_ls", "listing", "ended", "killed"}
        /\ place'["grep"] \in {"unborn", "grep", "grepping", "matching", "writing", "grepped", "ended", "killed"}
    BY <1>1, <1>2, <1>3, PipelineMembers DEF p4, PipelineInv, PipesShape, Pipeline, InsteadOfSort
  <1> QED BY <1>4, PipelineMembers DEF PipelineInv

\* Both pipes keep what is in them as long as those who hold their other ends do.
LEMMA SortCloses ==
    ASSUME PipesShape, PipelineInv, place["sort"] \in Sorting,
           \/ ClosePipe("sort", "close2", "fd2", "WRITE", "pipe1")
           \/ ClosePipe("sort", "close1", "fd1", "WRITE", "close3")
           \/ ClosePipe("sort", "close3", "fd2", "READ", "sorting")
    PROVE  PipelineInv'
  <1>1. Staged /\ Listed /\ Counted
    BY DEF PipelineInv
  <1>2. CASE ClosePipe("sort", "close2", "fd2", "WRITE", "pipe1")
    <2>1. /\ place["sort"] = "close2" /\ place'["sort"] = "pipe1" /\ place'["ls"] = place["ls"]
          /\ place'["grep"] = place["grep"] /\ UNCHANGED <<received, todo>>
          /\ open' = open \ {<<"sort", "fd2", "WRITE">>} /\ Close({<<"sort", "fd2", "WRITE">>})
      BY <1>2, PipelineMembers DEF ClosePipe, Goes, PipesShape, Close
    <2>2. /\ <<"sort", "fd2", "READ">> \in open \ {<<"sort", "fd2", "WRITE">>} /\ piped["fd1"] = << >>
      BY <1>1, <2>1 DEF Staged
    <2>3. piped'["fd1"] = piped["fd1"] /\ piped'["fd2"] = piped["fd2"]
      BY <2>1, <2>2, CloseKeeps, PipelineMembers
    <2>4. Listed' /\ Counted'
      BY <1>1, <2>1, <2>3, ListedKept, CountedKept
    <2>5. Staged'
      BY <1>1, <2>1, <2>3 DEF Staged
    <2> QED BY <2>1, <2>4, <2>5 DEF PipelineInv, Beginning, Sorting, InsteadOfSort
  <1>3. CASE ClosePipe("sort", "close1", "fd1", "WRITE", "close3")
    <2>1. /\ place["sort"] = "close1" /\ place'["sort"] = "close3" /\ place'["ls"] = place["ls"]
          /\ place'["grep"] = place["grep"] /\ UNCHANGED <<received, todo>>
          /\ open' = open \ {<<"sort", "fd1", "WRITE">>} /\ Close({<<"sort", "fd1", "WRITE">>})
      BY <1>3, PipelineMembers DEF ClosePipe, Goes, PipesShape, Close
    <2>2. /\ <<"sort", "fd2", "READ">> \in open \ {<<"sort", "fd1", "WRITE">>}
          /\ <<"sort", "fd1", "READ">> \in open \ {<<"sort", "fd1", "WRITE">>}
      BY <1>1, <2>1 DEF Staged
    <2>3. piped'["fd1"] = piped["fd1"] /\ piped'["fd2"] = piped["fd2"]
      BY <2>1, <2>2, CloseKeeps, PipelineMembers
    <2>4. Listed' /\ Counted'
      BY <1>1, <2>1, <2>3, ListedKept, CountedKept
    <2>5. Staged'
      BY <1>1, <2>1, <2>3 DEF Staged
    <2> QED BY <2>1, <2>4, <2>5 DEF PipelineInv, Beginning, Sorting, InsteadOfSort
  <1>4. CASE ClosePipe("sort", "close3", "fd2", "READ", "sorting")
    <2>1. /\ place["sort"] = "close3" /\ place'["sort"] = "sorting" /\ place'["ls"] = place["ls"]
          /\ place'["grep"] = place["grep"] /\ UNCHANGED <<received, todo>>
          /\ open' = open \ {<<"sort", "fd2", "READ">>} /\ Close({<<"sort", "fd2", "READ">>})
      BY <1>4, PipelineMembers DEF ClosePipe, Goes, PipesShape, Close
    <2>2. /\ <<"sort", "fd1", "READ">> \in open \ {<<"sort", "fd2", "READ">>}
          /\ \/ piped["fd2"] = << >>
             \/ <<"grep", "fd2", "READ">> \in open \ {<<"sort", "fd2", "READ">>}
      BY <1>1, <2>1 DEF Staged
    <2>3. piped'["fd1"] = piped["fd1"] /\ piped'["fd2"] = piped["fd2"]
      BY <2>1, <2>2, CloseKeeps, PipelineMembers
    <2>4. Listed' /\ Counted'
      BY <1>1, <2>1, <2>3, ListedKept, CountedKept
    <2>5. Staged'
      BY <1>1, <2>1, <2>3 DEF Staged
    <2> QED BY <2>1, <2>4, <2>5 DEF PipelineInv, Beginning, Sorting, InsteadOfSort
  <1> QED BY <1>2, <1>3, <1>4

\* grep is born with an end of either pipe.
LEMMA SortForks ==
    ASSUME PipesShape, PipelineInv, place["sort"] \in Sorting,
           \/ MakePipes("sort", "pipe1", {"fd1"}, "fork_grep")
           \/ ForkPipes("sort", "grep", "fork_grep", "close1", "grep", "grep")
    PROVE  PipelineInv'
  <1>1. Staged /\ Listed /\ Counted
    BY DEF PipelineInv
  <1>2. CASE MakePipes("sort", "pipe1", {"fd1"}, "fork_grep")
    <2>1. /\ place["sort"] = "pipe1" /\ place'["sort"] = "fork_grep" /\ place'["ls"] = place["ls"]
          /\ place'["grep"] = place["grep"] /\ UNCHANGED <<piped, received, todo>>
          /\ <<"sort", "fd1", "READ">> \in open' /\ <<"sort", "fd1", "WRITE">> \in open'
          /\ open \subseteq open'
      BY <1>2, PipelineMembers DEF MakePipes, Goes, PipesShape
    <2>2. Listed' /\ Counted'
      BY <1>1, <2>1, ListedKept, CountedKept
    <2>3. Staged'
      BY <1>1, <2>1 DEF Staged
    <2> QED BY <2>1, <2>2, <2>3 DEF PipelineInv, Beginning, Sorting, InsteadOfSort
  <1>3. CASE Goes("sort", "fork_grep", "grep") /\ UNCHANGED <<piped, open, received, todo>>
    <2>1. /\ place["sort"] = "fork_grep" /\ place'["sort"] = "grep" /\ place'["ls"] = place["ls"]
          /\ place'["grep"] = place["grep"]
      BY <1>3, PipelineMembers DEF Goes, PipesShape
    <2> QED BY <2>1 DEF PipelineInv, Beginning, Sorting, InsteadOfSort
  <1>4. CASE /\ place["sort"] = "fork_grep"
                   /\ place' = [place EXCEPT !["sort"] = "close1", !["grep"] = "grep"]
             /\ open' = open \cup {<<"grep", e[2], e[3]>> : e \in {e \in open : e[1] = "sort"}}
             /\ UNCHANGED <<piped, received, todo>>
    <2>1. /\ place'["sort"] = "close1" /\ place'["ls"] = place["ls"] /\ place'["grep"] = "grep"
      BY <1>4, PipelineMembers DEF PipesShape
    <2>2. place["grep"] = "unborn"
      BY <1>1, <1>4 DEF Staged
    <2>3. Listed' /\ Counted'
      BY <1>1, <1>4, <2>1, <2>2, ListedKept, CountedKept
    <2>4. <<"sort", "fd2", "READ">> \in open /\ <<"sort", "fd1", "WRITE">> \in open
      BY <1>1, <1>4 DEF Staged
    <2>5. <<"grep", "fd2", "READ">> \in open' /\ <<"grep", "fd1", "WRITE">> \in open'
          /\ open \subseteq open'
      BY <1>4, <2>4
    <2>6. Staged'
      BY <1>1, <1>4, <2>1, <2>2, <2>5 DEF Staged
    <2> QED BY <2>1, <2>3, <2>6 DEF PipelineInv, Beginning, Sorting, InsteadOfSort
  <1> QED BY <1>2, <1>3, <1>4 DEF ForkPipes

\* sort takes a match out of the pipe, or has them all: the last end to write was grep's.
LEMMA SortReads ==
    ASSUME PipesShape, PipelineInv, place["sort"] \in Sorting,
           \/ ReadPipe("sort", "sorting", "fd1", "sorting", "sorted")
           \/ Finish("sort", "sorted", "ended")
    PROVE  PipelineInv'
  <1>1. Staged /\ Listed /\ Counted
    BY DEF PipelineInv
  <1>2. CASE /\ piped["fd1"] # << >> /\ Goes("sort", "sorting", "sorting")
             /\ received' = [received EXCEPT !["sort"] = Append(@, Head(piped["fd1"]))]
             /\ piped' = [piped EXCEPT !["fd1"] = Tail(@)] /\ UNCHANGED <<open, todo>>
    <2>1. /\ place["sort"] = "sorting" /\ place'["sort"] = "sorting" /\ place'["ls"] = place["ls"]
          /\ place'["grep"] = place["grep"] /\ UNCHANGED <<open, todo>>
          /\ received'["sort"] = Append(received["sort"], Head(piped["fd1"]))
                /\ piped'["fd1"] = Tail(piped["fd1"])
          /\ received'["ls"] = received["ls"] /\ received'["grep"] = received["grep"]
                /\ piped'["fd2"] = piped["fd2"]
      BY <1>2, PipelineMembers DEF Goes, PipesShape
    <2>2. Listed'
      BY <1>1, <2>1, ListedKept
    <2>3. InHands' = InHands
      BY <2>1 DEF InHands
    <2>4. received["sort"] \in Seq({"match"}) /\ piped["fd1"] \in Seq({"match"}) /\ piped["fd1"] # << >>
      BY <1>1, <1>2 DEF Counted
    <2>5. /\ received'["sort"] \in Seq({"match"}) /\ piped'["fd1"] \in Seq({"match"})
          /\ Len(received'["sort"]) = Len(received["sort"]) + 1
                /\ Len(piped'["fd1"]) = Len(piped["fd1"]) - 1
          /\ Len(received["sort"]) \in Nat /\ Len(piped["fd1"]) \in Nat
      BY <2>1, <2>4
    <2>6. Cardinality(Matches(received'["grep"])) = Cardinality(Matches(received["grep"]))
      BY <2>1
    <2>7. InHands \in Nat
      BY DEF InHands
    <2>8. Counted'
      <3>1. /\ place'["grep"] = "matching" => received'["grep"] # << >>
            /\ place'["grep"] = "writing" => todo'["grep"] = <<<<"match">>>>
        BY <1>1, <2>1 DEF Counted
      <3>2. Cardinality(Matches(received["grep"])) = Len(received["sort"]) + Len(piped["fd1"]) + InHands
        BY <1>1 DEF Counted
      <3>3. Cardinality(Matches(received'["grep"])) = Len(received'["sort"]) + Len(piped'["fd1"]) + InHands'
        <4> DEFINE in_sort == Len(received["sort"])
                   in_pipe == Len(piped["fd1"])
        <4>1. in_sort \in Nat /\ in_pipe \in Nat /\ in_sort' = in_sort + 1 /\ in_pipe' = in_pipe - 1
          BY <2>5
        <4>2. in_sort' + in_pipe' + InHands' = in_sort + in_pipe + InHands
          <5> HIDE DEF in_sort, in_pipe
          <5> QED BY <2>3, <2>7, <4>1
        <4> QED BY <2>6, <3>2, <4>2
      <3> QED BY <2>5, <3>1, <3>3 DEF Counted
    <2>9. Staged'
      BY <1>1, <2>1 DEF Staged
    <2> QED BY <2>1, <2>2, <2>8, <2>9 DEF PipelineInv, Beginning, Sorting, InsteadOfSort
  <1>3. CASE /\ piped["fd1"] = << >> /\ OpenEnds("fd1", "WRITE") = {}
             /\ Goes("sort", "sorting", "sorted") /\ UNCHANGED <<piped, open, received, todo>>
    <2>1. /\ place["sort"] = "sorting" /\ place'["sort"] = "sorted" /\ place'["ls"] = place["ls"]
          /\ place'["grep"] = place["grep"] /\ UNCHANGED <<piped, open, received, todo>>
      BY <1>3, PipelineMembers DEF Goes, PipesShape
    <2>2. <<"grep", "fd1", "WRITE">> \notin open
      BY <1>3 DEF OpenEnds
    <2>3. place["grep"] = "ended"
      BY <1>1, <2>1, <2>2 DEF Staged
    <2>4. Listed' /\ Counted'
      BY <1>1, <2>1, ListedKept, CountedKept
    <2>5. Staged'
      BY <1>1, <1>3, <2>1, <2>3 DEF Staged
    <2> QED BY <2>1, <2>4, <2>5 DEF PipelineInv, Beginning, Sorting, InsteadOfSort
  <1>4. CASE Finish("sort", "sorted", "ended")
    <2>1. /\ place'["sort"] = "ended" /\ place'["ls"] = place["ls"] /\ place'["grep"] = place["grep"]
      BY <1>4, PipelineMembers DEF Finish, Goes, PipesShape
    <2> QED BY <2>1 DEF PipelineInv, Beginning, Sorting, InsteadOfSort
  <1> QED BY <1>2, <1>3, <1>4 DEF ReadPipe

\* Where ls stands it has the other end of grep's pipe open.
LEMMA LsCloses ==
    ASSUME PipesShape, PipelineInv, place["sort"] \in Sorting,
           \/ ClosePipe("ls", "ls", "fd2", "READ", "exec_ls")
           \/ todo["ls"] = << >> /\ Finish("ls", "listing", "ended")
    PROVE  PipelineInv'
  <1>1. Staged /\ Listed /\ Counted
    BY DEF PipelineInv
  <1>2. CASE ClosePipe("ls", "ls", "fd2", "READ", "exec_ls")
    <2>1. /\ place["ls"] = "ls" /\ place'["ls"] = "exec_ls" /\ place'["sort"] = place["sort"]
          /\ place'["grep"] = place["grep"] /\ UNCHANGED <<received, todo>>
          /\ open' = open \ {<<"ls", "fd2", "READ">>} /\ Close({<<"ls", "fd2", "READ">>})
      BY <1>2, PipelineMembers DEF ClosePipe, Goes, PipesShape, Close
    <2>2. /\ <<"ls", "fd2", "WRITE">> \in open \ {<<"ls", "fd2", "READ">>}
          /\ \/ piped["fd1"] = << >>
             \/ <<"sort", "fd1", "READ">> \in open \ {<<"ls", "fd2", "READ">>}
      BY <1>1, <2>1 DEF Staged
    <2>3. piped'["fd1"] = piped["fd1"] /\ piped'["fd2"] = piped["fd2"]
      BY <2>1, <2>2, CloseKeeps, PipelineMembers
    <2>4. Listed' /\ Counted'
      BY <1>1, <2>1, <2>3, ListedKept, CountedKept
    <2>5. Staged'
      BY <1>1, <2>1, <2>3 DEF Staged
    <2> QED BY <2>1, <2>4, <2>5 DEF PipelineInv, Beginning, Sorting, InsteadOfSort
  <1>3. CASE todo["ls"] = << >> /\ Finish("ls", "listing", "ended")
    <2> DEFINE ends == {e \in open : e[1] = "ls"}
    <2>1. /\ place["ls"] = "listing" /\ place'["ls"] = "ended" /\ place'["sort"] = place["sort"]
          /\ place'["grep"] = place["grep"] /\ UNCHANGED <<received, todo>>
          /\ open' = open \ ends /\ Close(ends)
      BY <1>3, PipelineMembers DEF Finish, Goes, PipesShape, Close
    <2>2. /\ \/ <<"sort", "fd2", "READ">> \in open \ ends
             \/ <<"grep", "fd2", "READ">> \in open \ ends
          /\ \/ piped["fd1"] = << >>
             \/ <<"sort", "fd1", "READ">> \in open \ ends
      BY <1>1, <2>1 DEF Staged
    <2>3. piped'["fd1"] = piped["fd1"] /\ piped'["fd2"] = piped["fd2"]
      BY <2>1, <2>2, CloseKeeps, PipelineMembers
    <2>4. Listed' /\ Counted'
      BY <1>1, <2>1, <2>3, ListedKept, CountedKept
    <2>5. Staged'
      BY <1>1, <1>3, <2>1, <2>3 DEF Staged
    <2> QED BY <2>1, <2>4, <2>5 DEF PipelineInv, Beginning, Sorting, InsteadOfSort
  <1> QED BY <1>2, <1>3

\* ls reads the directory: all of it is still to write.
LEMMA LsLists ==
    ASSUME PipesShape, PipelineInv, place["sort"] \in Sorting,
           Goes("ls", "exec_ls", "listing"), NEW l \in Listings,
           received' = [received EXCEPT !["ls"] = l],
           todo' = [todo EXCEPT !["ls"] = [g \in 1 .. Len(l) |-> <<l[g]>>]],
           UNCHANGED <<piped, open>>
    PROVE  PipelineInv'
  <1>1. Staged /\ Listed /\ Counted
    BY DEF PipelineInv
  <1>2. /\ place["ls"] = "exec_ls" /\ place'["ls"] = "listing" /\ place'["sort"] = place["sort"]
        /\ place'["grep"] = place["grep"] /\ UNCHANGED <<piped, open>>
        /\ received'["ls"] = l /\ received'["grep"] = received["grep"]
              /\ received'["sort"] = received["sort"]
        /\ todo'["ls"] = [g \in 1 .. Len(l) |-> <<l[g]>>] /\ todo'["grep"] = todo["grep"]
    BY PipelineMembers DEF Goes, PipesShape
  <1>3. Counted'
    BY <1>1, <1>2, CountedKept
  <1>4. Staged'
    BY <1>1, <1>2 DEF Staged
  <1>5. l \in Seq({"match", "other"}) /\ Len(l) \in Nat
    BY PipesAssumption
  <1>6. Len(Lines) = 0
    <2>1. received["grep"] \in Seq({"match", "other"}) /\ piped["fd2"] \in Seq({"match", "other"})
          /\ todo["ls"] \in Seq(Seq({"match", "other"}))
                /\ Len(Lines) + Len(todo["ls"]) = Len(received["ls"])
      BY <1>1 DEF Listed
    <2>2. received["ls"] = << >>
      BY <1>1, <1>2 DEF Staged
    <2>3. Len(Lines) \in Nat /\ Len(todo["ls"]) \in Nat /\ Len(received["ls"]) = 0
      BY <1>1, <2>1, <2>2, LinesTyped
    <2> QED BY <2>1, <2>3
  <1>7. Lines' = Lines
    BY <1>2 DEF Lines
  <1>8. \A g \in 1 .. Len(l) : <<l[g]>> \in Seq({"match", "other"})
    BY <1>5
  <1>9. todo'["ls"] \in Seq(Seq({"match", "other"})) /\ Len(todo'["ls"]) = Len(l)
    <2> DEFINE S == Seq({"match", "other"})
    <2>1. [g \in 1 .. Len(l) |-> <<l[g]>>] \in Seq(S) /\ Len([g \in 1 .. Len(l) |-> <<l[g]>>]) = Len(l)
      <3> HIDE DEF S
      <3>1. \A g \in 1 .. Len(l) : <<l[g]>> \in S
        BY <1>8 DEF S
      <3> QED BY <1>5, <3>1
    <2> QED BY <1>2, <2>1
  <1>10. \A g \in 1 .. Len(todo'["ls"]) : todo'["ls"][g] = <<received'["ls"][0 + g]>>
    BY <1>2, <1>5, <1>9
  <1>11. Listed'
    <2>1. received'["ls"] \in Seq({"match", "other"}) /\ received'["grep"] \in Seq({"match", "other"})
          /\ piped'["fd2"] \in Seq({"match", "other"})
      BY <1>1, <1>2, <1>5 DEF Listed
    <2> QED BY <1>2, <1>5, <1>6, <1>7, <1>9, <1>10, <2>1 DEF Listed
  <1> QED BY <1>2, <1>3, <1>4, <1>11 DEF PipelineInv, Beginning, Sorting, InsteadOfSort

\* A line that ls writes is behind those that grep has or will have read; somebody reads.
LEMMA LsWrites ==
    ASSUME PipesShape, PipelineInv, place["sort"] \in Sorting,
           WritePipe("ls", "listing", "fd2", "listing")
    PROVE  PipelineInv'
  <1>1. Staged /\ Listed /\ Counted
    BY DEF PipelineInv
  <1>2. place["ls"] = "listing" /\ todo["ls"] # << >>
    BY DEF WritePipe, Goes, Finish
  <1>3. OpenEnds("fd2", "READ") # {}
    <2>1. <<"sort", "fd2", "READ">> \in open \/ <<"grep", "fd2", "READ">> \in open
      BY <1>1, <1>2 DEF Staged
    <2> QED BY <2>1 DEF OpenEnds
  <1>4. /\ \A p \in Everybody : place'[p] = place[p]
        /\ piped'["fd2"] = piped["fd2"] \o Head(todo["ls"]) /\ piped'["fd1"] = piped["fd1"]
        /\ todo'["ls"] = Tail(todo["ls"]) /\ todo'["grep"] = todo["grep"]
              /\ UNCHANGED <<open, received>>
    BY <1>3, PipelineMembers DEF WritePipe, Goes, PipesShape
  <1>5. Counted'
    BY <1>1, <1>4, CountedKept, PipelineMembers
  <1>6. place["grep"] \notin {"grepped", "ended"}
    BY <1>1, <1>2 DEF Staged
  <1>7. Staged'
    BY <1>1, <1>2, <1>4, <1>6, PipelineMembers DEF Staged
  <1> DEFINE S == {"match", "other"}
             rl == received["ls"]
             r == received["grep"]
             s == piped["fd2"]
             d == todo["ls"]
             m == rl[Len(Lines) + 1]
  <1>8. /\ rl \in Seq(S) /\ r \in Seq(S) /\ s \in Seq(S) /\ d \in Seq(Seq(S)) /\ d # << >>
        /\ Len(Lines) + Len(d) = Len(rl)
        /\ \A g \in 1 .. Len(Lines) : Lines[g] = rl[g]
        /\ \A g \in 1 .. Len(d) : d[g] = <<rl[Len(Lines) + g]>>
    BY <1>1, <1>2 DEF Listed
  <1>9. Lines = r \o s
    BY DEF Lines
  <1>10. received' = received /\ s' = s \o Head(d) /\ d' = Tail(d)
    BY <1>4
  <1> HIDE DEF S
  <1>11. Lines \in Seq(S) /\ Len(Lines) \in Nat /\ Len(d) \in Nat \ {0}
    <2>1. Lines \in Seq(S) /\ Len(Lines) \in Nat
      BY <1>1, LinesTyped DEF S
    <2> HIDE DEF d
    <2>2. Len(d) \in Nat \ {0}
      BY <1>8
    <2> QED BY <2>1, <2>2
  <1>12. Head(d) = <<m>> /\ m \in S
    <2>1. 1 \in 1 .. Len(d) /\ Len(Lines) + 1 \in 1 .. Len(rl)
      BY <1>8, <1>11
    <2>2. d[1] = <<m>>
      BY <1>8, <2>1
    <2>3. Head(d) = d[1]
      OBVIOUS
    <2> QED BY <1>8, <2>1, <2>2, <2>3
  <1>13. s \o <<m>> \in Seq(S) /\ r \o (s \o <<m>>) = Append(r \o s, m)
    <2> HIDE DEF m, r, s
    <2> QED BY <1>8, <1>12, WriteAppends
  <1>14. piped'["fd2"] \in Seq(S) /\ Lines' = Append(Lines, m)
    BY <1>9, <1>10, <1>12, <1>13 DEF Lines
  <1>15. /\ Len(Append(Lines, m)) = Len(Lines) + 1 /\ Append(Lines, m)[Len(Lines) + 1] = m
         /\ \A g \in 1 .. Len(Lines) : Append(Lines, m)[g] = Lines[g]
    <2> HIDE DEF m
    <2> QED BY <1>11, <1>12
  <1>16. /\ Tail(d) \in Seq(Seq(S)) /\ Len(Tail(d)) = Len(d) - 1
         /\ \A g \in 1 .. Len(d) - 1 : Tail(d)[g] = d[g + 1]
    BY <1>8, <1>11
  <1>17. Len(Lines') + Len(d') = Len(rl)
    <2>1. Len(Lines') = Len(Lines) + 1 /\ Len(d') = Len(d) - 1
      BY <1>10, <1>14, <1>15, <1>16
    <2>2. Len(Lines) + Len(d) = Len(rl) /\ Len(Lines) \in Nat /\ Len(d) \in Nat
      BY <1>8, <1>11
    <2> HIDE DEF d, rl
    <2> QED BY <2>1, <2>2
  <1>18. \A g \in 1 .. Len(Lines') : Lines'[g] = rl[g]
    BY <1>8, <1>11, <1>14, <1>15
  <1>19. ASSUME NEW g \in 1 .. Len(d')
         PROVE  d'[g] = <<rl[Len(Lines') + g]>>
    <2>1. g \in 1 .. Len(d) - 1 /\ g + 1 \in 1 .. Len(d) /\ Len(Lines) + (g + 1) = Len(Lines') + g
      <3>1. Len(d') = Len(d) - 1 /\ Len(Lines') = Len(Lines) + 1
        BY <1>10, <1>14, <1>15, <1>16
      <3>2. Len(d) \in Nat /\ Len(Lines) \in Nat /\ g \in 1 .. Len(d) - 1
        BY <1>11, <3>1
      <3> HIDE DEF d
      <3> QED BY <3>1, <3>2
    <2>2. d'[g] = d[g + 1]
      BY <1>10, <1>16, <2>1
    <2> QED BY <1>8, <2>1, <2>2
  <1>20. Listed'
    <2>1. received'["ls"] = rl /\ received'["grep"] = r
      BY <1>10
    <2> QED BY <1>8, <1>10, <1>14, <1>16, <1>17, <1>18, <1>19, <2>1 DEF Listed, S
  <1> QED BY <1>1, <1>4, <1>5, <1>7, <1>20, PipelineMembers DEF PipelineInv

\* A line more, that matches or not.
LEMMA MatchesGrow ==
    ASSUME NEW s \in Seq({"match", "other"}), NEW m \in {"match", "other"}
    PROVE  Cardinality(Matches(Append(s, m))) = Cardinality(Matches(s)) + (IF m = "match" THEN 1 ELSE 0)
  <1> DEFINE w == Append(s, m)
             l == Len(s)
  <1>1. /\ l \in Nat /\ Len(w) = l + 1 /\ w[l + 1] = m
        /\ \A g \in 1 .. l : w[g] = s[g]
    OBVIOUS
  <1> HIDE DEF w, l
  <1>2. Matches(s) \subseteq 1 .. l
    BY DEF Matches, l
  <1>3. IsFiniteSet(Matches(s)) /\ Cardinality(Matches(s)) \in Nat
    <2>1. 1 \in Int /\ l \in Int
      BY <1>1
    <2>2. IsFiniteSet(1 .. l)
      BY <2>1, FS_Interval
    <2>3. IsFiniteSet(Matches(s))
      BY <1>2, <2>2, FS_Subset
    <2> QED BY <2>3, FS_CardinalityType
  <1>4. CASE m = "match"
    <2>1. Matches(w) = Matches(s) \cup {l + 1}
      BY <1>1, <1>4 DEF Matches, l
    <2>2. l + 1 \notin Matches(s)
      BY <1>1, <1>2
    <2>3. Cardinality(Matches(s) \cup {l + 1}) = Cardinality(Matches(s)) + 1
      BY <1>3, <2>2, FS_AddElement
    <2> QED BY <1>4, <2>1, <2>3 DEF w
  <1>5. CASE m # "match"
    <2>1. Matches(w) = Matches(s)
      BY <1>1, <1>5 DEF Matches, l
    <2> QED BY <1>3, <1>5, <2>1 DEF w
  <1> QED BY <1>4, <1>5

\* grep has the other ends open as long as it works.
LEMMA GrepCloses ==
    ASSUME PipesShape, PipelineInv, place["sort"] \in Sorting,
           \/ ClosePipe("grep", "grep", "fd1", "READ", "grepping")
           \/ Finish("grep", "grepped", "ended")
    PROVE  PipelineInv'
  <1>1. Staged /\ Listed /\ Counted
    BY DEF PipelineInv
  <1>2. CASE ClosePipe("grep", "grep", "fd1", "READ", "grepping")
    <2> DEFINE ends == {<<"grep", "fd1", "READ">>}
    <2>1. /\ place["grep"] = "grep" /\ place'["grep"] = "grepping" /\ place'["sort"] = place["sort"]
          /\ place'["ls"] = place["ls"] /\ UNCHANGED <<received, todo>>
          /\ open' = open \ ends /\ Close(ends)
      BY <1>2, PipelineMembers DEF ClosePipe, Goes, PipesShape, Close
    <2>2. <<"grep", "fd2", "READ">> \in open \ ends /\ <<"grep", "fd1", "WRITE">> \in open \ ends
      BY <1>1, <2>1 DEF Staged
    <2>3. piped'["fd1"] = piped["fd1"] /\ piped'["fd2"] = piped["fd2"]
      BY <2>1, <2>2, CloseKeeps, PipelineMembers
    <2>4. Listed' /\ Counted'
      BY <1>1, <2>1, <2>3, ListedKept, CountedKept
    <2>5. Staged'
      BY <1>1, <2>1, <2>3 DEF Staged
    <2> QED BY <2>1, <2>4, <2>5 DEF PipelineInv, Beginning, Sorting, InsteadOfSort
  <1>3. CASE Finish("grep", "grepped", "ended")
    <2> DEFINE ends == {e \in open : e[1] = "grep"}
    <2>1. /\ place["grep"] = "grepped" /\ place'["grep"] = "ended" /\ place'["sort"] = place["sort"]
          /\ place'["ls"] = place["ls"] /\ UNCHANGED <<received, todo>>
          /\ open' = open \ ends /\ Close(ends)
      BY <1>3, PipelineMembers DEF Finish, Goes, PipesShape, Close
    <2>2. piped["fd2"] = << >> /\ <<"sort", "fd1", "READ">> \in open \ ends
      BY <1>1, <2>1 DEF Staged
    <2>3. piped'["fd1"] = piped["fd1"] /\ piped'["fd2"] = piped["fd2"]
      BY <2>1, <2>2, CloseKeeps, PipelineMembers
    <2>4. Listed' /\ Counted'
      BY <1>1, <2>1, <2>3, ListedKept, CountedKept
    <2>5. Staged'
      BY <1>1, <2>1, <2>3 DEF Staged
    <2> QED BY <2>1, <2>4, <2>5 DEF PipelineInv, Beginning, Sorting, InsteadOfSort
  <1> QED BY <1>2, <1>3

\* grep takes a line, or knows from the end of file that ls has written all.
LEMMA GrepReads ==
    ASSUME PipesShape, PipelineInv, place["sort"] \in Sorting,
           ReadPipe("grep", "grepping", "fd2", "matching", "grepped")
    PROVE  PipelineInv'
  <1>1. Staged /\ Listed /\ Counted
    BY DEF PipelineInv
  <1>2. CASE /\ piped["fd2"] # << >> /\ Goes("grep", "grepping", "matching")
             /\ received' = [received EXCEPT !["grep"] = Append(@, Head(piped["fd2"]))]
             /\ piped' = [piped EXCEPT !["fd2"] = Tail(@)] /\ UNCHANGED <<open, todo>>
    <2> DEFINE S == {"match", "other"}
               r == received["grep"]
               s == piped["fd2"]
    <2>1. /\ place["grep"] = "grepping" /\ place'["grep"] = "matching" /\ place'["sort"] = place["sort"]
          /\ place'["ls"] = place["ls"] /\ UNCHANGED <<open, todo>> /\ piped'["fd1"] = piped["fd1"]
          /\ received'["ls"] = received["ls"] /\ received'["sort"] = received["sort"]
      BY <1>2, PipelineMembers DEF Goes, PipesShape
    <2>2. r' = Append(r, Head(s)) /\ s' = Tail(s)
      BY <1>2, PipelineMembers DEF PipesShape
    <2>3. Staged'
      BY <1>1, <2>1 DEF Staged
    <2>4. r \in Seq(S) /\ s \in Seq(S) /\ s # << >>
      BY <1>1, <1>2 DEF Listed
    <2>5. /\ Append(r, Head(s)) \in Seq(S) /\ Tail(s) \in Seq(S)
          /\ Append(r, Head(s)) \o Tail(s) = r \o s
      <3> HIDE DEF S, r, s
      <3> QED BY <2>4, ReadMoves
    <2>6. Lines' = Lines
      BY <2>2, <2>5 DEF Lines
    <2>7. Listed'
      BY <1>1, <2>1, <2>2, <2>5, <2>6 DEF Listed
    <2>8. Head(s) \in S /\ Len(r) \in Nat
      <3> HIDE DEF S, r, s
      <3> QED BY <2>4
    <2>9. r' # << >> /\ r'[Len(r')] = Head(s)
      <3>1. Append(r, Head(s)) # << >> /\ Append(r, Head(s))[Len(Append(r, Head(s)))] = Head(s)
        <4> HIDE DEF S, r, s
        <4> QED BY <2>4, <2>8
      <3> QED BY <2>2, <3>1
    <2>10. InHands = 0 /\ InHands' = IF Head(s) = "match" THEN 1 ELSE 0
      BY <2>1, <2>9 DEF InHands
    <2>11. Cardinality(Matches(r')) = Cardinality(Matches(r)) + InHands'
      BY <2>2, <2>4, <2>8, <2>10, MatchesGrow
    <2>12. Counted'
      <3>1. /\ received'["sort"] \in Seq({"match"}) /\ piped'["fd1"] \in Seq({"match"})
            /\ Cardinality(Matches(r)) = Len(received'["sort"]) + Len(piped'["fd1"])
        <4>1. Len(received["sort"]) \in Nat /\ Len(piped["fd1"]) \in Nat
          BY <1>1 DEF Counted
        <4> QED BY <1>1, <2>1, <2>10, <4>1 DEF Counted
      <3>2. Cardinality(Matches(received'["grep"])) = Len(received'["sort"]) + Len(piped'["fd1"]) + InHands'
        BY <2>11, <3>1
      <3> QED BY <2>1, <2>9, <3>1, <3>2 DEF Counted
    <2> QED BY <2>1, <2>3, <2>7, <2>12 DEF PipelineInv, Beginning, Sorting, InsteadOfSort
  <1>3. CASE /\ piped["fd2"] = << >> /\ OpenEnds("fd2", "WRITE") = {}
             /\ Goes("grep", "grepping", "grepped") /\ UNCHANGED <<piped, open, received, todo>>
    <2>1. /\ place["grep"] = "grepping" /\ place'["grep"] = "grepped" /\ place'["sort"] = place["sort"]
          /\ place'["ls"] = place["ls"] /\ UNCHANGED <<piped, open, received, todo>>
      BY <1>3, PipelineMembers DEF Goes, PipesShape
    <2>2. <<"ls", "fd2", "WRITE">> \notin open
      BY <1>3 DEF OpenEnds
    <2>3. place["ls"] = "ended"
      BY <1>1, <2>2 DEF Staged
    <2>4. Listed' /\ Counted'
      BY <1>1, <2>1, ListedKept, CountedKept
    <2>5. Staged'
      BY <1>1, <1>3, <2>1, <2>3 DEF Staged
    <2> QED BY <2>1, <2>4, <2>5 DEF PipelineInv, Beginning, Sorting, InsteadOfSort
  <1> QED BY <1>2, <1>3 DEF ReadPipe

\* grep looks at its line.
LEMMA GrepMatches ==
    ASSUME PipesShape, PipelineInv, place["sort"] \in Sorting, UNCHANGED <<piped, open, received>>,
           \/ Goes("grep", "matching", "grepping") /\ Last(received["grep"]) = "other" /\ UNCHANGED todo
           \/ /\ Goes("grep", "matching", "writing") /\ Last(received["grep"]) = "match"
              /\ todo' = [todo EXCEPT !["grep"] = <<<<"match">>>>]
    PROVE  PipelineInv'
  <1>1. Staged /\ Listed /\ Counted
    BY DEF PipelineInv
  <1>2. /\ place["grep"] = "matching" /\ place'["grep"] \in {"grepping", "writing"}
        /\ place'["sort"] = place["sort"] /\ place'["ls"] = place["ls"]
        /\ todo'["ls"] = todo["ls"] /\ (place'["grep"] = "writing" => todo'["grep"] = <<<<"match">>>>)
        /\ received["grep"][Len(received["grep"])] = IF place'["grep"] = "writing" THEN "match" ELSE "other"
    BY PipelineMembers DEF Goes, PipesShape, Last
  <1>3. InHands' = InHands
    BY <1>2 DEF InHands
  <1>4. Counted'
    BY <1>1, <1>2, <1>3 DEF Counted
  <1>5. Listed'
    BY <1>1, <1>2, ListedKept
  <1>6. Staged'
    BY <1>1, <1>2 DEF Staged
  <1> QED BY <1>2, <1>4, <1>5, <1>6 DEF PipelineInv, Beginning, Sorting, InsteadOfSort

\* grep hands its match on: sort has the pipe open.
LEMMA GrepWrites ==
    ASSUME PipesShape, PipelineInv, place["sort"] \in Sorting,
           WritePipe("grep", "writing", "fd1", "grepping")
    PROVE  PipelineInv'
  <1>1. Staged /\ Listed /\ Counted
    BY DEF PipelineInv
  <1>2. place["grep"] = "writing"
    BY DEF WritePipe, Goes, Finish
  <1>3. OpenEnds("fd1", "READ") # {}
    <2>1. <<"sort", "fd1", "READ">> \in open
      BY <1>1, <1>2 DEF Staged
    <2> QED BY <2>1 DEF OpenEnds
  <1>4. /\ place'["grep"] = "grepping" /\ place'["ls"] = place["ls"] /\ place'["sort"] = place["sort"]
        /\ piped'["fd1"] = piped["fd1"] \o Head(todo["grep"]) /\ piped'["fd2"] = piped["fd2"]
        /\ todo'["ls"] = todo["ls"] /\ UNCHANGED <<open, received>>
    BY <1>3, PipelineMembers DEF WritePipe, Goes, PipesShape
  <1>5. Listed'
    BY <1>1, <1>4, ListedKept
  <1>6. Staged'
    BY <1>1, <1>2, <1>4 DEF Staged
  <1>7. todo["grep"] = <<<<"match">>>> /\ piped["fd1"] \in Seq({"match"})
        /\ received["sort"] \in Seq({"match"})
    BY <1>1, <1>2 DEF Counted
  <1>8. piped'["fd1"] = piped["fd1"] \o <<"match">>
    BY <1>4, <1>7
  <1>9. piped'["fd1"] \in Seq({"match"}) /\ Len(piped'["fd1"]) = Len(piped["fd1"]) + 1
        /\ Len(piped["fd1"]) \in Nat
        /\ Len(received["sort"]) \in Nat
    BY <1>7, <1>8
  <1>10. InHands = 1 /\ InHands' = 0
    BY <1>2, <1>4 DEF InHands
  <1>11. Counted'
    <2>1. Cardinality(Matches(received["grep"])) = Len(received["sort"]) + Len(piped["fd1"]) + 1
      BY <1>1, <1>10 DEF Counted
    <2>2. Cardinality(Matches(received'["grep"])) = Len(received'["sort"]) + Len(piped'["fd1"]) + InHands'
      <3>1. Len(received'["sort"]) = Len(received["sort"])
            /\ Matches(received'["grep"]) = Matches(received["grep"])
        BY <1>4
      <3> DEFINE in_sort == Len(received["sort"])
                 in_pipe == Len(piped["fd1"])
      <3>2. in_sort \in Nat /\ in_pipe \in Nat /\ in_sort' = in_sort /\ in_pipe' = in_pipe + 1
        BY <1>4, <1>9
      <3>3. in_sort' + in_pipe' + InHands' = in_sort + in_pipe + 1
        <4> HIDE DEF in_sort, in_pipe
        <4> QED BY <1>10, <3>2
      <3> QED BY <2>1, <3>1, <3>3
    <2> QED BY <1>4, <1>7, <1>9, <2>2 DEF Counted
  <1> QED BY <1>2, <1>4, <1>5, <1>6, <1>11 DEF PipelineInv, Beginning, Sorting, InsteadOfSort

LEMMA PipelineStep ==
    ASSUME PipesShape, PipelineInv, p4
    PROVE  PipelineInv'
  <1>1. CASE place["sort"] \in InsteadOfSort
    BY <1>1, PipelineOtherwise
  <1>2. CASE place["sort"] \in Beginning
    <2>1. \A p \in Pipeline : place[p] \in {"start", "fork_ls", "unborn"}
      BY <1>2 DEF PipelineInv, Pipeline, Beginning
    <2>2. \A p \in Pipeline : ~LsPart(p) /\ ~GrepPart(p)
      BY <2>1 DEF LsPart, GrepPart, ClosePipe, WritePipe, ReadPipe, Finish, Goes
    <2> QED BY <1>2, <2>2, PipelineBegins DEF p4
  <1>3. CASE place["sort"] \in Sorting
    <2>1. CASE SortPart
      <3>1. ~(\/ MakePipes("sort", "start", {"fd2"}, "fork_ls")
              \/ ForkPipes("sort", "ls", "fork_ls", "close2", "ls", "ls"))
        BY <1>3 DEF MakePipes, ForkPipes, Goes, Sorting
      <3> QED BY <1>3, <2>1, <3>1, SortCloses, SortForks, SortReads DEF SortPart
    <2>2. ASSUME NEW p \in Pipeline, LsPart(p)
          PROVE  PipelineInv'
      <3>1. place[p] \in {"ls", "exec_ls", "listing"}
        BY <2>2 DEF LsPart, ClosePipe, WritePipe, Finish, Goes
      <3>2. p = "ls"
        BY <1>3, <3>1 DEF PipelineInv, Pipeline, Sorting
      <3>3. LsPart("ls")
        BY <2>2, <3>2
      <3> QED BY <1>3, <3>3, LsCloses, LsLists, LsWrites DEF LsPart
    <2>3. ASSUME NEW p \in Pipeline, GrepPart(p)
          PROVE  PipelineInv'
      <3>1. place[p] \in {"grep", "grepping", "matching", "writing", "grepped"}
        BY <2>3 DEF GrepPart, ClosePipe, WritePipe, ReadPipe, Finish, Goes
      <3>2. p = "grep"
        BY <1>3, <3>1 DEF PipelineInv, Pipeline, Sorting
      <3>3. GrepPart("grep")
        BY <2>3, <3>2
      <3> QED BY <1>3, <3>3, GrepCloses, GrepReads, GrepMatches, GrepWrites DEF GrepPart
    <2> QED BY <2>1, <2>2, <2>3 DEF p4
  <1> QED BY <1>1, <1>2, <1>3 DEF PipelineInv

\* With grep gone and the pipes empty all of the listing has been read, and its matches.
LEMMA SortHasAll ==
    ASSUME PipelineInv, place["sort"] = "sorted"
    PROVE  received["sort"] = [g \in 1 .. Cardinality(Matches(received["ls"])) |-> "match"]
  <1> DEFINE S == {"match", "other"}
             r == received["grep"]
             l == received["ls"]
             o == received["sort"]
  <1>1. Staged /\ Listed /\ Counted
    BY DEF PipelineInv, Sorting
  <1>2. /\ place["grep"] = "ended" /\ piped["fd1"] = << >> /\ piped["fd2"] = << >> /\ todo["ls"] = << >>
    BY <1>1 DEF Staged
  <1>3. r \in Seq(S) /\ l \in Seq(S) /\ o \in Seq({"match"})
    BY <1>1 DEF Listed, Counted
  <1>4. Lines = r
    <2> HIDE DEF S, r
    <2>1. r \o << >> = r
      BY <1>3
    <2> QED BY <1>2, <2>1 DEF Lines, r
  <1>5. Len(r) = Len(l) /\ \A g \in 1 .. Len(r) : r[g] = l[g]
    <2>1. Len(Lines) + Len(todo["ls"]) = Len(l) /\ \A g \in 1 .. Len(Lines) : Lines[g] = l[g]
      BY <1>1 DEF Listed
    <2>2. Len(todo["ls"]) = 0 /\ Len(Lines) \in Nat
      BY <1>1, <1>2, LinesTyped
    <2> HIDE DEF r, l
    <2> QED BY <1>4, <2>1, <2>2
  <1>6. r = l
    <2> HIDE DEF S, r, l
    <2> QED BY <1>3, <1>5, SeqEqual
  <1>7. Cardinality(Matches(r)) = Len(o)
    <2>1. InHands = 0
      BY <1>2 DEF InHands
    <2>2. Cardinality(Matches(r)) = Len(o) + Len(piped["fd1"]) + InHands
      BY <1>1 DEF Counted
    <2>3. Len(piped["fd1"]) = 0 /\ Len(o) \in Nat
      BY <1>2, <1>3
    <2> QED BY <2>1, <2>2, <2>3
  <1>8. o = [g \in 1 .. Len(o) |-> "match"]
    <2> HIDE DEF o
    <2> QED BY <1>3
  <1> QED BY <1>6, <1>7, <1>8

\* Where each program's processes stand.
PipesInv ==
    /\ program \in PipesPrograms /\ PipesShape
    /\ program \in SumPrograms => SumInv
    /\ program = "prob05/p2a" => PairInv
    /\ program = "prob05/p4" => PipelineInv
    /\ program = "prob05/p06" => FifoInv
    /\ program # "prob05/p06" => <<"reader", "fifo", "READ">> \notin open

\* What one opens or forks gives the reader nothing.
LEMMA ReaderIsAway ==
    ASSUME <<"reader", "fifo", "READ">> \notin open,
           NEW p \in Pair \cup Pipeline, NEW q \in Pair \cup Pipeline,
           NEW from, NEW to, NEW f, NEW end, NEW other, NEW failed,
           \/ ClosePipe(p, from, f, end, to) \/ Finish(p, from, to) \/ WritePipe(p, from, f, to)
           \/ ReadPipe(p, from, f, to, other) \/ MakePipes(p, from, f, to)
           \/ ForkPipes(p, q, from, to, other, failed)
    PROVE  <<"reader", "fifo", "READ">> \notin open'
  <1>1. p # "reader" /\ q # "reader"
    BY DEF Pair, Pipeline
  <1>2. CASE ClosePipe(p, from, f, end, to) \/ Finish(p, from, to) \/ WritePipe(p, from, f, to)
             \/ ReadPipe(p, from, f, to, other)
    BY <1>2 DEF ClosePipe, Finish, WritePipe, ReadPipe, Close
  <1>3. CASE MakePipes(p, from, f, to)
    BY <1>1, <1>3 DEF MakePipes
  <1>4. CASE ForkPipes(p, q, from, to, other, failed)
    BY <1>1, <1>4 DEF ForkPipes
  <1> QED BY <1>2, <1>3, <1>4

LEMMA ReaderStaysAway ==
    ASSUME <<"reader", "fifo", "READ">> \notin open, SumAndDifference \/ p2a \/ p4
    PROVE  <<"reader", "fifo", "READ">> \notin open'
  <1>1. CASE SumAndDifference
    BY <1>1, ReaderIsAway DEF SumAndDifference, Pair
  <1>2. CASE p2a
    BY <1>2, ReaderIsAway DEF p2a, FatherOfTwo, SonOfTwo, Pair
  <1>3. CASE SortPart
    BY <1>3, ReaderIsAway DEF SortPart, Pipeline
  <1>4. ASSUME NEW p \in Pipeline, LsPart(p) \/ GrepPart(p)
        PROVE  <<"reader", "fifo", "READ">> \notin open'
    BY <1>4, ReaderIsAway DEF LsPart, GrepPart
  <1> QED BY <1>1, <1>2, <1>3, <1>4 DEF p4

LEMMA PipesInvInitially == program \in PipesPrograms /\ PipesInit => PipesInv
  <1>1. PipesInit => <<"reader", "fifo", "READ">> \notin open
    BY DEF PipesInit
  <1> QED BY <1>1, PipesInitShape, SumInitially, PairInitially, PipelineInitially, FifoInitially
      DEF PipesInv

LEMMA PipesInvStep == PipesInv /\ [PipesNext]_<<program, pipes_vars>> => PipesInv'
  <1> SUFFICES ASSUME PipesInv, [PipesNext]_<<program, pipes_vars>> PROVE PipesInv'
    OBVIOUS
  <1>1. PipesShape' /\ program' = program /\ program \in PipesPrograms
    BY PipesKeepShape DEF PipesInv, PipesNext
  <1>2. CASE UNCHANGED <<program, pipes_vars>>
    <2>1. SumInv => SumInv'
      BY <1>2 DEF SumInv, Typed, pipes_vars
    <2>2. PairInv => PairInv'
      BY <1>2 DEF PairInv, pipes_vars
    <2>3. Staged => Staged'
      BY <1>2 DEF Staged, pipes_vars
    <2>4. PipelineInv => PipelineInv'
      BY <1>2, <2>3, ListedKept, CountedKept DEF PipelineInv, pipes_vars
    <2>5. \A w \in Writers : /\ StillToWrite(w) => StillToWrite(w)'
                             /\ Delivered(w) => Delivered(w)'
      BY <1>2 DEF StillToWrite, Delivered, Stream, pipes_vars
    <2>6. FifoInv => FifoInv'
      BY <1>2, <2>5 DEF FifoInv, pipes_vars
    <2>7. open' = open
      BY <1>2 DEF pipes_vars
    <2> QED BY <1>1, <2>1, <2>2, <2>4, <2>6, <2>7 DEF PipesInv
  <1>3. CASE program \in SumPrograms /\ SumAndDifference
    BY <1>1, <1>3, SumStep, ReaderStaysAway DEF PipesInv, SumPrograms
  <1>4. CASE p2a
    BY <1>1, <1>4, PairStep, ReaderStaysAway DEF PipesInv, SumPrograms, p2a
  <1>5. CASE p4
    BY <1>1, <1>5, PipelineStep, ReaderStaysAway DEF PipesInv, SumPrograms, p4
  <1>6. CASE p06
    BY <1>1, <1>6, FifoStep DEF PipesInv, SumPrograms, p06
  <1> QED
    BY <1>2, <1>3, <1>4, <1>5, <1>6 DEF PipesNext, p1a_pipe, p1b_pipe, p1c, SumPrograms

\* However many messages and lines there are, and however the processes and the failures
\* of fork interleave: the son prints what was typed in, the father of p2a what his son
\* answers, sort gets every match once, and the reader of the named pipe each writer's
\* messages in order (prob05/p1a.c, p2a.c, p4.c, p06a1.c).
THEOREM ReadersGetWhatIsWritten == PipesSpec => []WhatIsWrittenArrives
  <1>1. PipesInv => WhatIsWrittenArrives
    <2> SUFFICES ASSUME PipesInv PROVE WhatIsWrittenArrives
      OBVIOUS
    <2>1. (program \in SumPrograms /\ place["son"] = "ended") => received["son"] = <<Typed>>
      BY DEF PipesInv, SumInv
    <2>2. (program = "prob05/p2a" /\ place["father"] = "ended" /\ place["son"] # "unborn") =>
              received["father"] = <<"sums", "products">>
      BY DEF PipesInv, PairInv
    <2>3. (program = "prob05/p4" /\ place["sort"] = "sorted") =>
              received["sort"] = [g \in 1 .. Cardinality(Matches(received["ls"])) |-> "match"]
      BY SortHasAll DEF PipesInv
    <2>4. FifoDelivers
      <3>1. CASE program = "prob05/p06"
        BY <3>1, FifoInvDelivers DEF PipesInv
      <3>2. CASE program # "prob05/p06"
        BY <3>2 DEF PipesInv, FifoDelivers
      <3> QED BY <3>1, <3>2
    <2> QED BY <2>1, <2>2, <2>3, <2>4 DEF WhatIsWrittenArrives, PipesDeliver
  <1> QED BY <1>1, PipesInvInitially, PipesInvStep, PTL DEF PipesSpec

\* Who may have an end to write open: in p1a to p1c nobody that reads,
SumHolders ==
    /\ \A e \in open : e[1] \in Pair /\ e = <<e[1], e[2], e[3]>>
    /\ place["father"] # "unborn"
    /\ <<"father", "fd", "WRITE">> \in open => place["father"] \notin {"read", "ended", "killed"}
    /\ <<"son", "fd", "WRITE">> \in open => place["son"] = "son"

\* in p2a neither the end each reads from nor, once it has ended, any;
PairHolders ==
    /\ \A e \in open : e[1] \in Pair /\ e = <<e[1], e[2], e[3]>>
    /\ place["father"] # "unborn"
    /\ <<"father", "fd", "WRITE">> \in open =>
           place["father"] \notin {"read", "read1", "ended", "killed"}
    /\ <<"father", "fd1", "WRITE">> \in open =>
           place["father"] \notin {"write", "close2", "read", "read1", "ended", "killed"}
    /\ <<"son", "fd", "WRITE">> \in open => place["son"] = "son"
    /\ <<"son", "fd1", "WRITE">> \in open => place["son"] \notin {"unborn", "ended", "killed"}

\* in p4 those who list and those who match, whichever process does it; and to read those
\* who have still to close it, or do read;
PipelineHolders ==
    /\ \A e \in open : e[1] \in Pipeline /\ e = <<e[1], e[2], e[3]>>
    /\ <<"sort", "fd2", "WRITE">> \in open =>
           place["sort"] \in {"fork_ls", "close2", "ls", "exec_ls", "listing"}
    /\ <<"sort", "fd1", "WRITE">> \in open =>
           place["sort"] \in {"fork_grep", "close1", "grep", "grepping", "matching", "writing", "grepped"}
    /\ <<"ls", "fd2", "WRITE">> \in open => place["ls"] \in {"ls", "exec_ls", "listing"}
    /\ <<"grep", "fd1", "WRITE">> \in open =>
           place["grep"] \in {"grep", "grepping", "matching", "writing", "grepped"}
    /\ <<"grep", "fd2", "WRITE">> \notin open /\ <<"ls", "fd1", "WRITE">> \notin open
    /\ <<"sort", "fd2", "READ">> \in open =>
           place["sort"] \in {"fork_ls", "close2", "pipe1", "fork_grep", "close1", "close3", "ls",
                             "grep", "grepping", "matching", "writing", "grepped"}
    /\ <<"sort", "fd1", "READ">> \in open =>
           place["sort"] \in {"fork_grep", "close1", "close3", "sorting", "sorted", "grep"}
    /\ <<"ls", "fd2", "READ">> \in open => place["ls"] = "ls"
    /\ <<"ls", "fd1", "READ">> \notin open
    /\ <<"grep", "fd2", "READ">> \in open =>
           place["grep"] \in {"grep", "grepping", "matching", "writing", "grepped"}
    /\ <<"grep", "fd1", "READ">> \in open => place["grep"] = "grep"

\* of the named pipe the writers until they are gone, and nobody opens it in vain.
FifoHolders ==
    /\ \A e \in open : e[1] \in Users /\ e = <<e[1], "fifo", e[3]>>
    /\ <<"reader", "fifo", "WRITE">> \notin open
    /\ \A w \in Writers : <<w, "fifo", "WRITE">> \in open => place[w] \in {"opening", "opened"}
    /\ place["reader"] = "opening" => \A e \in open : e[3] # "WRITE"
    /\ \A w \in Writers : place[w] = "opening" => \A e \in open : e[3] # "READ"
    /\ place["writer_b1"] # "opening"

\* The ends that pipe makes.
LEMMA NewEnds ==
    ASSUME NEW p, NEW fs, NEW ends, NEW e \in {p} \X fs \X ends
    PROVE  e = <<e[1], e[2], e[3]>> /\ e[1] = p /\ e[2] \in fs /\ e[3] \in ends
  OBVIOUS

LEMMA HoldersInitially == PipesInit => SumHolders /\ PairHolders /\ PipelineHolders /\ FifoHolders
  <1> SUFFICES ASSUME PipesInit PROVE SumHolders /\ PairHolders /\ PipelineHolders /\ FifoHolders
    OBVIOUS
  <1>1. open = {} /\ place["father"] = "start" /\ \A w \in Writers : place[w] = "open"
    BY DEF PipesInit, Everybody, Pair, Pipeline, Users, Writers
  <1> QED BY <1>1 DEF SumHolders, PairHolders, PipelineHolders, FifoHolders, Writers

\* A step of one process moves nobody else, and only fork and pipe make ends.
LEMMA SumHoldersStep ==
    ASSUME PipesShape, SumHolders, SumAndDifference
    PROVE  SumHolders'
  <1> USE DEF SumHolders, PipesShape, Goes
  <1>0. {"father", "son"} \subseteq Everybody /\ Pair = {"father", "son"}
    BY DEF Everybody, Pair
  <1>1. CASE MakePipes("father", "start", {"fd"}, "fork")
    BY <1>0, <1>1 DEF MakePipes
  <1>2. CASE ForkPipes("father", "son", "fork", "close", "son", "son")
    BY <1>0, <1>2 DEF ForkPipes
  <1>3. CASE ClosePipe("father", "close", "fd", "READ", "write")
    BY <1>0, <1>3 DEF ClosePipe, Close
  <1>4. CASE WritePipe("father", "write", "fd", "end")
    BY <1>0, <1>4 DEF WritePipe, Finish, Close
  <1>5. ASSUME NEW p \in Pair, ClosePipe(p, "son", "fd", "WRITE", "read")
        PROVE  SumHolders'
    BY <1>0, <1>5 DEF ClosePipe, Close
  <1>6. ASSUME NEW p \in Pair, ReadPipe(p, "read", "fd", "end", "end")
        PROVE  SumHolders'
    BY <1>0, <1>6 DEF ReadPipe
  <1>7. ASSUME NEW p \in Pair, Finish(p, "end", "ended")
        PROVE  SumHolders'
    BY <1>0, <1>7 DEF Finish, Close
  <1> QED
    BY <1>1, <1>2, <1>3, <1>4, <1>5, <1>6, <1>7 DEF SumAndDifference

LEMMA PairHoldersStep ==
    ASSUME PipesShape, PairHolders, FatherOfTwo \/ SonOfTwo
    PROVE  PairHolders'
  <1> USE DEF PairHolders, PipesShape, Goes
  <1>0. {"father", "son"} \subseteq Everybody /\ Pair = {"father", "son"}
    BY DEF Everybody, Pair
  <1>1. CASE MakePipes("father", "start", {"fd", "fd1"}, "fork")
    BY <1>0, <1>1 DEF MakePipes
  <1>2. CASE ForkPipes("father", "son", "fork", "close", "son", "end")
    BY <1>0, <1>2 DEF ForkPipes
  <1>3. CASE \/ ClosePipe("father", "close", "fd", "READ", "close1")
             \/ ClosePipe("father", "close1", "fd1", "WRITE", "write")
    BY <1>0, <1>3 DEF ClosePipe, Close
  <1>4. CASE WritePipe("father", "write", "fd", "close2")
    BY <1>0, <1>4 DEF WritePipe, Finish, Close
  <1>5. CASE ReadPipe("father", "read", "fd1", "read1", "read1")
             \/ ReadPipe("father", "read1", "fd1", "end", "end")
    BY <1>0, <1>5 DEF ReadPipe
  <1>6. CASE Finish("father", "end", "ended")
    BY <1>0, <1>6 DEF Finish, Close
  <1>7. CASE \/ ClosePipe("son", "son", "fd", "WRITE", "son1")
             \/ ClosePipe("son", "son1", "fd1", "READ", "read")
             \/ ClosePipe("son", "close", "fd", "READ", "sums")
    BY <1>0, <1>7 DEF ClosePipe, Close
  <1>8. CASE ReadPipe("son", "read", "fd", "close", "close")
    BY <1>0, <1>8 DEF ReadPipe
  <1>9. CASE WritePipe("son", "sums", "fd1", "products") \/ WritePipe("son", "products", "fd1", "end")
    BY <1>0, <1>9 DEF WritePipe, Finish, Close
  <1>10. CASE Finish("son", "end", "ended")
    BY <1>0, <1>10 DEF Finish, Close
  <1>11. CASE ClosePipe("father", "close2", "fd", "WRITE", "read")
    BY <1>0, <1>11 DEF ClosePipe, Close
  <1> QED
    BY <1>1, <1>2, <1>3, <1>4, <1>5, <1>6, <1>7, <1>8, <1>9, <1>10, <1>11 DEF FatherOfTwo, SonOfTwo

\* A part that is done with an end closes it before it goes on to another part.
LEMMA PipelineHoldersStep ==
    ASSUME PipesShape, PipelineHolders, p4
    PROVE  PipelineHolders'
  <1> USE DEF PipelineHolders, PipesShape, Goes
  <1>0. {"sort", "ls", "grep"} \subseteq Everybody /\ Pipeline = {"sort", "ls", "grep"}
    BY DEF Everybody, Pipeline
  <1>1. CASE MakePipes("sort", "start", {"fd2"}, "fork_ls")
             \/ MakePipes("sort", "pipe1", {"fd1"}, "fork_grep")
    BY <1>0, <1>1 DEF MakePipes
  <1>2. CASE ForkPipes("sort", "ls", "fork_ls", "close2", "ls", "ls")
    <2>1. ASSUME place["sort"] = "fork_ls", place' = [place EXCEPT !["sort"] = "close2", !["ls"] = "ls"],
                 open' = open \cup {<<"ls", e[2], e[3]>> : e \in {e \in open : e[1] = "sort"}}
          PROVE  PipelineHolders'
      <3>1. /\ place'["sort"] = "close2" /\ place'["ls"] = "ls" /\ place'["grep"] = place["grep"]
            /\ <<"sort", "fd1", "WRITE">> \notin open /\ <<"sort", "fd1", "READ">> \notin open
        BY <1>0, <2>1
      <3>2. ASSUME NEW e \in open'
            PROVE  \/ e \in open
                   \/ /\ e[1] = "ls" /\ e = <<"ls", e[2], e[3]>>
                      /\ \E d \in open : d[1] = "sort" /\ d[2] = e[2] /\ d[3] = e[3]
        BY <2>1, <3>2
      <3>3. ASSUME NEW d \in open
            PROVE  d = <<d[1], d[2], d[3]>>
        BY <3>3
      <3>4. \A end \in {"READ", "WRITE"} : <<"ls", "fd1", end>> \notin open'
        BY <3>1, <3>2, <3>3
      <3>5. \A e \in open' : e[1] \in Pipeline /\ e = <<e[1], e[2], e[3]>>
        BY <1>0, <3>2
      <3>6. \A f \in {"fd1", "fd2"}, end \in {"READ", "WRITE"}, p \in {"sort", "grep"} :
                <<p, f, end>> \in open' => <<p, f, end>> \in open
        BY <3>2
      <3> QED BY <3>1, <3>4, <3>5, <3>6
    <2>2. CASE Goes("sort", "fork_ls", "ls") /\ UNCHANGED open
      BY <1>0, <2>2
    <2> QED BY <1>2, <2>1, <2>2 DEF ForkPipes
  <1>3. CASE ForkPipes("sort", "grep", "fork_grep", "close1", "grep", "grep")
    <2>1. ASSUME place["sort"] = "fork_grep", place' = [place EXCEPT !["sort"] = "close1", !["grep"] = "grep"],
                 open' = open \cup {<<"grep", e[2], e[3]>> : e \in {e \in open : e[1] = "sort"}}
          PROVE  PipelineHolders'
      <3>1. /\ place'["sort"] = "close1" /\ place'["grep"] = "grep" /\ place'["ls"] = place["ls"]
            /\ <<"sort", "fd2", "WRITE">> \notin open
        BY <1>0, <2>1
      <3>2. ASSUME NEW e \in open'
            PROVE  \/ e \in open
                   \/ /\ e[1] = "grep" /\ e = <<"grep", e[2], e[3]>>
                      /\ \E d \in open : d[1] = "sort" /\ d[2] = e[2] /\ d[3] = e[3]
        BY <2>1, <3>2
      <3>3. ASSUME NEW d \in open
            PROVE  d = <<d[1], d[2], d[3]>>
        BY <3>3
      <3>4. <<"grep", "fd2", "WRITE">> \notin open'
        BY <3>1, <3>2, <3>3
      <3>5. \A e \in open' : e[1] \in Pipeline /\ e = <<e[1], e[2], e[3]>>
        BY <1>0, <3>2
      <3>6. \A f \in {"fd1", "fd2"}, end \in {"READ", "WRITE"}, p \in {"sort", "ls"} :
                <<p, f, end>> \in open' => <<p, f, end>> \in open
        BY <3>2
      <3> QED BY <3>1, <3>4, <3>5, <3>6
    <2>2. CASE Goes("sort", "fork_grep", "grep") /\ UNCHANGED open
      BY <1>0, <2>2
    <2> QED BY <1>3, <2>1, <2>2 DEF ForkPipes
  <1>4. CASE ClosePipe("sort", "close2", "fd2", "WRITE", "pipe1")
    BY <1>0, <1>4 DEF ClosePipe, Close
  <1>5. CASE ClosePipe("sort", "close1", "fd1", "WRITE", "close3")
    BY <1>0, <1>5 DEF ClosePipe, Close
  <1>6. CASE ClosePipe("sort", "close3", "fd2", "READ", "sorting")
    BY <1>0, <1>6 DEF ClosePipe, Close
  <1>7. CASE ReadPipe("sort", "sorting", "fd1", "sorting", "sorted")
    BY <1>0, <1>7 DEF ReadPipe
  <1>8. ASSUME NEW p \in Pipeline, NEW from, NEW to, Finish(p, from, to)
        PROVE  PipelineHolders'
    BY <1>0, <1>8 DEF Finish, Close
  <1>9. ASSUME NEW p \in Pipeline, LsPart(p)
        PROVE  PipelineHolders'
    <2>1. CASE ClosePipe(p, "ls", "fd2", "READ", "exec_ls")
      BY <1>0, <2>1 DEF ClosePipe, Close
    <2>2. CASE Goes(p, "exec_ls", "listing") /\ UNCHANGED open
      BY <1>0, <2>2
    <2>3. CASE WritePipe(p, "listing", "fd2", "listing")
      <3>1. CASE Goes(p, "listing", "listing") /\ UNCHANGED open
        BY <1>0, <3>1
      <3> QED BY <2>3, <3>1, <1>8 DEF WritePipe
    <2> QED BY <1>9, <2>1, <2>2, <2>3, <1>8 DEF LsPart
  <1>10. ASSUME NEW p \in Pipeline, GrepPart(p)
         PROVE  PipelineHolders'
    <2>1. CASE ClosePipe(p, "grep", "fd1", "READ", "grepping")
      BY <1>0, <2>1 DEF ClosePipe, Close
    <2>2. ASSUME NEW from \in {"grepping", "matching", "writing"},
                 NEW to \in {"grepping", "matching", "writing", "grepped"},
                 Goes(p, from, to), UNCHANGED open
          PROVE  PipelineHolders'
      BY <1>0, <2>2
    <2>3. CASE ReadPipe(p, "grepping", "fd2", "matching", "grepped")
      BY <2>2, <2>3 DEF ReadPipe
    <2>4. CASE WritePipe(p, "writing", "fd1", "grepping")
      <3>1. CASE Goes(p, "writing", "grepping") /\ UNCHANGED open
        BY <2>2, <3>1
      <3> QED BY <2>4, <3>1, <1>8 DEF WritePipe
    <2> QED BY <1>10, <2>1, <2>2, <2>3, <2>4, <1>8 DEF GrepPart
  <1> QED
    BY <1>0, <1>1, <1>2, <1>3, <1>4, <1>5, <1>6, <1>7, <1>8, <1>9, <1>10 DEF p4, SortPart

\* Whoever opens the named pipe wakes those that wait for what it opens.
LEMMA FifoHoldersStep ==
    ASSUME PipesShape, FifoHolders, p06a1 \/ p06a2 \/ p06b1
    PROVE  FifoHolders'
  <1>0. /\ Users \subseteq Everybody /\ Users = {"reader", "writer_a2", "writer_b1"}
        /\ Writers = {"writer_a2", "writer_b1"}
    BY DEF Everybody, Users, Writers
  <1>1. CASE mkfifo \/ readline
    BY <1>0, <1>1 DEF mkfifo, readline, ReadPipe, FifoHolders, PipesShape, Goes
  <1>2. ASSUME NEW p \in Users, NEW from \in {"opened", "closing"}, NEW to \in {"ended", "killed"},
               Finish(p, from, to)
        PROVE  FifoHolders'
    BY <1>0, <1>2 DEF Finish, Close, FifoHolders, PipesShape, Goes
  <1>3. ASSUME NEW w \in Writers, SendMessages(w)
        PROVE  FifoHolders'
    <2>1. CASE Goes(w, "opened", "opened") /\ UNCHANGED open
      BY <1>0, <2>1 DEF FifoHolders, PipesShape, Goes
    <2> QED BY <1>0, <1>2, <1>3, <2>1 DEF SendMessages, WritePipe
  <1>4. ASSUME NEW p \in Users, NEW ends \in SUBSET {"READ", "WRITE"}, OpenFifo(p, ends),
               p = "reader" => ends = {"READ"}, p = "writer_b1" => ends = {"READ", "WRITE"}
        PROVE  FifoHolders'
    <2>1. /\ place[p] = "open" /\ open' = open \cup {p} \X {"fifo"} \X ends
          /\ \A e \in open' : e \in open \/ (e[1] = p /\ e = <<p, "fifo", e[3]>> /\ e[3] \in ends)
      <3>1. place[p] = "open" /\ open' = open \cup {p} \X {"fifo"} \X ends
        BY <1>4 DEF OpenFifo
      <3>2. \A e \in {p} \X {"fifo"} \X ends : e = <<p, "fifo", e[3]>> /\ e[1] = p /\ e[3] \in ends
        BY NewEnds
      <3> QED BY <3>1, <3>2
    <2>2. ASSUME NEW q \in Users
          PROVE  /\ q # p /\ place[q] # "opening" => place'[q] = place[q]
                 /\ place'[q] # place[q] => place'[q] \in {"opening", "opened"}
                 /\ place'[q] = "opening" =>
                        /\ q = p \/ place[q] = "opening"
                        /\ \A e \in open' : e[2] = "fifo" => e[3] # (IF q = "reader" THEN "WRITE" ELSE "READ")
      BY <1>0, <1>4, <2>1, <2>2 DEF OpenFifo
    <2>3. \A e \in open' : e[1] \in Users /\ e = <<e[1], "fifo", e[3]>>
      BY <2>1 DEF FifoHolders
    <2>4. <<"reader", "fifo", "WRITE">> \notin open'
      BY <1>4, <2>1 DEF FifoHolders
    <2>5. ASSUME NEW w \in Writers, <<w, "fifo", "WRITE">> \in open'
          PROVE  place'[w] \in {"opening", "opened"}
      <3>1. CASE w = p
        BY <1>0, <1>4, <2>1, <3>1 DEF OpenFifo
      <3>2. CASE w # p
        BY <1>0, <2>1, <2>2, <2>5, <3>2 DEF FifoHolders
      <3> QED BY <3>1, <3>2
    <2>6. place'["writer_b1"] # "opening"
      <3>1. CASE p = "writer_b1"
        <4>1. <<"writer_b1", "fifo", "READ">> \in open'
          BY <1>4, <2>1, <3>1
        <4> QED BY <1>0, <2>2, <4>1
      <3>2. CASE p # "writer_b1"
        BY <1>0, <2>2, <3>2 DEF FifoHolders
      <3> QED BY <3>1, <3>2
    <2> QED BY <1>0, <2>2, <2>3, <2>4, <2>5, <2>6 DEF FifoHolders
  <1>5. CASE OpenFifo("reader", {"READ"}) \/ OpenFifo("writer_a2", {"WRITE"})
             \/ OpenFifo("writer_b1", {"READ", "WRITE"})
    BY <1>0, <1>4, <1>5
  <1> QED BY <1>0, <1>1, <1>2, <1>3, <1>5 DEF p06a1, p06a2, p06b1

LEMMA WhoTakesPart ==
    /\ program \in SumPrograms \cup {"prob05/p2a"} => Taking = Pair
    /\ program = "prob05/p4" => Taking = Pipeline
    /\ program = "prob05/p06" => Taking = Users
    /\ Pair \subseteq Everybody /\ Pipeline \subseteq Everybody /\ Users \subseteq Everybody
  BY DEF Taking, SumPrograms, PipesPrograms, Everybody

\* A blocked reader has somebody to write to it, in p1a to p1c one that does not read;
LEMMA SumGoesOn ==
    ASSUME SumHolders, program \in SumPrograms
    PROVE  SomebodyGoesOn
  <1> SUFFICES ASSUME \A p \in Working \cap Taking : Waits(p), NEW q \in Working \cap Taking
               PROVE  FALSE
    BY DEF SomebodyGoesOn
  <1>1. \A p \in Working \cap Taking : place[p] = "read" /\ BlocksOn("fd")
    BY DEF Waits, SumPrograms
  <1>2. PICK e \in open : e[1] \in Pair /\ e = <<e[1], "fd", "WRITE">>
    BY <1>1 DEF BlocksOn, OpenEnds, SumHolders
  <1>3. CASE e[1] = "father"
    <2>1. place["father"] \notin {"unborn", "read", "ended", "killed"}
      BY <1>2, <1>3 DEF SumHolders
    <2> QED BY <1>1, <2>1, WhoTakesPart DEF Working, Pair
  <1>4. CASE e[1] = "son"
    <2>1. place["son"] = "son"
      BY <1>2, <1>4 DEF SumHolders
    <2> QED BY <1>1, <2>1, WhoTakesPart DEF Working, Pair
  <1> QED BY <1>2, <1>3, <1>4 DEF Pair

\* in p2a the son, or the father before he reads;
LEMMA PairGoesOn ==
    ASSUME PairHolders, program = "prob05/p2a"
    PROVE  SomebodyGoesOn
  <1> SUFFICES ASSUME \A p \in Working \cap Taking : Waits(p), NEW q \in Working \cap Taking
               PROVE  FALSE
    BY DEF SomebodyGoesOn
  <1>1. Taking = {"father", "son"} /\ {"father", "son"} \subseteq Everybody
    BY WhoTakesPart DEF Pair
  <1>2. "father" \in Working => place["father"] \in {"read", "read1"} /\ BlocksOn("fd1")
    BY <1>1 DEF Waits, SumPrograms
  <1>3. "son" \in Working => place["son"] = "read" /\ BlocksOn("fd")
    BY <1>1 DEF Waits, SumPrograms
  <1>4. "son" \notin Working
    <2> SUFFICES ASSUME "son" \in Working PROVE FALSE
      OBVIOUS
    <2>1. PICK e \in open : e[1] \in Pair /\ e = <<e[1], "fd", "WRITE">>
      BY <1>3 DEF BlocksOn, OpenEnds, PairHolders
    <2>2. <<"son", "fd", "WRITE">> \notin open
      BY <1>3 DEF PairHolders
    <2>3. <<"father", "fd", "WRITE">> \in open
      BY <2>1, <2>2 DEF Pair
    <2>4. place["father"] \notin {"unborn", "read", "read1", "ended", "killed"}
      BY <2>3 DEF PairHolders
    <2> QED BY <1>1, <1>2, <2>4 DEF Working
  <1>5. "father" \in Working
    BY <1>1, <1>4
  <1>6. PICK e \in open : e[1] \in Pair /\ e = <<e[1], "fd1", "WRITE">>
    BY <1>2, <1>5 DEF BlocksOn, OpenEnds, PairHolders
  <1>7. <<"father", "fd1", "WRITE">> \notin open
    BY <1>2, <1>5 DEF PairHolders
  <1>8. <<"son", "fd1", "WRITE">> \in open
    BY <1>6, <1>7 DEF Pair
  <1>9. "son" \in Working
    BY <1>1, <1>8 DEF PairHolders, Working
  <1> QED BY <1>4, <1>9

\* in p4 one that matches or lists, and he that lists reads no pipe;
LEMMA PipelineGoesOn ==
    ASSUME PipelineHolders, program = "prob05/p4"
    PROVE  SomebodyGoesOn
  <1> SUFFICES ASSUME \A p \in Working \cap Taking : Waits(p), NEW q \in Working \cap Taking
               PROVE  FALSE
    BY DEF SomebodyGoesOn
  <1>1. Taking = {"sort", "ls", "grep"} /\ {"sort", "ls", "grep"} \subseteq Everybody
    BY WhoTakesPart DEF Pipeline
  <1>2. ASSUME NEW p \in Taking, p \in Working
        PROVE  \/ place[p] = "sorting" /\ BlocksOn("fd1")
               \/ place[p] = "grepping" /\ BlocksOn("fd2")
               \/ place[p] = "listing" /\ ~Room("fd2")
               \/ place[p] = "writing" /\ ~Room("fd1")
    BY <1>2 DEF Waits, SumPrograms
  <1>3. ASSUME NEW f, ~Room(f)
        PROVE  ~BlocksOn(f) /\ \E e \in open : e[2] = f /\ e[3] = "READ"
    <2>1. CASE piped[f] = << >>
      BY <1>3, <2>1, PipesAssumption DEF Room
    <2>2. CASE piped[f] # << >>
      BY <1>3, <2>2 DEF Room, BlocksOn, OpenEnds
    <2> QED BY <2>1, <2>2
  <1>4. ASSUME NEW p \in Pipeline, place[p] \notin {"unborn", "ended", "killed"}
        PROVE  p \in Taking /\ p \in Working
    BY <1>1, <1>4 DEF Working, Pipeline
  <1>5. Room("fd1")
    <2> SUFFICES ASSUME ~Room("fd1") PROVE FALSE
      OBVIOUS
    <2>1. PICK e \in open : e[1] \in Pipeline /\ e = <<e[1], "fd1", "READ">>
      BY <1>3 DEF PipelineHolders
    <2>2. place[e[1]] \in {"fork_grep", "close1", "close3", "sorting", "sorted", "grep"}
      <3>1. CASE e[1] = "sort"
        BY <2>1, <3>1 DEF PipelineHolders
      <3>2. CASE e[1] = "ls"
        BY <2>1, <3>2 DEF PipelineHolders
      <3>3. CASE e[1] = "grep"
        BY <2>1, <3>3 DEF PipelineHolders
      <3> QED BY <2>1, <3>1, <3>2, <3>3 DEF Pipeline
    <2>3. e[1] \in Taking /\ e[1] \in Working
      BY <1>4, <2>1, <2>2
    <2> QED BY <1>2, <1>3, <2>2, <2>3
  <1>6. Room("fd2")
    <2> SUFFICES ASSUME ~Room("fd2") PROVE FALSE
      OBVIOUS
    <2>1. PICK e \in open : e[1] \in Pipeline /\ e = <<e[1], "fd2", "READ">>
      BY <1>3 DEF PipelineHolders
    <2>2. place[e[1]] \in {"fork_ls", "close2", "pipe1", "fork_grep", "close1", "close3", "ls",
                          "grep", "grepping", "matching", "writing", "grepped"}
      <3>1. CASE e[1] = "sort"
        BY <2>1, <3>1 DEF PipelineHolders
      <3>2. CASE e[1] = "ls"
        BY <2>1, <3>2 DEF PipelineHolders
      <3>3. CASE e[1] = "grep"
        BY <2>1, <3>3 DEF PipelineHolders
      <3> QED BY <2>1, <3>1, <3>2, <3>3 DEF Pipeline
    <2>3. e[1] \in Taking /\ e[1] \in Working
      BY <1>4, <2>1, <2>2
    <2> QED BY <1>2, <1>3, <1>5, <2>2, <2>3
  <1>7. ~BlocksOn("fd2")
    <2> SUFFICES ASSUME BlocksOn("fd2") PROVE FALSE
      OBVIOUS
    <2>1. PICK e \in open : e[1] \in Pipeline /\ e = <<e[1], "fd2", "WRITE">>
      BY DEF BlocksOn, OpenEnds, PipelineHolders
    <2>2. place[e[1]] \in {"fork_ls", "close2", "ls", "exec_ls", "listing"}
      <3>1. CASE e[1] = "sort"
        BY <2>1, <3>1 DEF PipelineHolders
      <3>2. CASE e[1] = "ls"
        BY <2>1, <3>2 DEF PipelineHolders
      <3>3. CASE e[1] = "grep"
        BY <2>1, <3>3 DEF PipelineHolders
      <3> QED BY <2>1, <3>1, <3>2, <3>3 DEF Pipeline
    <2>3. e[1] \in Taking /\ e[1] \in Working
      BY <1>4, <2>1, <2>2
    <2> QED BY <1>2, <1>6, <2>2, <2>3
  <1>8. ~BlocksOn("fd1")
    <2> SUFFICES ASSUME BlocksOn("fd1") PROVE FALSE
      OBVIOUS
    <2>1. PICK e \in open : e[1] \in Pipeline /\ e = <<e[1], "fd1", "WRITE">>
      BY DEF BlocksOn, OpenEnds, PipelineHolders
    <2>2. place[e[1]] \in {"fork_grep", "close1", "grep", "grepping", "matching", "writing", "grepped"}
      <3>1. CASE e[1] = "sort"
        BY <2>1, <3>1 DEF PipelineHolders
      <3>2. CASE e[1] = "ls"
        BY <2>1, <3>2 DEF PipelineHolders
      <3>3. CASE e[1] = "grep"
        BY <2>1, <3>3 DEF PipelineHolders
      <3> QED BY <2>1, <3>1, <3>2, <3>3 DEF Pipeline
    <2>3. e[1] \in Taking /\ e[1] \in Working
      BY <1>4, <2>1, <2>2
    <2> QED BY <1>2, <1>5, <1>7, <2>2, <2>3
  <1> QED BY <1>2, <1>5, <1>6, <1>7, <1>8

\* and of the named pipe only the first to come waits, with nobody else left.
LEMMA FifoGoesOn ==
    ASSUME FifoHolders, FifoInv, program = "prob05/p06"
    PROVE  SomebodyGoesOn
  <1> SUFFICES ASSUME \A p \in Working \cap Taking : Waits(p), Working \cap Taking # {}
               PROVE  \E p \in {"reader", "writer_a2"} :
                          Working \cap Taking = {p} /\ place[p] = "opening"
    BY DEF SomebodyGoesOn
  <1>1. /\ Taking = {"reader", "writer_a2", "writer_b1"} /\ Taking \subseteq Everybody
        /\ Writers = {"writer_a2", "writer_b1"}
    BY WhoTakesPart DEF Users, Writers
  <1>2. ASSUME NEW p \in Taking, p \in Working
        PROVE  \/ place[p] = "opening"
               \/ p = "reader" /\ place[p] = "opened" /\ BlocksOn("fifo")
    BY <1>2 DEF Waits, SumPrograms
  <1>3. "writer_b1" \notin Working
    BY <1>1, <1>2 DEF FifoHolders
  <1>4. CASE "writer_a2" \in Working
    <2>1. place["writer_a2"] = "opening"
      BY <1>1, <1>2, <1>4
    <2>2. \A e \in open : e[3] # "READ"
      BY <1>1, <2>1 DEF FifoHolders
    <2>3. place["reader"] \notin {"opening", "opened"}
      BY <2>2 DEF FifoInv
    <2>4. "reader" \notin Working
      BY <1>1, <1>2, <2>3
    <2> QED BY <1>1, <1>3, <1>4, <2>1, <2>4
  <1>5. CASE "writer_a2" \notin Working
    <2>1. Working \cap Taking = {"reader"}
      BY <1>1, <1>3, <1>5
    <2>2. ~BlocksOn("fifo")
      <3> SUFFICES ASSUME BlocksOn("fifo") PROVE FALSE
        OBVIOUS
      <3>1. PICK e \in open : e[1] \in Users /\ e = <<e[1], "fifo", "WRITE">>
        BY DEF BlocksOn, OpenEnds, FifoHolders
      <3>2. e[1] \in Writers
        BY <3>1 DEF FifoHolders, Users
      <3>3. place[e[1]] \in {"opening", "opened"}
        BY <3>1, <3>2 DEF FifoHolders
      <3>4. e[1] \in Working
        BY <1>1, <3>2, <3>3 DEF Working
      <3> QED BY <1>1, <1>3, <1>5, <3>2, <3>4
    <2> QED BY <1>1, <1>2, <2>1, <2>2
  <1> QED BY <1>4, <1>5

\* Each program's ends are in its own hands.
HoldersInv ==
    /\ program \in SumPrograms => SumHolders
    /\ program = "prob05/p2a" => PairHolders
    /\ program = "prob05/p4" => PipelineHolders
    /\ program = "prob05/p06" => FifoHolders

LEMMA HoldersInvStep ==
    ASSUME PipesInv, HoldersInv, [PipesNext]_<<program, pipes_vars>>
    PROVE  HoldersInv'
  <1>1. PipesShape /\ program' = program
    BY DEF PipesInv, PipesNext
  <1>2. CASE UNCHANGED <<program, pipes_vars>>
    BY <1>2 DEF HoldersInv, SumHolders, PairHolders, PipelineHolders, FifoHolders, pipes_vars
  <1>3. CASE program \in SumPrograms /\ SumAndDifference
    BY <1>1, <1>3, SumHoldersStep DEF HoldersInv, SumPrograms
  <1>4. CASE p2a
    BY <1>1, <1>4, PairHoldersStep DEF HoldersInv, SumPrograms, p2a
  <1>5. CASE program = "prob05/p4" /\ p4
    BY <1>1, <1>5, PipelineHoldersStep DEF HoldersInv, SumPrograms
  <1>6. CASE p06
    BY <1>1, <1>6, FifoHoldersStep DEF HoldersInv, SumPrograms, p06
  <1>7. p4 => program = "prob05/p4"
    BY DEF p4
  <1> QED
    BY <1>2, <1>3, <1>4, <1>5, <1>6, <1>7 DEF PipesNext, p1a_pipe, p1b_pipe, p1c, SumPrograms

\* In no program that uses pipes do all that are at work wait for one another to close an
\* end, to write or to make room, whatever ls prints, however little the pipes of p4 hold,
\* however much is sent and whichever fork fails; only one that opens the named pipe last
\* stays behind (prob05/p4.c:18-33, p2a.c, p06a1.c:15, p06a2.c:15).
THEOREM PipesAreClosedInTime == PipesSpec => []SomebodyGoesOn
  <1>1. program \in PipesPrograms /\ PipesInit => PipesInv /\ HoldersInv
    BY PipesInvInitially, HoldersInitially DEF HoldersInv
  <1>2. PipesInv /\ HoldersInv /\ [PipesNext]_<<program, pipes_vars>> => PipesInv' /\ HoldersInv'
    BY PipesInvStep, HoldersInvStep
  <1>3. PipesInv /\ HoldersInv => SomebodyGoesOn
    BY SumGoesOn, PairGoesOn, PipelineGoesOn, FifoGoesOn
    DEF PipesInv, HoldersInv, PipesPrograms
  <1> QED BY <1>1, <1>2, <1>3, PTL DEF PipesSpec
=============================================================================
