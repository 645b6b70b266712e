--------------------------- MODULE SyncLogProofs ---------------------------
(***************************************************************************)
(* The queue of the server and its log.  First the linked list of          *)
(* list_queue.h: it is well linked whatever is pushed and popped, for any  *)
(* set of addresses and values, and what its nodes hold is a queue.  Then  *)
(* main and the offices around it: with any number of offices, requests    *)
(* and addresses they serve the requests in order, and slog.txt tells the  *)
(* locks and the wake-ups as they were.                                    *)
(***************************************************************************)
EXTENDS SyncLog, FiniteSetTheorems, SequenceTheorems, WellFoundedInduction, TLAPS

ListInv == ListTypeOK /\ WellLinked

\* The values along a chain, from head to back.
Along(c) == [i \in 1 .. size |-> stored[c[i]]]

-----------------------------------------------------------------------------
\* Pushing onto a list whose nodes are c makes one whose nodes are c and the new one:
\* when `back` is followed it is the last node (list_queue.h:24-31).
LEMMA PushChain ==
    ASSUME ListTypeOK, NEW v \in Values, list_queue_push(v),
           NEW c \in [1 .. size -> Addresses], IsChain(c)
    PROVE  \E d \in [1 .. size' -> Addresses] :
               IsChain(d)' /\ Along(d)' = Append(Along(c), v)
<1>1. PICK a \in Addresses \ allocated :
          /\ allocated' = allocated \cup {a}
          /\ stored' = [stored EXCEPT ![a] = v]
          /\ back' = a /\ size' = size + 1
          /\ \/ head = NULL /\ head' = a /\ next' = [next EXCEPT ![a] = NULL]
             \/ head # NULL /\ head' = head /\ next' = [next EXCEPT ![a] = NULL, ![back] = a]
  BY DEF list_queue_push
<1>2. size \in Nat
  BY DEF ListTypeOK
<1>0. PICK d \in [1 .. size + 1 -> Addresses] :
          d = [i \in 1 .. size + 1 |-> IF i = size + 1 THEN a ELSE c[i]]
  <2>1. \A i \in 1 .. size + 1 : i = size + 1 \/ c[i] \in Addresses
    BY <1>2
  <2>2. [i \in 1 .. size + 1 |-> IF i = size + 1 THEN a ELSE c[i]] \in [1 .. size + 1 -> Addresses]
    BY <2>1
  <2> QED BY <2>2
<1>3. \A i \in 1 .. size : d[i] = c[i] /\ c[i] \in allocated /\ c[i] # a
  BY <1>0, <1>1, <1>2 DEF IsChain
<1>4. d[size + 1] = a /\ size + 1 \in 1 .. size + 1
  BY <1>0, <1>2
<1>5. head = NULL <=> size = 0
  BY <1>2, NullAssumption DEF IsChain
<1>6. \A i, j \in 1 .. size + 1 : d[i] = d[j] => i = j
  BY <1>2, <1>3, <1>4 DEF IsChain
<1>7. allocated' = {d[i] : i \in 1 .. size + 1}
  <2>1. {d[i] : i \in 1 .. size + 1} = {d[i] : i \in 1 .. size} \cup {a}
    BY <1>2, <1>4
  <2>2. {d[i] : i \in 1 .. size} = {c[i] : i \in 1 .. size}
    BY <1>3
  <2> QED BY <1>1, <2>1, <2>2 DEF IsChain
<1>8. head' = d[1]
  <2>1. CASE size = 0
    BY <2>1, <1>1, <1>4, <1>5
  <2>2. CASE size # 0
    BY <2>2, <1>1, <1>2, <1>3, <1>5 DEF IsChain
  <2> QED BY <2>1, <2>2
<1>9. \A i \in 1 .. size + 1 : next'[d[i]] = IF i = size + 1 THEN NULL ELSE d[i + 1]
  <2>1. CASE size = 0
    BY <2>1, <1>1, <1>2, <1>4, <1>5 DEF ListTypeOK
  <2>2. CASE size # 0
    <3>1. back = c[size] /\ size \in 1 .. size
      BY <2>2, <1>2 DEF IsChain
    <3>2. next' = [next EXCEPT ![a] = NULL, ![c[size]] = a]
      BY <2>2, <3>1, <1>1, <1>5
    <3>3. next'[a] = NULL
      BY <3>1, <3>2, <1>1, <1>3 DEF ListTypeOK
    <3>4. next'[c[size]] = a
      BY <3>1, <3>2, <1>3 DEF ListTypeOK
    <3>5. ASSUME NEW i \in 1 .. size, i # size PROVE next'[c[i]] = c[i + 1]
      <4>1. c[i] # a /\ c[i] # c[size]
        BY <3>5, <3>1, <1>3 DEF IsChain
      <4> QED BY <3>5, <3>2, <4>1 DEF IsChain, ListTypeOK
    <3>6. ASSUME NEW i \in 1 .. size + 1 PROVE next'[d[i]] = IF i = size + 1 THEN NULL ELSE d[i + 1]
      <4>1. CASE i = size + 1
        BY <4>1, <3>3, <1>4
      <4>2. CASE i = size
        BY <4>2, <3>1, <3>4, <1>2, <1>3, <1>4
      <4>3. CASE i \in 1 .. size /\ i # size
        <5>1. i + 1 \in 1 .. size
          BY <4>3, <1>2
        <5> QED BY <4>3, <5>1, <3>5, <1>2, <1>3
      <4> QED BY <4>1, <4>2, <4>3, <1>2
    <3> QED BY <3>6
  <2> QED BY <2>1, <2>2
<1>10. IsChain(d)'
  <2>1. size' = size + 1 /\ size' # 0 /\ back' = d[size']
    BY <1>1, <1>2, <1>4
  <2>2. allocated' = {d[i] : i \in 1 .. size'}
    BY <2>1, <1>7
  <2> QED BY <2>1, <2>2, <1>6, <1>8, <1>9 DEF IsChain
<1>11. Along(d)' = Append(Along(c), v)
  <2>1. Along(c) \in Seq(Values) /\ Len(Along(c)) = size
    BY <1>2 DEF Along, ListTypeOK
  <2>2. Append(Along(c), v) = [i \in 1 .. size + 1 |-> IF i = size + 1 THEN v ELSE stored[c[i]]]
    BY <2>1, <1>2 DEF Along
  <2>3. \A i \in 1 .. size + 1 : stored'[d[i]] = IF i = size + 1 THEN v ELSE stored[c[i]]
    BY <1>1, <1>2, <1>3, <1>4 DEF ListTypeOK
  <2> QED BY <2>2, <2>3, <1>1 DEF Along
<1> QED BY <1>1, <1>2, <1>10, <1>11

\* Popping takes the first node off and no other; `back` stays the last node of what is
\* left, or is not looked at any more (list_queue.h:34-41).
LEMMA PopChain ==
    ASSUME ListTypeOK, list_queue_pop, head # NULL,
           NEW c \in [1 .. size -> Addresses], IsChain(c)
    PROVE  \E d \in [1 .. size' -> Addresses] :
               IsChain(d)' /\ Along(d)' = Tail(Along(c)) /\ Along(c) # << >>
<1>1. /\ head' = next[head] /\ size' = size - 1
      /\ allocated' = allocated \ {head}
      /\ back' = back /\ next' = next /\ stored' = stored
  BY DEF list_queue_pop, list_vars
<1>2. size \in Nat /\ size # 0 /\ head = c[1] /\ 1 \in 1 .. size
  BY DEF IsChain, ListTypeOK
<1>3. size - 1 \in Nat /\ \A i \in 1 .. size - 1 : i + 1 \in 1 .. size
  BY <1>2
<1>0. PICK d \in [1 .. size - 1 -> Addresses] : d = [i \in 1 .. size - 1 |-> c[i + 1]]
  BY <1>3
<1>4. \A i \in 1 .. size - 1 : i + 1 \in 1 .. size /\ d[i] = c[i + 1]
  BY <1>0, <1>3
<1>5. \A i, j \in 1 .. size - 1 : d[i] = d[j] => i = j
  BY <1>2, <1>4 DEF IsChain
<1>6. allocated' = {d[i] : i \in 1 .. size - 1}
  <2>1. ASSUME NEW x PROVE x \in allocated' <=> x \in {d[i] : i \in 1 .. size - 1}
    <3>1. ASSUME x \in allocated' PROVE \E i \in 1 .. size - 1 : x = d[i]
      <4>1. PICK i \in 1 .. size : x = c[i]
        BY <3>1, <1>1 DEF IsChain
      <4>2. i # 1
        BY <3>1, <4>1, <1>1, <1>2
      <4>3. i - 1 \in 1 .. size - 1 /\ d[i - 1] = c[i]
        BY <4>1, <4>2, <1>2, <1>4
      <4> QED BY <4>1, <4>3
    <3>2. ASSUME NEW i \in 1 .. size - 1, x = d[i] PROVE x \in allocated'
      <4>1. x \in allocated /\ x # c[1]
        BY <3>2, <1>2, <1>4 DEF IsChain
      <4> QED BY <4>1, <1>1, <1>2
    <3> QED BY <3>1, <3>2
  <2> QED BY <2>1
<1>7. head' = IF size - 1 = 0 THEN NULL ELSE d[1]
  BY <1>1, <1>2, <1>4 DEF IsChain
<1>8. size - 1 # 0 => back = d[size - 1]
  BY <1>2, <1>4 DEF IsChain
<1>9. \A i \in 1 .. size - 1 : next[d[i]] = IF i = size - 1 THEN NULL ELSE d[i + 1]
  BY <1>2, <1>4 DEF IsChain
<1>10. IsChain(d)'
  BY <1>1, <1>3, <1>5, <1>6, <1>7, <1>8, <1>9 DEF IsChain
<1>11. Along(d)' = Tail(Along(c)) /\ Along(c) # << >>
  <2>1. Along(c) \in Seq(Values) /\ Len(Along(c)) = size
    BY <1>2 DEF Along, ListTypeOK
  <2>2. Tail(Along(c)) = [i \in 1 .. size - 1 |-> Along(c)[i + 1]]
    <3> DEFINE s == Along(c)
    <3>1. s \in Seq(Values) /\ Len(s) = size
      BY <2>1
    <3> HIDE DEF s
    <3>2. s # << >>
      BY <3>1, <1>2
    <3>3. /\ Tail(s) \in Seq(Values) /\ Len(Tail(s)) = size - 1
          /\ \A i \in 1 .. size - 1 : Tail(s)[i] = s[i + 1]
      BY <3>1, <3>2, HeadTailProperties
    <3>4. Tail(s) \in [1 .. size - 1 -> Values]
      BY <3>3, LenProperties
    <3>5. Tail(s) = [i \in 1 .. size - 1 |-> s[i + 1]]
      BY <3>3, <3>4
    <3> QED BY <3>5 DEF s
  <2>3. \A i \in 1 .. size - 1 : Along(c)[i + 1] = stored'[d[i]]
    <3>1. SUFFICES ASSUME NEW i \in 1 .. size - 1 PROVE Along(c)[i + 1] = stored'[d[i]]
      OBVIOUS
    <3>2. i + 1 \in 1 .. size /\ d[i] = c[i + 1] /\ stored' = stored
      BY <1>1, <1>4
    <3> QED BY <3>2 DEF Along
  <2>4. Along(d)' = [i \in 1 .. size - 1 |-> stored'[d[i]]]
    BY <1>1 DEF Along
  <2>5. Along(c) # << >>
    BY <2>1, <1>2
  <2>6. [i \in 1 .. size - 1 |-> Along(c)[i + 1]] = [i \in 1 .. size - 1 |-> stored'[d[i]]]
    BY <2>3
  <2> QED BY <2>2, <2>4, <2>5, <2>6
<1> QED BY <1>1, <1>3, <1>10, <1>11

-----------------------------------------------------------------------------
\* The empty list is well linked.
LEMMA ListInitInv == ListInit => ListInv
<1> SUFFICES ASSUME ListInit PROVE ListInv
  OBVIOUS
<1>1. ListTypeOK
  BY ValuesAssumption DEF ListInit, ListTypeOK, Pointers
<1> DEFINE c == [i \in 1 .. size |-> NULL]
<1>2. c \in [1 .. size -> Addresses] /\ IsChain(c)
  BY DEF ListInit, IsChain
<1> QED BY <1>1, <1>2 DEF ListInv, WellLinked

\* A push keeps the types.
LEMMA PushTyped ==
    ASSUME ListTypeOK, NEW v \in Values, list_queue_push(v) PROVE ListTypeOK'
BY DEF list_queue_push, ListTypeOK, Pointers

\* So does a pop.
LEMMA PopTyped ==
    ASSUME ListInv, list_queue_pop PROVE ListTypeOK'
<1>1. CASE head = NULL
  BY <1>1 DEF list_queue_pop, list_vars, ListInv, ListTypeOK
<1>2. CASE head # NULL
  <2>1. size # 0
    BY <1>2 DEF ListInv, WellLinked, IsChain
  <2> QED BY <1>2, <2>1 DEF list_queue_pop, ListInv, ListTypeOK, Pointers
<1> QED BY <1>1, <1>2

\* Every step keeps the list well linked.
LEMMA ListStepInv == ListInv /\ [ListNext]_list_vars => ListInv'
<1> SUFFICES ASSUME ListInv, [ListNext]_list_vars PROVE ListInv'
  OBVIOUS
<1>0. PICK c \in [1 .. size -> Addresses] : IsChain(c)
  BY DEF ListInv, WellLinked
<1>1. ASSUME NEW v \in Values, list_queue_push(v) PROVE ListInv'
  BY <1>0, <1>1, PushTyped, PushChain DEF ListInv, WellLinked
<1>2. ASSUME list_queue_pop, head # NULL PROVE ListInv'
  BY <1>0, <1>2, PopTyped, PopChain DEF ListInv, WellLinked
<1>3. ASSUME UNCHANGED list_vars PROVE ListInv'
  BY <1>3 DEF ListInv, ListTypeOK, WellLinked, IsChain, list_vars
<1>4. list_queue_pop /\ head = NULL => UNCHANGED list_vars
  BY DEF list_queue_pop
<1> QED BY <1>1, <1>2, <1>3, <1>4 DEF ListNext

\* The list is well linked and well typed whatever is pushed and popped
\* (list_queue.h:20-54), and every address malloc may give.
THEOREM ListIsWellLinked == ListSpec => []WellLinked
<1>1. ListSpec => []ListInv
  BY ListInitInv, ListStepInv, PTL DEF ListSpec
<1> QED BY <1>1, PTL DEF ListInv

\* Type correctness of the list's pointers and size (list_queue.h:6-18).
THEOREM ListIsTyped == ListSpec => []ListTypeOK
<1>1. ListSpec => []ListInv
  BY ListInitInv, ListStepInv, PTL DEF ListSpec
<1> QED BY <1>1, PTL DEF ListInv

\* Each step of the list does to the values along its nodes what a queue does, and
\* links what it leaves.
LEMMA ListSimulatesFifo ==
    ASSUME ListInv, ListNext, NEW c \in [1 .. size -> Addresses], IsChain(c)
    PROVE  \E d \in [1 .. size' -> Addresses] :
               /\ IsChain(d)'
               /\ \/ \E v \in Values : Along(d)' = Append(Along(c), v)
                  \/ Along(c) # << >> /\ Along(d)' = Tail(Along(c))
                  \/ Along(d)' = Along(c)
<1>1. ASSUME NEW v \in Values, list_queue_push(v)
      PROVE  \E d \in [1 .. size' -> Addresses] : IsChain(d)' /\ Along(d)' = Append(Along(c), v)
  BY <1>1, PushChain DEF ListInv
<1>2. ASSUME list_queue_pop, head # NULL
      PROVE  \E d \in [1 .. size' -> Addresses] :
                 IsChain(d)' /\ Along(d)' = Tail(Along(c)) /\ Along(c) # << >>
  BY <1>2, PopChain DEF ListInv
<1>3. ASSUME list_queue_pop, head = NULL
      PROVE  size' = size /\ IsChain(c)' /\ Along(c)' = Along(c)
  BY <1>3 DEF list_queue_pop, list_vars, IsChain, Along
<1> QED BY <1>1, <1>2, <1>3 DEF ListNext

-----------------------------------------------------------------------------
(* The refinement.  `chain` is CHOOSEn, so that a step tells something of it   *)
(* only if no state has two chains: induction along the list, by the first     *)
(* place where two chains differ.                                              *)

\* A set of natural numbers that is not empty has a least element.
LEMMA LeastNat ==
    ASSUME NEW T, T \subseteq Nat, T # {}
    PROVE  \E x \in T : \A y \in T : x <= y
<1>. DEFINE R == OpToRel(<, Nat)
<1>1. IsWellFoundedOn(R, Nat)
  BY NatLessThanWellFounded
<1>2. \A x, y \in Nat : <<y, x>> \in R <=> y < x
  BY DEF OpToRel
<1>. HIDE DEF R
<1>3. \E x \in T : \A y \in T : ~ (<<y, x>> \in R)
  BY <1>1, WFMin
<1>4. PICK x \in T : \A y \in T : ~ (<<y, x>> \in R)
  BY <1>3
<1>5. ASSUME NEW y \in T PROVE x <= y
  <2>1. x \in Nat /\ y \in Nat
    OBVIOUS
  <2>2. ~(y < x)
    BY <1>2, <1>4, <2>1
  <2>. QED
    BY <2>1, <2>2
<1>. QED
  BY <1>5

\* head and `next` determine the list.
LEMMA OneChain ==
    \A c, d \in [1 .. size -> Addresses] :
        ListTypeOK /\ IsChain(c) /\ IsChain(d) => c = d
<1>. SUFFICES ASSUME NEW c \in [1 .. size -> Addresses], NEW d \in [1 .. size -> Addresses],
                     ListTypeOK, IsChain(c), IsChain(d)
              PROVE  c = d
  OBVIOUS
<1>0. c = [i \in 1 .. size |-> c[i]] /\ d = [i \in 1 .. size |-> d[i]]
  OBVIOUS
<1>1. SUFFICES ASSUME \E i \in 1 .. size : c[i] # d[i] PROVE FALSE
  <2>1. ASSUME \A i \in 1 .. size : c[i] = d[i]
        PROVE  [i \in 1 .. size |-> c[i]] = [i \in 1 .. size |-> d[i]]
    BY <2>1
  <2>. QED
    BY <1>0, <2>1, Zenon
<1>. DEFINE Differ == {i \in 1 .. size : c[i] # d[i]}
<1>d. Differ # {}
  BY <1>1
<1>2. size \in Nat /\ Differ \subseteq Nat
  BY DEF ListTypeOK
<1>3. PICK m \in Differ : \A i \in Differ : m <= i
  <2>. HIDE DEF Differ
  <2>. QED
    BY <1>d, <1>2, LeastNat
<1>4. m \in 1 .. size /\ c[m] # d[m]
  OBVIOUS
<1>5. CASE m = 1
  BY <1>2, <1>4, <1>5 DEF IsChain
<1>6. CASE m # 1
  <2>1. m - 1 \in 1 .. size /\ m - 1 # size /\ ~(m <= m - 1) /\ (m - 1) + 1 = m
    BY <1>2, <1>4, <1>6
  <2>2. c[m - 1] = d[m - 1]
    BY <1>3, <2>1
  <2>3. next[c[m - 1]] = c[m] /\ next[d[m - 1]] = d[m]
    BY <2>1 DEF IsChain
  <2>. QED
    BY <1>4, <2>2, <2>3
<1>. QED
  BY <1>5, <1>6

\* What WellLinked says there is, `chain` is.
LEMMA ChainIsChain == ListInv => chain \in [1 .. size -> Addresses] /\ IsChain(chain)
BY DEF chain, ListInv, WellLinked

\* The same of the state a step leads to.
LEMMA ChainNext ==
    /\ (\A c, d \in [1 .. size -> Addresses] :
           ListTypeOK /\ IsChain(c) /\ IsChain(d) => c = d)'
    /\ (ListInv => chain \in [1 .. size -> Addresses] /\ IsChain(chain))'
BY OneChain, ChainIsChain, PTL

\* The queue FifoQueue is given is what the nodes hold from head to back.

LEMMA InitIsFifo == ListInit => Fifo!QueueInit
<1>. SUFFICES ASSUME ListInit PROVE [i \in 1 .. size |-> stored[chain[i]]] = << >>
  BY DEF Fifo!QueueInit
<1>1. size = 0
  BY DEF ListInit
<1>. QED
  BY <1>1

\* Whatever pushes and pops do to the nodes, what they hold behaves as a queue
\* (list_queue.h:20-41).
THEOREM ListImplementsFifo == ListSpec => ImplementsFifo
<1>1. ListInv /\ ListInv' /\ [ListNext]_list_vars
        => [Fifo!Enqueue \/ Fifo!Dequeue]_[i \in 1 .. size |-> stored[chain[i]]]
  <2>. SUFFICES ASSUME ListInv, ListInv', [ListNext]_list_vars
                PROVE  [Fifo!Enqueue \/ Fifo!Dequeue]_[i \in 1 .. size |-> stored[chain[i]]]
    OBVIOUS
  <2>1. chain \in [1 .. size -> Addresses] /\ IsChain(chain)
    BY ChainIsChain
  <2>2. PICK c \in [1 .. size -> Addresses] : c = chain
    BY <2>1
  <2>3. IsChain(c)
    BY <2>1, <2>2
  <2>4. Along(c) = [i \in 1 .. size |-> stored[chain[i]]]
    BY <2>2 DEF Along
  <2>5. ASSUME NEW d \in [1 .. size' -> Addresses], IsChain(d)'
        PROVE  Along(d)' = [i \in 1 .. size |-> stored[chain[i]]]'
    <3>1. chain' \in [1 .. size' -> Addresses] /\ IsChain(chain)'
      BY ChainNext
    <3>2. d = chain'
      BY <2>5, <3>1, ChainNext DEF ListInv
    <3>. QED
      BY <3>2 DEF Along
  <2>6. CASE ListNext
    <3>1. PICK d \in [1 .. size' -> Addresses] :
             /\ IsChain(d)'
             /\ \/ \E v \in Values : Along(d)' = Append(Along(c), v)
                \/ Along(c) # << >> /\ Along(d)' = Tail(Along(c))
                \/ Along(d)' = Along(c)
      BY <2>3, <2>6, ListSimulatesFifo
    <3>2. Along(d)' = [i \in 1 .. size |-> stored[chain[i]]]'
      BY <2>5, <3>1
    <3>. QED
      BY <2>4, <3>1, <3>2 DEF Fifo!Enqueue, Fifo!Dequeue
  <2>7. CASE UNCHANGED list_vars
    <3>1. UNCHANGED <<size, stored>> /\ IsChain(c)'
      BY <2>3, <2>7 DEF list_vars, IsChain
    <3>2. Along(c)' = Along(c)
      BY <3>1 DEF Along
    <3>3. Along(c)' = [i \in 1 .. size |-> stored[chain[i]]]'
      BY <2>5, <3>1
    <3>. QED
      BY <2>4, <3>2, <3>3
  <2>. QED
    BY <2>6, <2>7
<1>2. ListSpec => []ListInv
  BY ListInitInv, ListStepInv, PTL DEF ListSpec
<1>. QED
  BY <1>1, <1>2, InitIsFifo, PTL DEF ListSpec, ImplementsFifo, Fifo!FifoSpec
-----------------------------------------------------------------------------
(* The log and what it records: what is true between any two steps. *)

\* The statements between the entry of a lock and the unlock.
Busy == {"push", "take", "hold", "delay", "release", "reply"}

\* The thread is between the lock of the mutex and its unlock.
Inside(t) ==
    \/ at[t] = <<"lock", 1>> \/ at[t] = <<"unlock", 0>>
    \/ at[t][1] \in Busy

\* Main has not come to its loop.
Starting == at[MAIN][1] \in {"init", "create", "admin"}

\* The office is on its way to a request that main has posted for.
Fetching(t) == at[t][1] = "lock" \/ at[t] = <<"take", 0>> \/ at[t] = <<"take", 1>>
Collecting == {t \in OfficeIds : at[t][1] = "woken" \/ Fetching(t)}

\* An office has popped a request it has not logged; one keeps the account.
HasPopped == \E t \in OfficeIds : at[t] = <<"take", 2>>
HasAccount == mutex \in OfficeIds /\ at[mutex][1] \in {"delay", "release"}

Popped   == IF HasPopped THEN 1 ELSE 0
Incoming == IF at[MAIN][1] = "lock" \/ at[MAIN][1] = "push" THEN 1 ELSE 0
Unposted == IF at[MAIN][1] = "unlock" \/ at[MAIN][1] = "post" THEN 1 ELSE 0
Posting  == IF at[MAIN] = <<"post", 2>> \/ at[MAIN] = <<"wake", 2>> THEN 1 ELSE 0

Served == log["REQUEST"]
Locks  == log["MUTEX_LOCK"]
Posts  == log["SEM_POST"]

SyncTyped ==
    /\ SyncTypeOK
    /\ arrivals \in Seq(Values) /\ log = [what \in Kept |-> log[what]]
    /\ Locks \in Seq(Threads \X SyncStatements) /\ Served \in Seq(Threads \X Values)
    /\ Posts \in Seq(Threads \X Nat)

Exclusion == \A t \in Threads : Inside(t) <=> mutex = t

Beginning ==
    Starting => /\ sem["main_sem"] = 0 /\ ~close_thread
                /\ \A t \in OfficeIds : at[t][1] \in {"unborn", "loop", "wait"}

Said ==
    \A t \in Threads :
        at[t][1] \in Busy => Locks # << >> /\ Locks[Len(Locks)][1] = t

Account ==
    /\ ~Starting => sem["account"] = IF HasAccount THEN 0 ELSE 1
    /\ \A t \in Threads : /\ at[t] = <<"hold", 1>> => sampled[t] = 1
                          /\ at[t] = <<"release", 1>> => sampled[t] = 0

Posted ==
    sem["main_sem"] + Cardinality(PastMainSem) + Len(Served) + Posting
        <= Cardinality(MainPosts)

Tokens == ~close_thread => sem["main_sem"] + Cardinality(Collecting) + Unposted = size

Closing ==
    /\ at[MAIN][1] \in {"linger", "wake", "join", "exited"} => close_thread
    /\ close_thread => \A t \in OfficeIds : ~Fetching(t)

Order ==
    /\ Len(Served) + Popped + size + Incoming = arrived
    /\ \A i \in 1 .. Len(Served) : Served[i][2] = arrivals[i]
    /\ \E c \in [1 .. size -> Addresses] :
          IsChain(c) /\ \A i \in 1 .. size : stored[c[i]] = arrivals[Len(Served) + Popped + i]
    /\ Incoming = 1 => held[MAIN] = arrivals[arrived]
    /\ \A t \in OfficeIds :
          /\ at[t] = <<"take", 1>> => held[t] = stored[head]
          /\ at[t] = <<"take", 2>> => held[t] = arrivals[Len(Served) + 1]

SyncInv == SyncTyped /\ Exclusion /\ Beginning /\ Said /\ Account /\ Posted /\ Tokens
             /\ Closing /\ Order

USE SyncAssumption

LEMMA Offices ==
    /\ MAIN \in Threads /\ MAIN \notin OfficeIds /\ OfficeIds \subseteq Threads
    /\ NOBODY \notin Threads
    /\ \A t \in Threads : t = MAIN \/ t \in OfficeIds
    /\ \A n \in 0 .. OfficeCount - 1 : n + 1 \in OfficeIds
BY DEF MAIN, Threads, OfficeIds, NOBODY

-----------------------------------------------------------------------------
(* What a step of an office does, one lemma for each part of the state. *)

\* It is a step from a label to a label, and leaves alone what is the others'.
LEMMA OfficeGoes ==
    ASSUME SyncTyped, NEW t \in OfficeIds, OfficeMoves(t)
    PROVE  /\ \E from, to \in SyncLabels : Go(t, from, to)
           /\ UNCHANGED <<arrived, cursor, close_thread>> /\ server_exit' \in BOOLEAN
<1>1. t \in Threads /\ at \in [Threads -> SyncLabels] /\ server_exit \in BOOLEAN
  BY Offices DEF SyncTyped, SyncTypeOK
<1>2. CASE Calls(t)
  BY <1>1, <1>2 DEF Calls, wait_sem, lock_mutex, unlock_mutex, post_sem, sync_delay,
                    log_reply, Record, Sample, work_vars, SyncLabels, SyncStatements
<1>3. CASE AskClose(t)
  BY <1>1, <1>3 DEF AskClose, work_vars, SyncLabels, SyncStatements
<1>4. CASE Take(t)
  BY <1>1, <1>4 DEF Take, log_request, Record, work_vars, SyncLabels, SyncStatements
<1>5. CASE Announce(t)
  BY <1>1, <1>5 DEF Announce, SyncLabels, SyncStatements
<1>. QED
  BY <1>2, <1>3, <1>4, <1>5 DEF OfficeMoves

\* The mutex.
LEMMA OfficeLocks ==
    ASSUME SyncTyped, NEW t \in OfficeIds, OfficeMoves(t)
    PROVE  \/ at[t] = <<"lock", 0>> /\ at'[t] = <<"lock", 1>> /\ mutex = NOBODY /\ mutex' = t
           \/ at[t] = <<"unlock", 0>> /\ at'[t] = <<"unlock", 1>> /\ mutex' = NOBODY
           \/ mutex' = mutex /\ (Inside(t) <=> Inside(t)')
<1>1. t \in Threads /\ at \in [Threads -> SyncLabels]
  BY Offices DEF SyncTyped, SyncTypeOK
<1>2. CASE Calls(t)
  BY <1>1, <1>2 DEF Calls, wait_sem, lock_mutex, unlock_mutex, post_sem, sync_delay,
                    log_reply, Record, Sample, Go, Inside, Busy
<1>3. CASE AskClose(t)
  BY <1>1, <1>3 DEF AskClose, Go, Inside, Busy, call_vars
<1>4. CASE Take(t)
  BY <1>1, <1>4 DEF Take, log_request, Record, Go, Inside, Busy, call_vars
<1>5. CASE Announce(t)
  BY <1>1, <1>5 DEF Announce, Go, Inside, Busy, call_vars
<1>. QED
  BY <1>2, <1>3, <1>4, <1>5 DEF OfficeMoves

\* The log.
LEMMA OfficeLogs ==
    ASSUME SyncTyped, NEW t \in OfficeIds, OfficeMoves(t)
    PROVE  \/ /\ at[t] = <<"lock", 1>> /\ at'[t] = <<"take", 0>>
              /\ log' = [log EXCEPT !["MUTEX_LOCK"] = Append(Locks, <<t, "lock">>)]
           \/ /\ at[t] = <<"take", 2>> /\ at'[t] = <<"hold", 0>>
              /\ log' = [log EXCEPT !["REQUEST"] = Append(Served, <<t, held[t]>>)]
           \/ /\ at[t] = <<"release", 1>> /\ at'[t] = <<"release", 2>>
              /\ log' = [log EXCEPT !["SEM_POST"] = Append(Posts, <<t, sampled[t]>>)]
           \/ /\ log' = log
              /\ at[t] # <<"take", 2>> /\ at'[t] # <<"take", 0>>
<1>1. t \in Threads /\ at \in [Threads -> SyncLabels] /\ log = [what \in Kept |-> log[what]]
  BY Offices DEF SyncTyped, SyncTypeOK
<1>2. CASE Calls(t)
  BY <1>1, <1>2 DEF Calls, wait_sem, lock_mutex, unlock_mutex, post_sem, sync_delay,
                    log_reply, Record, Sample, Go, Enter, Kept, Locks, Posts
<1>3. CASE AskClose(t)
  BY <1>1, <1>3 DEF AskClose, Go, call_vars
<1>4. CASE Take(t)
  BY <1>1, <1>4 DEF Take, log_request, Record, Go, call_vars, Enter, Kept, Served
<1>5. CASE Announce(t)
  BY <1>1, <1>5 DEF Announce, Go, call_vars
<1>. QED
  BY <1>2, <1>3, <1>4, <1>5 DEF OfficeMoves

\* The semaphores.
LEMMA OfficeSems ==
    ASSUME SyncTyped, NEW t \in OfficeIds, OfficeMoves(t)
    PROVE  \/ /\ at[t] = <<"wait", 2>> /\ at'[t] = <<"woken", 0>> /\ sem["main_sem"] > 0
              /\ sem' = [sem EXCEPT !["main_sem"] = @ - 1]
           \/ /\ at[t] = <<"hold", 2>> /\ at'[t] = <<"delay", 0>> /\ sem["account"] > 0
              /\ sem' = [sem EXCEPT !["account"] = @ - 1]
           \/ /\ at[t] = <<"release", 2>> /\ at'[t] = <<"reply", 0>>
              /\ sem' = [sem EXCEPT !["account"] = @ + 1]
           \/ /\ sem' = sem /\ at[t] # <<"wait", 2>>
              /\ (at[t][1] \in {"delay", "release"} <=> at'[t][1] \in {"delay", "release"})
<1>1. t \in Threads /\ at \in [Threads -> SyncLabels]
  BY Offices DEF SyncTyped, SyncTypeOK
<1>2. CASE Calls(t)
  BY <1>1, <1>2 DEF Calls, wait_sem, lock_mutex, unlock_mutex, post_sem, sync_delay,
                    log_reply, Record, Sample, Forget, Go
<1>3. CASE AskClose(t)
  BY <1>1, <1>3 DEF AskClose, Go, call_vars
<1>4. CASE Take(t)
  BY <1>1, <1>4 DEF Take, log_request, Record, Go, call_vars
<1>5. CASE Announce(t)
  BY <1>1, <1>5 DEF Announce, Go, call_vars
<1>. QED
  BY <1>2, <1>3, <1>4, <1>5 DEF OfficeMoves

\* What sem_getvalue gave it.
LEMMA OfficeSamples ==
    ASSUME SyncTyped, NEW t \in OfficeIds, OfficeMoves(t)
    PROVE  \/ /\ at[t] = <<"hold", 0>> /\ at'[t] = <<"hold", 1>>
              /\ sampled' = [sampled EXCEPT ![t] = sem["account"]]
           \/ /\ at[t] = <<"release", 0>> /\ at'[t] = <<"release", 1>>
              /\ sampled' = [sampled EXCEPT ![t] = sem["account"]]
           \/ /\ at'[t] \notin {<<"hold", 1>>, <<"release", 1>>}
              /\ \/ sampled' = [sampled EXCEPT ![t] = sem["main_sem"]]
                 \/ sampled' = [sampled EXCEPT ![t] = 0]
                 \/ sampled' = sampled
<1>1. t \in Threads /\ at \in [Threads -> SyncLabels]
  BY Offices DEF SyncTyped, SyncTypeOK
<1>2. CASE Calls(t)
  BY <1>1, <1>2 DEF Calls, wait_sem, lock_mutex, unlock_mutex, post_sem, sync_delay,
                    log_reply, Record, Sample, Forget, Go
<1>3. CASE AskClose(t)
  BY <1>1, <1>3 DEF AskClose, Go, call_vars
<1>4. CASE Take(t)
  BY <1>1, <1>4 DEF Take, log_request, Record, Go, call_vars
<1>5. CASE Announce(t)
  BY <1>1, <1>5 DEF Announce, Go, call_vars
<1>. QED
  BY <1>2, <1>3, <1>4, <1>5 DEF OfficeMoves

\* The queue, and the request it holds.
LEMMA OfficeTakes ==
    ASSUME SyncTyped, NEW t \in OfficeIds, OfficeMoves(t)
    PROVE  \/ /\ at[t] = <<"take", 0>> /\ at'[t] = <<"take", 1>>
              /\ held' = [held EXCEPT ![t] = stored[head]] /\ UNCHANGED list_vars
           \/ /\ at[t] = <<"take", 1>> /\ at'[t] = <<"take", 2>>
              /\ list_queue_pop /\ held' = held
           \/ /\ at[t] # <<"take", 1>> /\ at'[t] \notin {<<"take", 1>>, <<"take", 2>>}
              /\ UNCHANGED list_vars
              /\ held' = held \/ held' = [held EXCEPT ![t] = SHUTDOWN]
<1>1. t \in Threads /\ at \in [Threads -> SyncLabels]
  BY Offices DEF SyncTyped, SyncTypeOK
<1>2. CASE Calls(t)
  BY <1>1, <1>2 DEF Calls, wait_sem, lock_mutex, unlock_mutex, post_sem, sync_delay,
                    log_reply, Record, Sample, Forget, Go, work_vars
<1>3. CASE AskClose(t)
  BY <1>1, <1>3 DEF AskClose, Go, work_vars
<1>4. CASE Take(t)
  BY <1>1, <1>4 DEF Take, log_request, Record, Go, work_vars, list_queue_front
<1>5. CASE Announce(t)
  BY <1>1, <1>5 DEF Announce, Go
<1>. QED
  BY <1>2, <1>3, <1>4, <1>5 DEF OfficeMoves

\* Its way from main_sem to the queue.
LEMMA OfficeFetches ==
    ASSUME SyncTyped, NEW t \in OfficeIds, OfficeMoves(t)
    PROVE  \/ at[t] = <<"wait", 2>> /\ at'[t] = <<"woken", 0>>
           \/ at[t] = <<"woken", 0>> /\ at'[t] = <<"lock", 0>> /\ ~close_thread
           \/ at[t] = <<"woken", 0>> /\ at'[t] = <<"done", 0>> /\ close_thread
           \/ at[t] = <<"take", 1>> /\ at'[t] = <<"take", 2>>
           \/ at[t] = <<"take", 2>> /\ at'[t] = <<"hold", 0>>
           \/ /\ at[t][1] # "woken" /\ at'[t][1] # "woken"
              /\ at[t][1] \in {"lock", "take"} <=> at'[t][1] \in {"lock", "take"}
              /\ (Fetching(t) <=> Fetching(t)')
              /\ at[t] \notin {<<"wait", 2>>, <<"take", 1>>, <<"take", 2>>}
<1>1. t \in Threads /\ at \in [Threads -> SyncLabels] /\ close_thread \in BOOLEAN
  BY Offices DEF SyncTyped, SyncTypeOK
<1>2. CASE Calls(t)
  BY <1>1, <1>2 DEF Calls, wait_sem, lock_mutex, unlock_mutex, post_sem, sync_delay,
                    log_reply, Record, Sample, Go, Fetching
<1>3. CASE AskClose(t)
  BY <1>1, <1>3 DEF AskClose, Go, Fetching
<1>4. CASE Take(t)
  BY <1>1, <1>4 DEF Take, log_request, Record, Go, Fetching
<1>5. CASE Announce(t)
  BY <1>1, <1>5 DEF Announce, Go, Fetching
<1>. QED
  BY <1>2, <1>3, <1>4, <1>5 DEF OfficeMoves

\* Before it is woken.
LEMMA OfficeWaits ==
    ASSUME SyncTyped, NEW t \in OfficeIds, OfficeMoves(t),
           at[t][1] \in {"unborn", "loop", "wait"}, ~close_thread, at[t] # <<"wait", 2>>
    PROVE  at'[t][1] \in {"loop", "wait"}
<1>1. t \in Threads /\ at \in [Threads -> SyncLabels]
  BY Offices DEF SyncTyped, SyncTypeOK
<1>2. CASE Calls(t)
  BY <1>1, <1>2 DEF Calls, wait_sem, lock_mutex, unlock_mutex, post_sem, sync_delay,
                    log_reply, Record, Sample, Go
<1>3. CASE AskClose(t)
  BY <1>1, <1>3 DEF AskClose, Go
<1>4. CASE Take(t)
  BY <1>1, <1>4 DEF Take, log_request, Record, Go
<1>5. CASE Announce(t)
  BY <1>1, <1>5 DEF Announce, Go
<1>. QED
  BY <1>2, <1>3, <1>4, <1>5 DEF OfficeMoves

\* It comes to be busy where the lock has been entered.
LEMMA OfficeBusy ==
    ASSUME SyncTyped, NEW t \in OfficeIds, OfficeMoves(t), at'[t][1] \in Busy
    PROVE  at[t][1] \in Busy \/ at'[t] = <<"take", 0>>
<1>1. t \in Threads /\ at \in [Threads -> SyncLabels]
  BY Offices DEF SyncTyped, SyncTypeOK
<1>2. CASE Calls(t)
  BY <1>1, <1>2 DEF Calls, wait_sem, lock_mutex, unlock_mutex, post_sem, sync_delay,
                    log_reply, Record, Sample, Go, Busy
<1>3. CASE AskClose(t)
  BY <1>1, <1>3 DEF AskClose, Go, Busy
<1>4. CASE Take(t)
  BY <1>1, <1>4 DEF Take, log_request, Record, Go, Busy
<1>5. CASE Announce(t)
  BY <1>1, <1>5 DEF Announce, Go, Busy
<1>. QED
  BY <1>2, <1>3, <1>4, <1>5 DEF OfficeMoves

-----------------------------------------------------------------------------
(* What a step of main does. *)

\* It goes from a label to a label; or makes an office that is at its loop.
LEMMA MainGoes ==
    ASSUME SyncTyped, MainMoves
    PROVE  /\ \/ \E from, to \in SyncLabels : Go(MAIN, from, to)
              \/ /\ at[MAIN] = <<"create", 0>>
                 /\ at' = [at EXCEPT ![MAIN] = <<"create", 1>>, ![cursor + 1] = <<"loop", 0>>]
           /\ UNCHANGED cursor \/ NextOffice
<1>1. /\ MAIN \in Threads /\ MAIN \notin OfficeIds /\ at \in [Threads -> SyncLabels]
      /\ cursor + 1 \in OfficeIds
        BY Offices DEF SyncTyped, SyncTypeOK
<1>2. CASE MainCalls
  BY <1>1, <1>2 DEF MainCalls, init_sem, lock_mutex, unlock_mutex, post_sem, shutdown_delay,
                    Record, Sample, Forget, AfterTurn, SyncLabels, SyncStatements, work_vars,
                    call_vars
<1>3. CASE CreateOffice
  BY <1>1, <1>3 DEF CreateOffice, SyncLabels, SyncStatements, work_vars, call_vars
<1>4. CASE log_office_open
  BY <1>1, <1>4 DEF log_office_open, Record, OrAfterLast, SyncLabels, SyncStatements, work_vars,
                    call_vars
<1>5. CASE CheckSize
  BY <1>1, <1>5 DEF CheckSize, SyncLabels, SyncStatements, work_vars, call_vars
<1>6. CASE Arrive
  BY <1>1, <1>6 DEF Arrive, SyncLabels, SyncStatements, work_vars, call_vars
<1>7. CASE NothingArrives
  BY <1>1, <1>7 DEF NothingArrives, AfterTurn, SyncLabels, SyncStatements, work_vars, call_vars
<1>8. CASE Push
  BY <1>1, <1>8 DEF Push, SyncLabels, SyncStatements, work_vars, call_vars
<1>9. CASE Wake
  BY <1>1, <1>9 DEF Wake, post_sem, Sample, Forget, OrAfterLast, SyncLabels, SyncStatements,
                    work_vars, call_vars
<1>10. CASE JoinThread
  BY <1>1, <1>10 DEF JoinThread, SyncLabels, SyncStatements, work_vars, call_vars
<1>11. CASE log_office_close
  BY <1>1, <1>11 DEF log_office_close, Record, OrAfterLast, SyncLabels, SyncStatements, work_vars,
                     call_vars
<1>. QED
  BY <1>2, <1>3, <1>4, <1>5, <1>6, <1>7, <1>8, <1>9, <1>10, <1>11 DEF MainMoves

\* The mutex.
LEMMA MainLocks ==
    ASSUME SyncTyped, MainMoves
    PROVE  \/ /\ at[MAIN] = <<"lock", 0>> /\ at'[MAIN] = <<"lock", 1>>
              /\ mutex = NOBODY /\ mutex' = MAIN
           \/ at[MAIN] = <<"unlock", 0>> /\ at'[MAIN] = <<"unlock", 1>> /\ mutex' = NOBODY
           \/ mutex' = mutex /\ (Inside(MAIN) <=> Inside(MAIN)')
<1>1. /\ MAIN \in Threads /\ MAIN \notin OfficeIds /\ at \in [Threads -> SyncLabels]
      /\ cursor + 1 \in OfficeIds
        BY Offices DEF SyncTyped, SyncTypeOK
<1>2. CASE MainCalls
  BY <1>1, <1>2 DEF MainCalls, init_sem, lock_mutex, unlock_mutex, post_sem, shutdown_delay,
                    Record, Sample, Forget, AfterTurn, Go, Inside, Busy, call_vars
<1>3. CASE CreateOffice
  BY <1>1, <1>3 DEF CreateOffice, Go, Inside, Busy, call_vars
<1>4. CASE log_office_open
  BY <1>1, <1>4 DEF log_office_open, Record, OrAfterLast, Go, Inside, Busy, call_vars
<1>5. CASE CheckSize
  BY <1>1, <1>5 DEF CheckSize, Go, Inside, Busy, call_vars
<1>6. CASE Arrive
  BY <1>1, <1>6 DEF Arrive, Go, Inside, Busy, call_vars
<1>7. CASE NothingArrives
  BY <1>1, <1>7 DEF NothingArrives, AfterTurn, Go, Inside, Busy, call_vars
<1>8. CASE Push
  BY <1>1, <1>8 DEF Push, Go, Inside, Busy, call_vars
<1>9. CASE Wake
  BY <1>1, <1>9 DEF Wake, post_sem, Sample, Forget, OrAfterLast, Go, Inside, Busy, call_vars
<1>10. CASE JoinThread
  BY <1>1, <1>10 DEF JoinThread, Go, Inside, Busy, call_vars
<1>11. CASE log_office_close
  BY <1>1, <1>11 DEF log_office_close, Record, OrAfterLast, Go, Inside, Busy, call_vars
<1>. QED
  BY <1>2, <1>3, <1>4, <1>5, <1>6, <1>7, <1>8, <1>9, <1>10, <1>11 DEF MainMoves

\* It comes to be busy where the lock has been entered.
LEMMA MainBusy ==
    ASSUME SyncTyped, MainMoves
    PROVE  at'[MAIN][1] \in Busy => at'[MAIN] = <<"push", 0>>
<1>1. /\ MAIN \in Threads /\ MAIN \notin OfficeIds /\ at \in [Threads -> SyncLabels]
      /\ cursor + 1 \in OfficeIds
        BY Offices DEF SyncTyped, SyncTypeOK
<1>2. CASE MainCalls
  BY <1>1, <1>2 DEF MainCalls, init_sem, lock_mutex, unlock_mutex, post_sem, shutdown_delay,
                    Record, Sample, Forget, AfterTurn, Go, Busy
<1>3. CASE CreateOffice
  BY <1>1, <1>3 DEF CreateOffice, Go, Busy
<1>4. CASE log_office_open
  BY <1>1, <1>4 DEF log_office_open, Record, OrAfterLast, Go, Busy
<1>5. CASE CheckSize
  BY <1>1, <1>5 DEF CheckSize, Go, Busy
<1>6. CASE Arrive
  BY <1>1, <1>6 DEF Arrive, Go, Busy
<1>7. CASE NothingArrives
  BY <1>1, <1>7 DEF NothingArrives, AfterTurn, Go, Busy
<1>8. CASE Push
  BY <1>1, <1>8 DEF Push, Go, Busy
<1>9. CASE Wake
  BY <1>1, <1>9 DEF Wake, post_sem, Sample, Forget, OrAfterLast, Go, Busy
<1>10. CASE JoinThread
  BY <1>1, <1>10 DEF JoinThread, Go, Busy
<1>11. CASE log_office_close
  BY <1>1, <1>11 DEF log_office_close, Record, OrAfterLast, Go, Busy
<1>. QED
  BY <1>2, <1>3, <1>4, <1>5, <1>6, <1>7, <1>8, <1>9, <1>10, <1>11 DEF MainMoves

\* The log.
LEMMA MainLogs ==
    ASSUME SyncTyped, MainMoves
    PROVE  \/ /\ at[MAIN] = <<"lock", 1>> /\ at'[MAIN] = <<"push", 0>>
              /\ log' = [log EXCEPT !["MUTEX_LOCK"] = Append(Locks, <<MAIN, "lock">>)]
           \/ /\ at[MAIN] \in {<<"post", 1>>, <<"wake", 1>>}
              /\ at'[MAIN] \in {<<"post", 2>>, <<"wake", 2>>}
              /\ log' = [log EXCEPT !["SEM_POST"] = Append(Posts, <<MAIN, sampled[MAIN]>>)]
           \/ /\ log' = log
              /\ at'[MAIN] \notin {<<"post", 2>>, <<"wake", 2>>} /\ at'[MAIN][1] # "push"
<1>1. /\ MAIN \in Threads /\ MAIN \notin OfficeIds /\ at \in [Threads -> SyncLabels]
      /\ cursor + 1 \in OfficeIds
      /\ log = [what \in Kept |-> log[what]]
  BY Offices DEF SyncTyped, SyncTypeOK
<1>2. CASE MainCalls
  BY <1>1, <1>2 DEF MainCalls, init_sem, lock_mutex, unlock_mutex, post_sem, shutdown_delay,
                    Record, Sample, Forget, Enter, Kept, AfterTurn, Go, call_vars, Locks,
                    Posts
<1>3. CASE CreateOffice
  BY <1>1, <1>3 DEF CreateOffice, Go, call_vars, Locks, Posts
<1>4. CASE log_office_open
  BY <1>1, <1>4 DEF log_office_open, Record, OrAfterLast, Enter, Kept, Go, call_vars, Locks,
                    Posts
<1>5. CASE CheckSize
  BY <1>1, <1>5 DEF CheckSize, Go, call_vars, Locks, Posts
<1>6. CASE Arrive
  BY <1>1, <1>6 DEF Arrive, Go, call_vars, Locks, Posts
<1>7. CASE NothingArrives
  BY <1>1, <1>7 DEF NothingArrives, AfterTurn, Go, call_vars, Locks, Posts
<1>8. CASE Push
  BY <1>1, <1>8 DEF Push, Go, call_vars, Locks, Posts
<1>9. CASE Wake
  BY <1>1, <1>9 DEF Wake, post_sem, Sample, Forget, OrAfterLast, Enter, Kept, Go, call_vars,
                    Locks, Posts
<1>10. CASE JoinThread
  BY <1>1, <1>10 DEF JoinThread, Go, call_vars, Locks, Posts
<1>11. CASE log_office_close
  BY <1>1, <1>11 DEF log_office_close, Record, OrAfterLast, Enter, Kept, Go, call_vars,
                     Locks, Posts
<1>. QED
  BY <1>2, <1>3, <1>4, <1>5, <1>6, <1>7, <1>8, <1>9, <1>10, <1>11 DEF MainMoves

\* The semaphores, and the end of its preparations.
LEMMA MainSems ==
    ASSUME SyncTyped, MainMoves
    PROVE  \/ /\ at[MAIN] = <<"init", 1>> /\ at'[MAIN] = <<"create", 0>>
              /\ sem' = [sem EXCEPT !["main_sem"] = 0]
           \/ /\ at[MAIN] = <<"admin", 1>> /\ at'[MAIN] = <<"top", 0>>
              /\ sem' = [sem EXCEPT !["account"] = 1]
           \/ /\ at[MAIN] \in {<<"post", 2>>, <<"wake", 2>>}
              /\ at'[MAIN] \notin {<<"post", 2>>, <<"wake", 2>>} /\ ~Starting /\ ~Starting'
              /\ sem' = [sem EXCEPT !["main_sem"] = @ + 1]
           \/ /\ sem' = sem /\ (Starting <=> Starting')
              /\ at[MAIN] \notin {<<"post", 2>>, <<"wake", 2>>}
<1>1. /\ MAIN \in Threads /\ MAIN \notin OfficeIds /\ at \in [Threads -> SyncLabels]
      /\ cursor + 1 \in OfficeIds
        BY Offices DEF SyncTyped, SyncTypeOK
<1>2. CASE MainCalls
  BY <1>1, <1>2 DEF MainCalls, init_sem, lock_mutex, unlock_mutex, post_sem, shutdown_delay,
                    Record, Sample, Forget, AfterTurn, Go, call_vars, Starting
<1>3. CASE CreateOffice
  BY <1>1, <1>3 DEF CreateOffice, Go, call_vars, Starting
<1>4. CASE log_office_open
  BY <1>1, <1>4 DEF log_office_open, Record, OrAfterLast, Go, call_vars, Starting
<1>5. CASE CheckSize
  BY <1>1, <1>5 DEF CheckSize, Go, call_vars, Starting
<1>6. CASE Arrive
  BY <1>1, <1>6 DEF Arrive, Go, call_vars, Starting
<1>7. CASE NothingArrives
  BY <1>1, <1>7 DEF NothingArrives, AfterTurn, Go, call_vars, Starting
<1>8. CASE Push
  BY <1>1, <1>8 DEF Push, Go, call_vars, Starting
<1>9. CASE Wake
  BY <1>1, <1>9 DEF Wake, post_sem, Sample, Forget, OrAfterLast, Go, call_vars, Starting
<1>10. CASE JoinThread
  BY <1>1, <1>10 DEF JoinThread, Go, call_vars, Starting
<1>11. CASE log_office_close
  BY <1>1, <1>11 DEF log_office_close, Record, OrAfterLast, Go, call_vars, Starting
<1>. QED
  BY <1>2, <1>3, <1>4, <1>5, <1>6, <1>7, <1>8, <1>9, <1>10, <1>11 DEF MainMoves

\* What sem_getvalue gave it.
LEMMA MainSamples ==
    ASSUME SyncTyped, MainMoves
    PROVE  \/ UNCHANGED sampled
           \/ \E n \in {0, sem["main_sem"]} : sampled' = [sampled EXCEPT ![MAIN] = n]
<1>1. /\ MAIN \in Threads /\ MAIN \notin OfficeIds /\ at \in [Threads -> SyncLabels]
      /\ cursor + 1 \in OfficeIds
        BY Offices DEF SyncTyped, SyncTypeOK
<1>2. CASE MainCalls
  BY <1>1, <1>2 DEF MainCalls, init_sem, lock_mutex, unlock_mutex, post_sem, shutdown_delay,
                    Record, Sample, Forget, AfterTurn, Go, call_vars
<1>3. CASE CreateOffice
  BY <1>1, <1>3 DEF CreateOffice, Go, call_vars
<1>4. CASE log_office_open
  BY <1>1, <1>4 DEF log_office_open, Record, OrAfterLast, Go, call_vars
<1>5. CASE CheckSize
  BY <1>1, <1>5 DEF CheckSize, Go, call_vars
<1>6. CASE Arrive
  BY <1>1, <1>6 DEF Arrive, Go, call_vars
<1>7. CASE NothingArrives
  BY <1>1, <1>7 DEF NothingArrives, AfterTurn, Go, call_vars
<1>8. CASE Push
  BY <1>1, <1>8 DEF Push, Go, call_vars
<1>9. CASE Wake
  BY <1>1, <1>9 DEF Wake, post_sem, Sample, Forget, OrAfterLast, Go, call_vars
<1>10. CASE JoinThread
  BY <1>1, <1>10 DEF JoinThread, Go, call_vars
<1>11. CASE log_office_close
  BY <1>1, <1>11 DEF log_office_close, Record, OrAfterLast, Go, call_vars
<1>. QED
  BY <1>2, <1>3, <1>4, <1>5, <1>6, <1>7, <1>8, <1>9, <1>10, <1>11 DEF MainMoves

\* The requests: read, queued and posted for.
LEMMA MainWorks ==
    ASSUME SyncTyped, MainMoves
    PROVE  \/ /\ at[MAIN] = <<"read", 0>> /\ at'[MAIN] = <<"lock", 0>>
              /\ arrived < Len(arrivals) /\ arrived' = arrived + 1
              /\ held' = [held EXCEPT ![MAIN] = arrivals[arrived + 1]] /\ UNCHANGED list_vars
           \/ /\ at[MAIN] = <<"push", 0>> /\ at'[MAIN] = <<"unlock", 0>>
              /\ list_queue_push(held[MAIN]) /\ UNCHANGED <<arrived, held>>
           \/ /\ UNCHANGED <<arrived, held>> /\ UNCHANGED list_vars /\ at[MAIN] # <<"push", 0>>
              /\ at[MAIN][1] \in {"lock", "push"} <=> at'[MAIN][1] \in {"lock", "push"}
<1>1. /\ MAIN \in Threads /\ MAIN \notin OfficeIds /\ at \in [Threads -> SyncLabels]
      /\ cursor + 1 \in OfficeIds
        BY Offices DEF SyncTyped, SyncTypeOK
<1>2. CASE MainCalls
  BY <1>1, <1>2 DEF MainCalls, init_sem, lock_mutex, unlock_mutex, post_sem, shutdown_delay,
                    Record, Sample, Forget, AfterTurn, Go, work_vars
<1>3. CASE CreateOffice
  BY <1>1, <1>3 DEF CreateOffice, Go, work_vars
<1>4. CASE log_office_open
  BY <1>1, <1>4 DEF log_office_open, Record, OrAfterLast, Go, work_vars
<1>5. CASE CheckSize
  BY <1>1, <1>5 DEF CheckSize, Go, work_vars
<1>6. CASE Arrive
  BY <1>1, <1>6 DEF Arrive, Go, work_vars
<1>7. CASE NothingArrives
  BY <1>1, <1>7 DEF NothingArrives, AfterTurn, Go, work_vars
<1>8. CASE Push
  BY <1>1, <1>8 DEF Push, Go, work_vars
<1>9. CASE Wake
  BY <1>1, <1>9 DEF Wake, post_sem, Sample, Forget, OrAfterLast, Go, work_vars
<1>10. CASE JoinThread
  BY <1>1, <1>10 DEF JoinThread, Go, work_vars
<1>11. CASE log_office_close
  BY <1>1, <1>11 DEF log_office_close, Record, OrAfterLast, Go, work_vars
<1>. QED
  BY <1>2, <1>3, <1>4, <1>5, <1>6, <1>7, <1>8, <1>9, <1>10, <1>11 DEF MainMoves

\* The posts it owes for what it has queued.
LEMMA MainOwes ==
    ASSUME SyncTyped, MainMoves
    PROVE  \/ at[MAIN] = <<"push", 0>> /\ at'[MAIN] = <<"unlock", 0>>
           \/ at[MAIN] = <<"post", 2>> /\ at'[MAIN][1] \notin {"unlock", "post"}
           \/ /\ at[MAIN] \notin {<<"push", 0>>, <<"post", 2>>}
              /\ at[MAIN][1] \in {"unlock", "post"} <=> at'[MAIN][1] \in {"unlock", "post"}
<1>1. /\ MAIN \in Threads /\ MAIN \notin OfficeIds /\ at \in [Threads -> SyncLabels]
      /\ cursor + 1 \in OfficeIds
        BY Offices DEF SyncTyped, SyncTypeOK
<1>2. CASE MainCalls
  BY <1>1, <1>2 DEF MainCalls, init_sem, lock_mutex, unlock_mutex, post_sem, shutdown_delay,
                    Record, Sample, Forget, AfterTurn, Go
<1>3. CASE CreateOffice
  BY <1>1, <1>3 DEF CreateOffice, Go
<1>4. CASE log_office_open
  BY <1>1, <1>4 DEF log_office_open, Record, OrAfterLast, Go
<1>5. CASE CheckSize
  BY <1>1, <1>5 DEF CheckSize, Go
<1>6. CASE Arrive
  BY <1>1, <1>6 DEF Arrive, Go
<1>7. CASE NothingArrives
  BY <1>1, <1>7 DEF NothingArrives, AfterTurn, Go
<1>8. CASE Push
  BY <1>1, <1>8 DEF Push, Go
<1>9. CASE Wake
  BY <1>1, <1>9 DEF Wake, post_sem, Sample, Forget, OrAfterLast, Go
<1>10. CASE JoinThread
  BY <1>1, <1>10 DEF JoinThread, Go
<1>11. CASE log_office_close
  BY <1>1, <1>11 DEF log_office_close, Record, OrAfterLast, Go
<1>. QED
  BY <1>2, <1>3, <1>4, <1>5, <1>6, <1>7, <1>8, <1>9, <1>10, <1>11 DEF MainMoves

\* The closing.
LEMMA MainCloses ==
    ASSUME SyncTyped, MainMoves
    PROVE  /\ \/ /\ at[MAIN] = <<"top", 0>> /\ at'[MAIN] = <<"read", 0>>
                 /\ close_thread' = (close_thread \/ (server_exit /\ size = 0))
              \/ UNCHANGED close_thread
           /\ UNCHANGED server_exit
           /\ at'[MAIN][1] \in {"linger", "wake", "join", "exited"} =>
                 close_thread \/ at[MAIN][1] \in {"linger", "wake", "join", "exited"}
<1>1. /\ MAIN \in Threads /\ MAIN \notin OfficeIds /\ at \in [Threads -> SyncLabels]
      /\ cursor + 1 \in OfficeIds
        BY Offices DEF SyncTyped, SyncTypeOK
<1>2. CASE MainCalls
  BY <1>1, <1>2 DEF MainCalls, init_sem, lock_mutex, unlock_mutex, post_sem, shutdown_delay,
                    Record, Sample, Forget, AfterTurn, Go, work_vars
<1>3. CASE CreateOffice
  BY <1>1, <1>3 DEF CreateOffice, Go, work_vars
<1>4. CASE log_office_open
  BY <1>1, <1>4 DEF log_office_open, Record, OrAfterLast, Go, work_vars
<1>5. CASE CheckSize
  BY <1>1, <1>5 DEF CheckSize, Go, work_vars
<1>6. CASE Arrive
  BY <1>1, <1>6 DEF Arrive, Go, work_vars
<1>7. CASE NothingArrives
  BY <1>1, <1>7 DEF NothingArrives, AfterTurn, Go, work_vars
<1>8. CASE Push
  BY <1>1, <1>8 DEF Push, Go, work_vars
<1>9. CASE Wake
  BY <1>1, <1>9 DEF Wake, post_sem, Sample, Forget, OrAfterLast, Go, work_vars
<1>10. CASE JoinThread
  BY <1>1, <1>10 DEF JoinThread, Go, work_vars
<1>11. CASE log_office_close
  BY <1>1, <1>11 DEF log_office_close, Record, OrAfterLast, Go, work_vars
<1>. QED
  BY <1>2, <1>3, <1>4, <1>5, <1>6, <1>7, <1>8, <1>9, <1>10, <1>11 DEF MainMoves

-----------------------------------------------------------------------------
(* The types. *)

LEMMA OfficeOthers ==
    ASSUME SyncTyped, NEW t \in OfficeIds, OfficeMoves(t)
    PROVE  /\ at' \in [Threads -> SyncLabels]
           /\ \A u \in Threads : u # t =>
                at'[u] = at[u] /\ sampled'[u] = sampled[u] /\ held'[u] = held[u]
<1>1. /\ t \in Threads /\ at \in [Threads -> SyncLabels]
      /\ sampled \in [Threads -> Nat] /\ held \in [Threads -> Values]
  BY Offices DEF SyncTyped, SyncTypeOK
<1>2. at' \in [Threads -> SyncLabels] /\ \A u \in Threads : u # t => at'[u] = at[u]
  BY <1>1, OfficeGoes DEF Go
<1>3. \A u \in Threads : u # t => sampled'[u] = sampled[u]
  BY <1>1, OfficeSamples
<1>4. \A u \in Threads : u # t => held'[u] = held[u]
  BY <1>1, OfficeTakes
<1>. QED
  BY <1>2, <1>3, <1>4

LEMMA MainOthers ==
    ASSUME SyncTyped, MainMoves
    PROVE  /\ at' \in [Threads -> SyncLabels]
           /\ \A u \in OfficeIds :
                /\ sampled'[u] = sampled[u] /\ held'[u] = held[u]
                /\ \/ at'[u] = at[u]
                   \/ /\ at[MAIN] = <<"create", 0>> /\ at'[MAIN] = <<"create", 1>>
                      /\ at'[u] = <<"loop", 0>>
<1>1. /\ MAIN \in Threads /\ MAIN \notin OfficeIds /\ OfficeIds \subseteq Threads
      /\ cursor + 1 \in OfficeIds /\ at \in [Threads -> SyncLabels]
      /\ sampled \in [Threads -> Nat] /\ held \in [Threads -> Values]
  BY Offices DEF SyncTyped, SyncTypeOK
<1>2. <<"create", 1>> \in SyncLabels /\ <<"loop", 0>> \in SyncLabels
  BY DEF SyncLabels, SyncStatements
<1>3. /\ at' \in [Threads -> SyncLabels]
      /\ \A u \in OfficeIds :
            \/ at'[u] = at[u]
            \/ /\ at[MAIN] = <<"create", 0>> /\ at'[MAIN] = <<"create", 1>>
               /\ at'[u] = <<"loop", 0>>
  BY <1>1, <1>2, MainGoes DEF Go
<1>4. \A u \in OfficeIds : sampled'[u] = sampled[u]
  BY <1>1, MainSamples
<1>5. \A u \in OfficeIds : held'[u] = held[u]
  BY <1>1, MainWorks
<1>. QED
  BY <1>3, <1>4, <1>5

\* The queue of the invariant is well linked.
LEMMA SyncListInv == SyncInv => ListInv
BY DEF SyncInv, SyncTyped, SyncTypeOK, Order, ListInv, WellLinked

\* An entry more keeps the log one.
LEMMA EntryTyped ==
    ASSUME SyncTyped, NEW t \in Threads,
           \/ UNCHANGED log
           \/ log' = [log EXCEPT !["MUTEX_LOCK"] = Append(Locks, <<t, "lock">>)]
           \/ \E v \in Values : log' = [log EXCEPT !["REQUEST"] = Append(Served, <<t, v>>)]
           \/ \E n \in Nat : log' = [log EXCEPT !["SEM_POST"] = Append(Posts, <<t, n>>)]
    PROVE  /\ log' = [what \in Kept |-> log'[what]]
           /\ Locks' \in Seq(Threads \X SyncStatements) /\ Served' \in Seq(Threads \X Values)
           /\ Posts' \in Seq(Threads \X Nat)
<1>1. /\ log = [what \in Kept |-> log[what]]
      /\ Locks \in Seq(Threads \X SyncStatements) /\ Served \in Seq(Threads \X Values)
      /\ Posts \in Seq(Threads \X Nat)
  BY DEF SyncTyped, SyncTypeOK
<1>2. "lock" \in SyncStatements
  BY DEF SyncStatements
<1>3. CASE UNCHANGED log
  BY <1>1, <1>3 DEF Locks, Served, Posts
<1>4. CASE log' = [log EXCEPT !["MUTEX_LOCK"] = Append(Locks, <<t, "lock">>)]
  <2>1. log' = [log EXCEPT !["MUTEX_LOCK"] = Append(Locks, <<t, "lock">>)]
    BY <1>4
  <2>2. log' = [what \in Kept |-> log'[what]]
    BY <1>1, <2>1
  <2>3. /\ log'["MUTEX_LOCK"] = Append(Locks, <<t, "lock">>)
        /\ log'["REQUEST"] = log["REQUEST"] /\ log'["SEM_POST"] = log["SEM_POST"]
    BY <1>1, <2>1 DEF Kept
  <2>4. Append(Locks, <<t, "lock">>) \in Seq(Threads \X SyncStatements)
    BY <1>1, <1>2
  <2>. QED
    BY <1>1, <2>2, <2>3, <2>4 DEF Locks, Served, Posts
<1>5. CASE \E v \in Values : log' = [log EXCEPT !["REQUEST"] = Append(Served, <<t, v>>)]
  <2>1. PICK v \in Values : log' = [log EXCEPT !["REQUEST"] = Append(Served, <<t, v>>)]
    BY <1>5
  <2>2. log' = [what \in Kept |-> log'[what]]
    BY <1>1, <2>1
  <2>3. /\ log'["REQUEST"] = Append(Served, <<t, v>>)
        /\ log'["MUTEX_LOCK"] = log["MUTEX_LOCK"] /\ log'["SEM_POST"] = log["SEM_POST"]
    BY <1>1, <2>1 DEF Kept
  <2>4. Append(Served, <<t, v>>) \in Seq(Threads \X Values)
    BY <1>1, <1>2
  <2>. QED
    BY <1>1, <2>2, <2>3, <2>4 DEF Locks, Served, Posts
<1>6. CASE \E n \in Nat : log' = [log EXCEPT !["SEM_POST"] = Append(Posts, <<t, n>>)]
  <2>1. PICK n \in Nat : log' = [log EXCEPT !["SEM_POST"] = Append(Posts, <<t, n>>)]
    BY <1>6
  <2>2. log' = [what \in Kept |-> log'[what]]
    BY <1>1, <2>1
  <2>3. /\ log'["SEM_POST"] = Append(Posts, <<t, n>>)
        /\ log'["MUTEX_LOCK"] = log["MUTEX_LOCK"] /\ log'["REQUEST"] = log["REQUEST"]
    BY <1>1, <2>1 DEF Kept
  <2>4. Append(Posts, <<t, n>>) \in Seq(Threads \X Nat)
    BY <1>1, <1>2
  <2>. QED
    BY <1>1, <2>2, <2>3, <2>4 DEF Locks, Served, Posts
<1>. QED
  BY <1>3, <1>4, <1>5, <1>6

\* The sets of offices that are counted are finite.
LEMMA OfficesFinite ==
    \A S \in SUBSET OfficeIds : IsFiniteSet(S) /\ Cardinality(S) \in Nat
<1>1. IsFiniteSet(OfficeIds)
  BY FS_Interval DEF OfficeIds
<1>. QED
  BY <1>1, FS_Subset, FS_CardinalityType

\* Who fetches a request finds one: there are as many as offices that were woken.
LEMMA HeadIsThere ==
    ASSUME SyncInv, NEW t \in OfficeIds, Fetching(t)
    PROVE  /\ ~close_thread /\ size \in Nat /\ size > 0
           /\ head # NULL /\ head \in Addresses
<1>1. ~close_thread
  BY DEF SyncInv, Closing
<1>2. Collecting \in SUBSET OfficeIds /\ t \in Collecting
  BY DEF Collecting
<1>3. IsFiniteSet(Collecting) /\ Cardinality(Collecting) \in Nat
  BY <1>2, OfficesFinite
<1>4. Cardinality(Collecting) # 0
  BY <1>2, <1>3, FS_EmptySet
<1>5. sem["main_sem"] \in Nat /\ Unposted \in Nat /\ size \in Nat
  BY DEF SyncInv, SyncTyped, SyncTypeOK, ListTypeOK, Unposted
<1>6. size > 0
  BY <1>1, <1>3, <1>4, <1>5 DEF SyncInv, Tokens
<1>7. PICK c \in [1 .. size -> Addresses] : IsChain(c)
  BY DEF SyncInv, Order
<1>8. head = c[1] /\ 1 \in 1 .. size
  BY <1>5, <1>6, <1>7 DEF IsChain
<1>9. head \in Addresses
  BY <1>8
<1>. QED
  BY <1>1, <1>5, <1>6, <1>9, NullAssumption

LEMMA TypedOffice ==
    ASSUME SyncInv, NEW t \in OfficeIds, OfficeMoves(t), UNCHANGED arrivals
    PROVE  SyncTyped'
<1>1. SyncTyped /\ t \in Threads /\ ListInv
  BY Offices, SyncListInv DEF SyncInv
<1>2. ListTypeOK'
  BY <1>1, OfficeTakes, PopTyped DEF ListInv, ListTypeOK, list_vars
<1>3. mutex' \in Threads \cup {NOBODY}
  BY <1>1, OfficeLocks DEF SyncTyped, SyncTypeOK
<1>4. sem \in [{"main_sem", "account"} -> Nat] /\ sampled \in [Threads -> Nat]
  BY <1>1 DEF SyncTyped, SyncTypeOK
<1>5. sem' \in [{"main_sem", "account"} -> Nat]
  BY <1>1, <1>4, OfficeSems
<1>6. sampled' \in [Threads -> Nat]
  BY <1>1, <1>4, OfficeSamples
<1>7. held \in [Threads -> Values] /\ SHUTDOWN \in Values
  BY <1>1, SyncAssumption DEF SyncTyped, SyncTypeOK
<1>8. at[t] = <<"take", 0>> => stored[head] \in Values
  BY <1>1, HeadIsThere DEF Fetching, ListInv, ListTypeOK
<1>9. held' \in [Threads -> Values]
  BY <1>1, <1>7, <1>8, OfficeTakes
<1>10. held[t] \in Values /\ sampled[t] \in Nat
  BY <1>1, <1>4, <1>7
<1>11. /\ log' = [what \in Kept |-> log'[what]]
       /\ Locks' \in Seq(Threads \X SyncStatements) /\ Served' \in Seq(Threads \X Values)
       /\ Posts' \in Seq(Threads \X Nat)
  BY <1>1, <1>10, OfficeLogs, EntryTyped
<1>. QED
  BY <1>1, <1>2, <1>3, <1>5, <1>6, <1>9, <1>11, OfficeOthers, OfficeGoes DEF SyncTyped, SyncTypeOK

LEMMA TypedMain ==
    ASSUME SyncInv, MainMoves, UNCHANGED arrivals
    PROVE  SyncTyped'
<1>1. SyncTyped /\ MAIN \in Threads /\ ListTypeOK
  BY Offices DEF SyncInv, SyncTyped, SyncTypeOK
<1>2. held \in [Threads -> Values] /\ arrivals \in Seq(Values) /\ arrived \in 0 .. Len(arrivals)
  BY <1>1 DEF SyncTyped, SyncTypeOK
<1>3. ListTypeOK'
  BY <1>1, <1>2, MainWorks, PushTyped DEF ListTypeOK, list_vars
<1>4. mutex' \in Threads \cup {NOBODY}
  BY <1>1, MainLocks DEF SyncTyped, SyncTypeOK
<1>5. sem \in [{"main_sem", "account"} -> Nat] /\ sampled \in [Threads -> Nat]
  BY <1>1 DEF SyncTyped, SyncTypeOK
<1>6. sem' \in [{"main_sem", "account"} -> Nat]
  BY <1>1, <1>5, MainSems
<1>7. sampled' \in [Threads -> Nat]
  BY <1>1, <1>5, MainSamples
<1>8. held' \in [Threads -> Values] /\ arrived' \in 0 .. Len(arrivals)
  BY <1>1, <1>2, MainWorks
<1>9. sampled[MAIN] \in Nat
  BY <1>1, <1>5
<1>10. /\ log' = [what \in Kept |-> log'[what]]
       /\ Locks' \in Seq(Threads \X SyncStatements) /\ Served' \in Seq(Threads \X Values)
       /\ Posts' \in Seq(Threads \X Nat)
  BY <1>1, <1>9, MainLogs, EntryTyped
<1>11. cursor' \in 0 .. OfficeCount - 1
  BY <1>1, MainGoes DEF SyncTyped, SyncTypeOK, NextOffice
<1>12. close_thread' \in BOOLEAN /\ server_exit' \in BOOLEAN
  BY <1>1, MainCloses DEF SyncTyped, SyncTypeOK
<1>. QED
  BY <1>1, <1>2, <1>3, <1>4, <1>6, <1>7, <1>8, <1>10, <1>11, <1>12, MainOthers
     DEF SyncTyped, SyncTypeOK

\* The log, kind by kind.
LEMMA OfficeEntries ==
    ASSUME SyncTyped, NEW t \in OfficeIds, OfficeMoves(t)
    PROVE  \/ /\ at[t] = <<"lock", 1>> /\ at'[t] = <<"take", 0>>
              /\ Locks' = Append(Locks, <<t, "lock">>) /\ Served' = Served /\ Posts' = Posts
           \/ /\ at[t] = <<"take", 2>> /\ at'[t] = <<"hold", 0>>
              /\ Served' = Append(Served, <<t, held[t]>>) /\ Locks' = Locks /\ Posts' = Posts
           \/ /\ at[t] = <<"release", 1>> /\ at'[t] = <<"release", 2>>
              /\ Posts' = Append(Posts, <<t, sampled[t]>>) /\ Locks' = Locks /\ Served' = Served
           \/ /\ Locks' = Locks /\ Served' = Served /\ Posts' = Posts
              /\ at[t] # <<"take", 2>> /\ at'[t] # <<"take", 0>>
<1>1. log = [what \in Kept |-> log[what]]
  BY DEF SyncTyped, SyncTypeOK
<1>. QED
  BY <1>1, OfficeLogs DEF Locks, Served, Posts, Kept

LEMMA MainEntries ==
    ASSUME SyncTyped, MainMoves
    PROVE  /\ Served' = Served
           /\ \/ /\ at[MAIN] = <<"lock", 1>> /\ at'[MAIN] = <<"push", 0>>
                 /\ Locks' = Append(Locks, <<MAIN, "lock">>) /\ Posts' = Posts
              \/ /\ at[MAIN] \in {<<"post", 1>>, <<"wake", 1>>}
                 /\ at'[MAIN] \in {<<"post", 2>>, <<"wake", 2>>}
                 /\ Posts' = Append(Posts, <<MAIN, sampled[MAIN]>>) /\ Locks' = Locks
              \/ /\ Locks' = Locks /\ Posts' = Posts
                 /\ at'[MAIN] \notin {<<"post", 2>>, <<"wake", 2>>} /\ at'[MAIN][1] # "push"
<1>1. log = [what \in Kept |-> log[what]]
  BY DEF SyncTyped, SyncTypeOK
<1>. QED
  BY <1>1, MainLogs DEF Locks, Served, Posts, Kept

-----------------------------------------------------------------------------
(* Mutual exclusion, the preparations, and what the locks in the log say. *)

\* The mutex has the holder it is logged for.
LEMMA ExclusionOffice ==
    ASSUME SyncInv, NEW t \in OfficeIds, OfficeMoves(t)
    PROVE  Exclusion'
<1>1. SyncTyped /\ Exclusion /\ t \in Threads /\ NOBODY \notin Threads
  BY Offices DEF SyncInv
<1>2. \A u \in Threads : u # t => (Inside(u) <=> Inside(u)')
  BY <1>1, OfficeOthers DEF Inside, Busy
<1>3. Inside(t)' <=> mutex' = t
  BY <1>1, OfficeLocks DEF Exclusion, Inside, Busy
<1>4. \A u \in Threads : u # t => (mutex = u <=> mutex' = u)
  BY <1>1, OfficeLocks DEF Exclusion, Inside, Busy
<1>. QED
  BY <1>1, <1>2, <1>3, <1>4 DEF Exclusion

LEMMA ExclusionMain ==
    ASSUME SyncInv, MainMoves
    PROVE  Exclusion'
<1>1. SyncTyped /\ Exclusion /\ MAIN \in Threads /\ NOBODY \notin Threads
  BY Offices DEF SyncInv
<1>0. \A u \in Threads : u # MAIN => u \in OfficeIds
  BY Offices
<1>2. \A u \in Threads : u # MAIN => (Inside(u) <=> Inside(u)')
  <2>1. at[MAIN] = <<"create", 0>> => \A u \in OfficeIds : ~Inside(u)
    BY DEF SyncInv, Beginning, Starting, Inside, Busy
  <2>. QED
    BY <1>0, <1>1, <2>1, MainOthers DEF Inside, Busy
<1>3. Inside(MAIN)' <=> mutex' = MAIN
  BY <1>1, MainLocks DEF Exclusion, Inside, Busy
<1>4. \A u \in Threads : u # MAIN => (mutex = u <=> mutex' = u)
  BY <1>1, MainLocks DEF Exclusion, Inside, Busy
<1>. QED
  BY <1>1, <1>2, <1>3, <1>4 DEF Exclusion

\* Until main comes to its loop no office gets past main_sem.
LEMMA BeginningOffice ==
    ASSUME SyncInv, NEW t \in OfficeIds, OfficeMoves(t)
    PROVE  Beginning'
<1>1. SyncTyped /\ Beginning /\ t \in Threads /\ MAIN \in Threads /\ MAIN # t
  BY Offices DEF SyncInv
<1>2. Starting' <=> Starting
  BY <1>1, OfficeOthers DEF Starting
<1>3. SUFFICES ASSUME Starting PROVE Beginning'
  BY <1>2 DEF Beginning
<1>4. /\ sem["main_sem"] = 0 /\ ~close_thread
      /\ \A u \in OfficeIds : at[u][1] \in {"unborn", "loop", "wait"}
  BY <1>1, <1>3 DEF Beginning
<1>5. at[t] # <<"wait", 2>>
  BY <1>1, <1>4, OfficeSems
<1>6. sem["main_sem"]' = 0 /\ ~close_thread'
  BY <1>1, <1>4, <1>5, OfficeSems, OfficeGoes DEF SyncTyped, SyncTypeOK
<1>7. at'[t][1] \in {"unborn", "loop", "wait"}
  BY <1>1, <1>4, <1>5, OfficeWaits
<1>8. \A u \in OfficeIds : u # t => at'[u] = at[u]
  BY <1>1, OfficeOthers, Offices
<1>. QED
  BY <1>4, <1>6, <1>7, <1>8 DEF Beginning

LEMMA BeginningMain ==
    ASSUME SyncInv, MainMoves
    PROVE  Beginning'
<1>1. SyncTyped /\ Beginning
  BY DEF SyncInv
<1>2. SUFFICES ASSUME Starting' PROVE Beginning'
  BY DEF Beginning
<1>3. Starting
  BY <1>1, <1>2, MainSems DEF Starting
<1>4. sem["main_sem"] = 0 /\ sem \in [{"main_sem", "account"} -> Nat] /\ ~close_thread
  BY <1>1, <1>3 DEF Beginning, SyncTyped, SyncTypeOK
<1>5. sem["main_sem"]' = 0
  BY <1>1, <1>2, <1>4, MainSems DEF Starting
<1>6. ~close_thread'
  BY <1>1, <1>3, <1>4, MainCloses DEF Starting
<1>7. \A u \in OfficeIds : at'[u][1] \in {"unborn", "loop", "wait"}
  BY <1>1, <1>3, MainOthers DEF Beginning
<1>. QED
  BY <1>5, <1>6, <1>7 DEF Beginning

\* Whoever is between the lock's entry and the unlock is in the last entry of a lock.
LEMMA SaidOffice ==
    ASSUME SyncInv, NEW t \in OfficeIds, OfficeMoves(t)
    PROVE  Said'
<1>1. SyncTyped /\ Exclusion /\ Said /\ t \in Threads
  BY Offices DEF SyncInv
<1>2. Locks \in Seq(Threads \X SyncStatements)
  BY <1>1 DEF SyncTyped, SyncTypeOK
<1>3. CASE /\ at[t] = <<"lock", 1>> /\ at'[t] = <<"take", 0>>
           /\ Locks' = Append(Locks, <<t, "lock">>)
  <2>1. Locks' # << >> /\ Locks'[Len(Locks')][1] = t
    BY <1>2, <1>3
  <2>2. \A u \in Threads : u # t => ~Inside(u)'
    BY <1>1, <1>3, OfficeOthers DEF Exclusion, Inside, Busy
  <2>. QED
    BY <2>1, <2>2 DEF Said, Inside, Busy
<1>4. CASE Locks' = Locks /\ at'[t] # <<"take", 0>>
  BY <1>1, <1>4, OfficeOthers, OfficeBusy DEF Said
<1>. QED
  BY <1>1, <1>3, <1>4, OfficeEntries

LEMMA SaidMain ==
    ASSUME SyncInv, MainMoves
    PROVE  Said'
<1>1. SyncTyped /\ Exclusion /\ Said /\ MAIN \in Threads
  BY Offices DEF SyncInv
<1>2. Locks \in Seq(Threads \X SyncStatements)
  BY <1>1 DEF SyncTyped, SyncTypeOK
<1>0. \A u \in Threads : u # MAIN => u \in OfficeIds
  BY Offices
<1>3. CASE /\ at[MAIN] = <<"lock", 1>> /\ at'[MAIN] = <<"push", 0>>
           /\ Locks' = Append(Locks, <<MAIN, "lock">>)
  <2>1. Locks' # << >> /\ Locks'[Len(Locks')][1] = MAIN
    BY <1>2, <1>3
  <2>2. \A u \in Threads : u # MAIN => ~Inside(u)'
    BY <1>0, <1>1, <1>3, MainOthers DEF Exclusion, Inside, Busy
  <2>. QED
    BY <2>1, <2>2 DEF Said, Inside, Busy
<1>4. CASE Locks' = Locks /\ at'[MAIN][1] # "push"
  <2>1. at'[MAIN][1] \notin Busy
    BY <1>1, <1>4, MainBusy
  <2>. QED
    BY <1>0, <1>1, <1>4, <2>1, MainOthers DEF Said, Busy
<1>. QED
  BY <1>1, <1>3, <1>4, MainEntries

-----------------------------------------------------------------------------
(* The account's semaphore and the closing. *)

\* The account is taken and given back by the thread that holds the mutex.
LEMMA AccountOffice ==
    ASSUME SyncInv, NEW t \in OfficeIds, OfficeMoves(t)
    PROVE  Account'
<1>1. SyncTyped /\ Exclusion /\ Account /\ t \in Threads /\ MAIN \in Threads /\ MAIN # t
  BY Offices DEF SyncInv
<1>2. Starting' <=> Starting
  BY <1>1, OfficeOthers DEF Starting
<1>3. sem \in [{"main_sem", "account"} -> Nat] /\ sampled \in [Threads -> Nat]
  BY <1>1 DEF SyncTyped, SyncTypeOK
<1>4. Starting => at[t][1] \in {"unborn", "loop", "wait"}
  BY DEF SyncInv, Beginning
<1>5. \A u \in OfficeIds : at[u][1] \in {"hold", "delay", "release"} => mutex = u
  BY <1>1, Offices DEF Exclusion, Inside, Busy
<1>6. \A u \in OfficeIds : at'[u][1] \in {"hold", "delay", "release"} => mutex' = u
  BY ExclusionOffice, Offices DEF Exclusion, Inside, Busy
<1>7. ~Starting' => sem["account"]' = IF HasAccount' THEN 0 ELSE 1
  <2>1. SUFFICES ASSUME ~Starting PROVE sem["account"]' = IF HasAccount' THEN 0 ELSE 1
    BY <1>2
  <2>2. sem["account"] = IF HasAccount THEN 0 ELSE 1
    BY <1>1, <2>1 DEF Account
  <2>3. at'[t][1] \in {"delay", "release"} => HasAccount'
    BY <1>6 DEF HasAccount
  <2>4. at'[t][1] \notin {"delay", "release"} => (HasAccount' <=> HasAccount /\ mutex # t)
    <3>1. \A u \in OfficeIds : u # t => at'[u] = at[u]
      BY <1>1, OfficeOthers, Offices
    <3>2. ASSUME at'[t][1] \notin {"delay", "release"}, HasAccount' PROVE HasAccount /\ mutex # t
      BY <1>5, <3>1, <3>2 DEF HasAccount
    <3>3. ASSUME HasAccount, mutex # t PROVE HasAccount'
      BY <1>6, <3>1, <3>3 DEF HasAccount
    <3>. QED
      BY <3>2, <3>3
  <2>5. at[t][1] \in {"delay", "release"} => HasAccount /\ mutex = t
    BY <1>5 DEF HasAccount
  <2>6. at[t][1] \notin {"delay", "release"} => ~(HasAccount /\ mutex = t)
    BY DEF HasAccount
  <2>7. CASE at[t] = <<"hold", 2>> /\ at'[t] = <<"delay", 0>> /\ sem["account"] > 0
             /\ sem' = [sem EXCEPT !["account"] = @ - 1]
    BY <1>3, <2>2, <2>3, <2>7
  <2>8. CASE at[t] = <<"release", 2>> /\ at'[t] = <<"reply", 0>>
             /\ sem' = [sem EXCEPT !["account"] = @ + 1]
    BY <1>3, <2>2, <2>4, <2>5, <2>8
  <2>9. CASE /\ sem["account"]' = sem["account"]
             /\ at[t][1] \in {"delay", "release"} <=> at'[t][1] \in {"delay", "release"}
    BY <2>2, <2>3, <2>4, <2>5, <2>6, <2>9
  <2>10. CASE at[t] = <<"wait", 2>> /\ at'[t] = <<"woken", 0>>
              /\ sem' = [sem EXCEPT !["main_sem"] = @ - 1]
    BY <1>3, <2>9, <2>10
  <2>. QED
    BY <1>1, <2>7, <2>8, <2>9, <2>10, OfficeSems
<1>8. ASSUME NEW u \in Threads
      PROVE  /\ at'[u] = <<"hold", 1>> => sampled'[u] = 1
             /\ at'[u] = <<"release", 1>> => sampled'[u] = 0
  <2>1. CASE u # t
    BY <1>1, <1>8, <2>1, OfficeOthers DEF Account
  <2>2. CASE u = t
    <3>1. at[t] = <<"hold", 0>> => sem["account"] = 1
      BY <1>1, <1>4, <1>5 DEF HasAccount, Account
    <3>2. at[t] = <<"release", 0>> => sem["account"] = 0
      BY <1>1, <1>4, <1>5 DEF HasAccount, Account
    <3>3. at'[t] \in {<<"hold", 1>>, <<"release", 1>>} =>
             /\ sampled'[t] = sem["account"]
             /\ \/ at'[t] = <<"hold", 1>> /\ at[t] = <<"hold", 0>>
                \/ at'[t] = <<"release", 1>> /\ at[t] = <<"release", 0>>
      BY <1>1, <1>3, OfficeSamples
    <3>4. at'[t] = <<"hold", 1>> => sampled'[t] = 1
      BY <3>1, <3>3
    <3>5. at'[t] = <<"release", 1>> => sampled'[t] = 0
      BY <3>2, <3>3
    <3>. QED
      BY <2>2, <3>4, <3>5
  <2>. QED
    BY <2>1, <2>2
<1>. QED
  BY <1>7, <1>8 DEF Account

LEMMA AccountMain ==
    ASSUME SyncInv, MainMoves
    PROVE  Account'
<1>1. SyncTyped /\ Exclusion /\ Account /\ MAIN \in Threads /\ MAIN \notin OfficeIds
  BY Offices DEF SyncInv
<1>2. sem \in [{"main_sem", "account"} -> Nat]
  BY <1>1 DEF SyncTyped, SyncTypeOK
<1>3. \A u \in Threads : /\ at'[u] = <<"hold", 1>> => sampled'[u] = 1
                         /\ at'[u] = <<"release", 1>> => sampled'[u] = 0
  <2>1. at'[MAIN] # <<"hold", 1>> /\ at'[MAIN] # <<"release", 1>>
    BY <1>1, MainBusy DEF Busy
  <2>2. \A u \in OfficeIds : /\ at'[u] = <<"hold", 1>> => sampled'[u] = 1
                             /\ at'[u] = <<"release", 1>> => sampled'[u] = 0
    BY <1>1, MainOthers, Offices DEF Account
  <2>. QED
    BY <2>1, <2>2, Offices
<1>4. Starting => \A u \in OfficeIds : at[u][1] \in {"unborn", "loop", "wait"}
  BY DEF SyncInv, Beginning
<1>5. \A u \in OfficeIds : at[u][1] \in {"delay", "release"} <=> at'[u][1] \in {"delay", "release"}
  BY <1>1, <1>4, MainOthers DEF Starting
<1>6. \A u \in OfficeIds : mutex = u <=> mutex' = u
  BY <1>1, MainLocks, Offices DEF Exclusion, Inside
<1>7. HasAccount' <=> HasAccount
  BY <1>5, <1>6 DEF HasAccount
<1>8. CASE Starting
  <2>1. ~HasAccount
    BY <1>4, <1>8 DEF HasAccount
  <2>2. Starting' \/ sem["account"]' = 1
    BY <1>1, <1>2, <1>8, MainSems DEF Starting
  <2>. QED
    BY <1>3, <1>7, <2>1, <2>2 DEF Account
<1>9. CASE ~Starting
  <2>1. ~Starting' /\ sem["account"]' = sem["account"]
    BY <1>1, <1>2, <1>9, MainSems DEF Starting
  <2>. QED
    BY <1>1, <1>3, <1>7, <1>9, <2>1 DEF Account
<1>. QED
  BY <1>8, <1>9

\* Once the server closes, no office is on its way to a request.
LEMMA ClosingOffice ==
    ASSUME SyncInv, NEW t \in OfficeIds, OfficeMoves(t)
    PROVE  Closing'
<1>1. SyncTyped /\ Closing /\ t \in Threads /\ MAIN \in Threads /\ MAIN # t
  BY Offices DEF SyncInv
<1>2. at'[MAIN] = at[MAIN] /\ close_thread' = close_thread
  BY <1>1, OfficeOthers, OfficeGoes
<1>3. close_thread => ~Fetching(t)'
  BY <1>1, OfficeFetches DEF Closing, Fetching
<1>4. \A u \in OfficeIds : u # t => (Fetching(u)' <=> Fetching(u))
  BY <1>1, OfficeOthers, Offices DEF Fetching
<1>. QED
  BY <1>1, <1>2, <1>3, <1>4 DEF Closing

LEMMA ClosingMain ==
    ASSUME SyncInv, MainMoves
    PROVE  Closing'
<1>1. SyncTyped /\ Closing /\ close_thread \in BOOLEAN
  BY DEF SyncInv, SyncTyped, SyncTypeOK
<1>2. at'[MAIN][1] \in {"linger", "wake", "join", "exited"} => close_thread'
  BY <1>1, MainCloses DEF Closing
<1>3. \A u \in OfficeIds : Fetching(u)' => Fetching(u)
  BY <1>1, MainOthers DEF Fetching
<1>4. close_thread' => \A u \in OfficeIds : ~Fetching(u)
  <2>1. CASE close_thread
    BY <1>1, <2>1 DEF Closing
  <2>2. CASE close_thread' /\ ~close_thread
    <3>1. size = 0
      BY <1>1, <2>2, MainCloses
    <3>. QED
      BY <3>1, HeadIsThere
  <2>. QED
    BY <2>1, <2>2
<1>. QED
  BY <1>2, <1>3, <1>4 DEF Closing

-----------------------------------------------------------------------------
(* Counting posts, wake-ups and requests. *)

\* Labels that differ.
LEMMA Phases ==
    /\ <<"take", 0>> # <<"take", 1>> /\ <<"take", 0>> # <<"take", 2>>
    /\ <<"take", 1>> # <<"take", 2>> /\ <<"wait", 2>> # <<"take", 1>>
    /\ <<"wait", 2>> # <<"take", 2>> /\ <<"wait", 2>> # <<"woken", 0>>
    /\ <<"wait", 2>> # <<"hold", 2>> /\ <<"wait", 2>> # <<"release", 2>>
    /\ <<"woken", 0>> # <<"take", 1>> /\ <<"woken", 0>> # <<"take", 2>>
    /\ <<"lock", 1>> # <<"take", 2>> /\ <<"release", 1>> # <<"take", 2>>
    /\ <<"lock", 0>> # <<"take", 2>> /\ <<"done", 0>> # <<"take", 2>>
    /\ <<"read", 0>> # <<"push", 0>> /\ <<"post", 2>> # <<"push", 0>>
    /\ <<"init", 1>> # <<"post", 2>> /\ <<"admin", 1>> # <<"post", 2>>
    /\ <<"init", 1>> # <<"wake", 2>> /\ <<"admin", 1>> # <<"wake", 2>>
OBVIOUS

\* Sets of offices that agree but for t.
LEMMA OneOffice ==
    ASSUME NEW S \in SUBSET OfficeIds, NEW T \in SUBSET OfficeIds, NEW t \in OfficeIds,
           \A u \in OfficeIds : u # t => (u \in T <=> u \in S)
    PROVE  /\ t \notin S /\ t \in T => Cardinality(T) = Cardinality(S) + 1
           /\ t \in S /\ t \notin T => Cardinality(T) = Cardinality(S) - 1
           /\ (t \in S <=> t \in T) => Cardinality(T) = Cardinality(S)
<1>1. ASSUME t \in S <=> t \in T PROVE Cardinality(T) = Cardinality(S)
  <2>1. \A u : u \in T <=> u \in S
    BY <1>1
  <2>2. T = S
    BY <2>1
  <2>. QED
    BY <2>2
<1>2. ASSUME t \notin S, t \in T PROVE Cardinality(T) = Cardinality(S) + 1
  <2>1. \A u : u \in T <=> u \in S \cup {t}
    BY <1>2
  <2>2. T = S \cup {t}
    BY <2>1
  <2>. QED
    BY <1>2, <2>2, OfficesFinite, FS_AddElement
<1>3. ASSUME t \in S, t \notin T PROVE Cardinality(T) = Cardinality(S) - 1
  <2>1. \A u : u \in T <=> u \in S \ {t}
    BY <1>3
  <2>2. T = S \ {t}
    BY <2>1
  <2>. QED
    BY <1>3, <2>2, OfficesFinite, FS_RemoveElement
<1>. QED
  BY <1>1, <1>2, <1>3

\* What an office's step does to the two sets.
LEMMA CollectingOffice ==
    ASSUME SyncInv, NEW t \in OfficeIds, OfficeMoves(t)
    PROVE  \/ /\ at[t] = <<"wait", 2>> /\ at'[t] = <<"woken", 0>>
              /\ Cardinality(Collecting') = Cardinality(Collecting) + 1
              /\ Cardinality(PastMainSem') = Cardinality(PastMainSem) + 1
           \/ /\ at[t] = <<"woken", 0>> /\ at'[t] = <<"done", 0>> /\ close_thread
              /\ Cardinality(PastMainSem') = Cardinality(PastMainSem) - 1
           \/ /\ at[t] = <<"take", 1>> /\ at'[t] = <<"take", 2>>
              /\ Cardinality(Collecting') = Cardinality(Collecting) - 1
              /\ Cardinality(PastMainSem') = Cardinality(PastMainSem)
           \/ /\ at[t] = <<"take", 2>> /\ at'[t] = <<"hold", 0>>
              /\ Cardinality(Collecting') = Cardinality(Collecting)
              /\ Cardinality(PastMainSem') = Cardinality(PastMainSem) - 1
           \/ /\ at[t] \notin {<<"wait", 2>>, <<"take", 1>>, <<"take", 2>>}
              /\ at'[t] # <<"take", 2>>
              /\ Cardinality(Collecting') = Cardinality(Collecting)
              /\ Cardinality(PastMainSem') = Cardinality(PastMainSem)
<1>1. SyncTyped /\ OfficeIds \subseteq Threads
  BY Offices DEF SyncInv
<1>2. \A u \in OfficeIds : u # t => at'[u] = at[u]
  BY <1>1, OfficeOthers
<1>3. /\ Collecting \in SUBSET OfficeIds /\ PastMainSem \in SUBSET OfficeIds
      /\ Collecting' \in SUBSET OfficeIds /\ PastMainSem' \in SUBSET OfficeIds
  BY DEF Collecting, PastMainSem
<1>4. \A u \in OfficeIds : u # t => (u \in Collecting' <=> u \in Collecting)
  BY <1>2 DEF Collecting, Fetching
<1>8. \A u \in OfficeIds : u # t => (u \in PastMainSem' <=> u \in PastMainSem)
  BY <1>2 DEF PastMainSem
<1>5. /\ t \in Collecting <=> at[t][1] = "woken" \/ Fetching(t)
      /\ t \in Collecting' <=> at'[t][1] = "woken" \/ Fetching(t)'
      /\ t \in PastMainSem <=> at[t][1] \in {"woken", "lock", "take"}
      /\ t \in PastMainSem' <=> at'[t][1] \in {"woken", "lock", "take"}
  BY DEF Collecting, PastMainSem
<1>6. /\ t \notin Collecting /\ t \in Collecting' =>
           Cardinality(Collecting') = Cardinality(Collecting) + 1
      /\ t \in Collecting /\ t \notin Collecting' =>
           Cardinality(Collecting') = Cardinality(Collecting) - 1
      /\ (t \in Collecting <=> t \in Collecting') =>
           Cardinality(Collecting') = Cardinality(Collecting)
  BY <1>3, <1>4, OneOffice
<1>7. /\ t \notin PastMainSem /\ t \in PastMainSem' =>
           Cardinality(PastMainSem') = Cardinality(PastMainSem) + 1
      /\ t \in PastMainSem /\ t \notin PastMainSem' =>
           Cardinality(PastMainSem') = Cardinality(PastMainSem) - 1
      /\ (t \in PastMainSem <=> t \in PastMainSem') =>
           Cardinality(PastMainSem') = Cardinality(PastMainSem)
  BY <1>3, <1>8, OneOffice
<1>12. CASE at[t] = <<"wait", 2>> /\ at'[t] = <<"woken", 0>>
  BY <1>5, <1>6, <1>7, <1>12, Phases DEF Fetching
<1>13. CASE at[t] = <<"woken", 0>> /\ at'[t] = <<"lock", 0>>
  BY <1>5, <1>6, <1>7, <1>13, Phases DEF Fetching
<1>14. CASE at[t] = <<"woken", 0>> /\ at'[t] = <<"done", 0>> /\ close_thread
  BY <1>5, <1>6, <1>7, <1>14, Phases DEF Fetching
<1>15. CASE at[t] = <<"take", 1>> /\ at'[t] = <<"take", 2>>
  BY <1>5, <1>6, <1>7, <1>15, Phases DEF Fetching
<1>16. CASE at[t] = <<"take", 2>> /\ at'[t] = <<"hold", 0>>
  BY <1>5, <1>6, <1>7, <1>16, Phases DEF Fetching
<1>17. CASE /\ at[t][1] # "woken" /\ at'[t][1] # "woken"
            /\ at[t][1] \in {"lock", "take"} <=> at'[t][1] \in {"lock", "take"}
            /\ (Fetching(t) <=> Fetching(t)')
            /\ at[t] \notin {<<"wait", 2>>, <<"take", 1>>, <<"take", 2>>}
  <2>1. /\ Cardinality(Collecting') = Cardinality(Collecting)
        /\ Cardinality(PastMainSem') = Cardinality(PastMainSem)
    BY <1>5, <1>6, <1>7, <1>17
  <2>2. at[t] # <<"take", 1>>
    BY <1>17
  <2>3. at'[t] # <<"take", 2>>
    BY <1>1, <2>2, OfficeTakes, Phases
  <2>. QED
    BY <1>17, <2>1, <2>3
<1>18. \/ at[t] = <<"wait", 2>> /\ at'[t] = <<"woken", 0>>
       \/ at[t] = <<"woken", 0>> /\ at'[t] = <<"lock", 0>>
       \/ at[t] = <<"woken", 0>> /\ at'[t] = <<"done", 0>> /\ close_thread
       \/ at[t] = <<"take", 1>> /\ at'[t] = <<"take", 2>>
       \/ at[t] = <<"take", 2>> /\ at'[t] = <<"hold", 0>>
       \/ /\ at[t][1] # "woken" /\ at'[t][1] # "woken"
          /\ at[t][1] \in {"lock", "take"} <=> at'[t][1] \in {"lock", "take"}
          /\ (Fetching(t) <=> Fetching(t)')
          /\ at[t] \notin {<<"wait", 2>>, <<"take", 1>>, <<"take", 2>>}
  BY <1>1, OfficeFetches
<1>. QED
  BY <1>12, <1>13, <1>14, <1>15, <1>16, <1>17, <1>18

LEMMA CollectingMain ==
    ASSUME SyncInv, MainMoves
    PROVE  Collecting' = Collecting /\ PastMainSem' = PastMainSem
<1>1. SyncTyped
  BY DEF SyncInv
<1>2. at[MAIN] = <<"create", 0>> => \A u \in OfficeIds : at[u][1] \in {"unborn", "loop", "wait"}
  BY DEF SyncInv, Beginning, Starting
<1>3. \A u \in OfficeIds : \/ at'[u] = at[u]
                           \/ at[u][1] \in {"unborn", "loop", "wait"} /\ at'[u] = <<"loop", 0>>
  BY <1>1, <1>2, MainOthers
<1>. QED
  BY <1>3 DEF Collecting, PastMainSem, Fetching

\* As long as the server does not close, main_sem and the offices that it has let go
\* are as many as the requests that wait.
LEMMA TokensOffice ==
    ASSUME SyncInv, NEW t \in OfficeIds, OfficeMoves(t)
    PROVE  Tokens'
<1>1. SyncTyped /\ Tokens /\ MAIN \in Threads /\ MAIN # t
  BY Offices DEF SyncInv
<1>2. close_thread' = close_thread /\ Unposted' = Unposted
  BY <1>1, OfficeGoes, OfficeOthers DEF Unposted
<1>3. SUFFICES ASSUME ~close_thread
               PROVE  sem["main_sem"]' + Cardinality(Collecting') + Unposted = size'
  BY <1>2 DEF Tokens
<1>4. /\ sem \in [{"main_sem", "account"} -> Nat] /\ size \in Nat
      /\ Unposted \in Nat /\ Cardinality(Collecting) \in Nat
  BY <1>1, OfficesFinite DEF SyncTyped, SyncTypeOK, ListTypeOK, Unposted, Collecting
<1>5. sem["main_sem"] + Cardinality(Collecting) + Unposted = size
  BY <1>1, <1>3 DEF Tokens
<1>6. sem["main_sem"]' = IF at[t] = <<"wait", 2>> THEN sem["main_sem"] - 1 ELSE sem["main_sem"]
  BY <1>1, <1>4, OfficeSems
<1>7. size' = IF at[t] = <<"take", 1>> THEN size - 1 ELSE size
  <2>1. CASE at[t] = <<"take", 1>>
    <3>1. head # NULL
      BY <2>1, HeadIsThere DEF Fetching
    <3>2. list_queue_pop
      BY <1>1, <2>1, OfficeTakes, Phases
    <3>. QED
      BY <2>1, <3>1, <3>2 DEF list_queue_pop
  <2>2. CASE at[t] # <<"take", 1>>
    BY <1>1, <2>2, OfficeTakes DEF list_vars
  <2>. QED
    BY <2>1, <2>2
<1>8. Cardinality(Collecting') = IF at[t] = <<"wait", 2>> THEN Cardinality(Collecting) + 1
                                ELSE IF at[t] = <<"take", 1>> THEN Cardinality(Collecting) - 1
                                ELSE Cardinality(Collecting)
  BY <1>3, <1>4, CollectingOffice, Phases
<1>9. <<"wait", 2>> # <<"take", 1>>
  OBVIOUS
<1>. QED
  BY <1>4, <1>5, <1>6, <1>7, <1>8, <1>9

LEMMA TokensMain ==
    ASSUME SyncInv, MainMoves
    PROVE  Tokens'
<1>1. SyncTyped /\ Tokens /\ Closing /\ Beginning
  BY DEF SyncInv
<1>2. SUFFICES ASSUME ~close_thread'
               PROVE  sem["main_sem"]' + Cardinality(Collecting') + Unposted' = size'
  BY DEF Tokens
<1>3. ~close_thread
  BY <1>1, <1>2, MainCloses DEF SyncTyped, SyncTypeOK
<1>4. /\ sem \in [{"main_sem", "account"} -> Nat] /\ size \in Nat
      /\ Cardinality(Collecting) \in Nat
  BY <1>1, OfficesFinite DEF SyncTyped, SyncTypeOK, ListTypeOK, Collecting
<1>5. sem["main_sem"] + Cardinality(Collecting) + Unposted = size
  BY <1>1, <1>3 DEF Tokens
<1>6. at[MAIN] # <<"wake", 2>>
  BY <1>1, <1>3 DEF Closing
<1>7. sem["main_sem"]' = IF at[MAIN] = <<"post", 2>> THEN sem["main_sem"] + 1
                                                      ELSE sem["main_sem"]
  <2>1. CASE at[MAIN] = <<"init", 1>> /\ sem' = [sem EXCEPT !["main_sem"] = 0]
    <3>1. sem["main_sem"] = 0
      BY <1>1, <2>1 DEF Beginning, Starting
    <3>. QED
      BY <1>4, <2>1, <3>1, Phases
  <2>2. CASE at[MAIN] = <<"admin", 1>> /\ sem' = [sem EXCEPT !["account"] = 1]
    BY <1>4, <2>2, Phases
  <2>3. CASE /\ at[MAIN] \in {<<"post", 2>>, <<"wake", 2>>}
             /\ sem' = [sem EXCEPT !["main_sem"] = @ + 1]
    BY <1>4, <1>6, <2>3
  <2>4. CASE sem' = sem /\ at[MAIN] \notin {<<"post", 2>>, <<"wake", 2>>}
    BY <2>4
  <2>. QED
    BY <1>1, <2>1, <2>2, <2>3, <2>4, MainSems
<1>8. size' = IF at[MAIN] = <<"push", 0>> THEN size + 1 ELSE size
  BY <1>1, <1>4, MainWorks, Phases DEF list_queue_push, list_vars
<1>9. Unposted' = IF at[MAIN] = <<"push", 0>> THEN 1
                  ELSE IF at[MAIN] = <<"post", 2>> THEN 0 ELSE Unposted
  <2>1. CASE at[MAIN] = <<"push", 0>> /\ at'[MAIN] = <<"unlock", 0>>
    BY <2>1 DEF Unposted
  <2>2. CASE at[MAIN] = <<"post", 2>> /\ at'[MAIN][1] \notin {"unlock", "post"}
    BY <2>2, Phases DEF Unposted
  <2>3. CASE /\ at[MAIN] \notin {<<"push", 0>>, <<"post", 2>>}
             /\ at[MAIN][1] \in {"unlock", "post"} <=> at'[MAIN][1] \in {"unlock", "post"}
    BY <2>3 DEF Unposted
  <2>. QED
    BY <1>1, <2>1, <2>2, <2>3, MainOwes
<1>10. /\ at[MAIN] = <<"push", 0>> => Unposted = 0
       /\ at[MAIN] = <<"post", 2>> => Unposted = 1
       /\ Unposted \in Nat
  BY DEF Unposted
<1>. QED
  BY <1>4, <1>5, <1>7, <1>8, <1>9, <1>10, CollectingMain

\* An entry of a post counts if main makes it.
LEMMA PostCounted ==
    ASSUME SyncTyped, NEW t \in Threads, NEW n \in Nat, Posts' = Append(Posts, <<t, n>>)
    PROVE  Cardinality(MainPosts') = Cardinality(MainPosts) + IF t = MAIN THEN 1 ELSE 0
<1>1. Posts \in Seq(Threads \X Nat)
  BY DEF SyncTyped, SyncTypeOK
<1>2. /\ Len(Posts') = Len(Posts) + 1 /\ Posts'[Len(Posts) + 1] = <<t, n>>
      /\ \A i \in 1 .. Len(Posts) : Posts'[i] = Posts[i]
  BY <1>1
<1>3. Len(Posts) \in Nat /\ IsFiniteSet(1 .. Len(Posts))
  BY <1>1, FS_Interval
<1>4. MainPosts = {i \in 1 .. Len(Posts) : Posts[i][1] = MAIN}
  BY DEF MainPosts, Posts
<1>5. MainPosts' = {i \in 1 .. Len(Posts) + 1 : Posts'[i][1] = MAIN}
  BY <1>2 DEF MainPosts, Posts
<1>6. IsFiniteSet(MainPosts) /\ Len(Posts) + 1 \notin MainPosts
  BY <1>3, <1>4, FS_Subset
<1>7. \A i : i # Len(Posts) + 1 => (i \in MainPosts' <=> i \in MainPosts)
  <2>1. \A i : i # Len(Posts) + 1 => (i \in 1 .. Len(Posts) + 1 <=> i \in 1 .. Len(Posts))
    BY <1>3
  <2>. QED
    BY <1>2, <1>4, <1>5, <2>1
<1>8. Len(Posts) + 1 \in MainPosts' <=> t = MAIN
  BY <1>2, <1>3, <1>5
<1>9. CASE t = MAIN
  <2>1. \A i : i \in MainPosts' <=> i \in MainPosts \cup {Len(Posts) + 1}
    BY <1>7, <1>8, <1>9
  <2>2. MainPosts' = MainPosts \cup {Len(Posts) + 1}
    BY <2>1
  <2>. QED
    BY <1>6, <1>9, <2>2, FS_AddElement
<1>10. CASE t # MAIN
  <2>1. \A i : i \in MainPosts' <=> i \in MainPosts
    BY <1>6, <1>7, <1>8, <1>10
  <2>2. MainPosts' = MainPosts
    BY <2>1
  <2>. QED
    BY <1>6, <1>10, <2>2, FS_CardinalityType
<1>. QED
  BY <1>9, <1>10

LEMMA PostsFinite == SyncTyped => Cardinality(MainPosts) \in Nat
<1>1. SUFFICES ASSUME SyncTyped PROVE Cardinality(MainPosts) \in Nat
  OBVIOUS
<1>2. Posts \in Seq(Threads \X Nat)
  BY <1>1 DEF SyncTyped, SyncTypeOK
<1>3. IsFiniteSet(1 .. Len(Posts)) /\ MainPosts \subseteq 1 .. Len(Posts)
  BY <1>2, FS_Interval DEF MainPosts, Posts
<1>. QED
  BY <1>3, FS_Subset, FS_CardinalityType

\* Each wake-up there was or may be has its entry of a post by main.
LEMMA PostedOffice ==
    ASSUME SyncInv, NEW t \in OfficeIds, OfficeMoves(t)
    PROVE  Posted'
<1>1. SyncTyped /\ Posted /\ t \in Threads /\ MAIN \in Threads /\ MAIN # t
  BY Offices DEF SyncInv
<1>2. /\ sem \in [{"main_sem", "account"} -> Nat] /\ sampled[t] \in Nat
      /\ Cardinality(PastMainSem) \in Nat /\ Posting \in Nat
      /\ Served \in Seq(Threads \X Values) /\ held[t] \in Values
  BY <1>1, OfficesFinite DEF SyncTyped, SyncTypeOK, PastMainSem, Posting
<1>3. Posting' = Posting
  BY <1>1, OfficeOthers DEF Posting
<1>4. Cardinality(MainPosts)' = Cardinality(MainPosts) /\ Cardinality(MainPosts) \in Nat
  <2>1. CASE Posts' = Posts
    BY <1>1, <2>1, PostsFinite DEF MainPosts, Posts
  <2>2. CASE Posts' = Append(Posts, <<t, sampled[t]>>)
    BY <1>1, <1>2, <2>2, PostCounted, PostsFinite
  <2>. QED
    BY <1>1, <2>1, <2>2, OfficeEntries
<1>5. sem["main_sem"]' = IF at[t] = <<"wait", 2>> THEN sem["main_sem"] - 1 ELSE sem["main_sem"]
  BY <1>1, <1>2, OfficeSems
<1>6. /\ Len(Served') = IF at[t] = <<"take", 2>> THEN Len(Served) + 1 ELSE Len(Served)
      /\ Len(Served) \in Nat
  BY <1>1, <1>2, OfficeEntries
<1>7. \/ at[t] = <<"wait", 2>> /\ Cardinality(PastMainSem') = Cardinality(PastMainSem) + 1
      \/ at[t] = <<"take", 2>> /\ Cardinality(PastMainSem') = Cardinality(PastMainSem) - 1
      \/ /\ at[t] # <<"wait", 2>> /\ at[t] # <<"take", 2>>
         /\ Cardinality(PastMainSem') <= Cardinality(PastMainSem)
  <2>1. CASE /\ at[t] = <<"woken", 0>>
             /\ Cardinality(PastMainSem') = Cardinality(PastMainSem) - 1
    <3>1. at[t] # <<"wait", 2>> /\ at[t] # <<"take", 2>>
      BY <2>1, Phases
    <3>2. Cardinality(PastMainSem') <= Cardinality(PastMainSem)
      BY <1>2, <2>1
    <3>. QED
      BY <3>1, <3>2
  <2>2. CASE /\ at[t] = <<"take", 1>>
             /\ Cardinality(PastMainSem') = Cardinality(PastMainSem)
    BY <1>2, <2>2, Phases
  <2>3. CASE /\ at[t] \notin {<<"wait", 2>>, <<"take", 1>>, <<"take", 2>>}
             /\ Cardinality(PastMainSem') = Cardinality(PastMainSem)
    <3>1. at[t] # <<"wait", 2>> /\ at[t] # <<"take", 2>>
      BY <2>3
    <3>2. Cardinality(PastMainSem') <= Cardinality(PastMainSem)
      BY <1>2, <2>3
    <3>. QED
      BY <3>1, <3>2
  <2>. QED
    BY <2>1, <2>2, <2>3, CollectingOffice
<1>8. Cardinality(PastMainSem') \in Nat /\ <<"wait", 2>> # <<"take", 2>>
  BY OfficesFinite DEF PastMainSem
<1>9. sem["main_sem"] \in Nat
  BY <1>2
<1>10. sem["main_sem"] + Cardinality(PastMainSem) + Len(Served) + Posting
         <= Cardinality(MainPosts)
  BY <1>1 DEF Posted
<1>11. sem["main_sem"]' + Cardinality(PastMainSem') + Len(Served') + Posting
         <= Cardinality(MainPosts)
  <2>1. CASE at[t] = <<"wait", 2>>
    BY <1>2, <1>4, <1>5, <1>6, <1>7, <1>8, <1>9, <1>10, <2>1
  <2>2. CASE at[t] = <<"take", 2>>
    BY <1>2, <1>4, <1>5, <1>6, <1>7, <1>8, <1>9, <1>10, <2>2
  <2>3. CASE at[t] # <<"wait", 2>> /\ at[t] # <<"take", 2>>
    <3>1. /\ sem["main_sem"]' = sem["main_sem"] /\ Len(Served') = Len(Served)
          /\ Cardinality(PastMainSem') <= Cardinality(PastMainSem)
      BY <1>5, <1>6, <1>7, <2>3
    <3>. QED
      BY <1>2, <1>4, <1>6, <1>8, <1>9, <1>10, <3>1
  <2>. QED
    BY <2>1, <2>2, <2>3
<1>. QED
  BY <1>3, <1>4, <1>11 DEF Posted

LEMMA PostedMain ==
    ASSUME SyncInv, MainMoves
    PROVE  Posted'
<1>1. SyncTyped /\ Posted /\ Beginning /\ MAIN \in Threads
  BY Offices DEF SyncInv
<1>2. /\ sem \in [{"main_sem", "account"} -> Nat] /\ sampled[MAIN] \in Nat
      /\ Cardinality(PastMainSem) \in Nat
      /\ Served \in Seq(Threads \X Values) /\ Len(Served) \in Nat
  BY <1>1, OfficesFinite DEF SyncTyped, SyncTypeOK, PastMainSem
<1>3. Served' = Served /\ PastMainSem' = PastMainSem
  BY <1>1, MainEntries, CollectingMain
<1>4. sem["main_sem"]' = IF at[MAIN] \in {<<"post", 2>>, <<"wake", 2>>}
                         THEN sem["main_sem"] + 1 ELSE sem["main_sem"]
  BY <1>1, <1>2, MainSems DEF Beginning, Starting
<1>5. at[MAIN] \in {<<"post", 2>>, <<"wake", 2>>} =>
        at'[MAIN] \notin {<<"post", 2>>, <<"wake", 2>>}
  BY <1>1, MainSems
<1>6. /\ Cardinality(MainPosts)' = Cardinality(MainPosts) + Posting'
      /\ Cardinality(MainPosts) \in Nat
  <2>1. CASE Posts' = Posts /\ at'[MAIN] \notin {<<"post", 2>>, <<"wake", 2>>}
    <3>1. Posting' = 0
      BY <2>1 DEF Posting
    <3>2. MainPosts' = MainPosts /\ Cardinality(MainPosts) \in Nat
      BY <1>1, <2>1, PostsFinite DEF MainPosts, Posts
    <3>. QED
      BY <3>1, <3>2
  <2>2. CASE /\ Posts' = Append(Posts, <<MAIN, sampled[MAIN]>>)
             /\ at'[MAIN] \in {<<"post", 2>>, <<"wake", 2>>}
    BY <1>1, <1>2, <2>2, PostCounted, PostsFinite DEF Posting
  <2>. QED
    BY <1>1, <2>1, <2>2, MainEntries
<1>7. /\ Posting = IF at[MAIN] \in {<<"post", 2>>, <<"wake", 2>>} THEN 1 ELSE 0
      /\ Posting' = IF at'[MAIN] \in {<<"post", 2>>, <<"wake", 2>>} THEN 1 ELSE 0
  BY DEF Posting
<1>. QED
  BY <1>1, <1>2, <1>3, <1>4, <1>5, <1>6, <1>7 DEF Posted

-----------------------------------------------------------------------------
(* The order of the requests. *)

\* The numbers are natural ones.
LEMMA OrderNumbers ==
    SyncInv => /\ Len(Served) \in Nat /\ size \in Nat /\ Popped \in Nat /\ Incoming \in Nat
               /\ Served \in Seq(Threads \X Values) /\ arrived \in Nat
               /\ arrived <= Len(arrivals) /\ arrivals \in Seq(Values)
BY DEF SyncInv, SyncTyped, SyncTypeOK, ListTypeOK, Popped, Incoming

\* The office that is at the queue is the only one.
LEMMA OneTaker ==
    SyncInv => \A t \in OfficeIds, u \in Threads : at[t][1] = "take" /\ Inside(u) => u = t
BY Offices DEF SyncInv, Exclusion, Inside, Busy

\* An office looks at the head and pops it.
LEMMA OrderPop ==
    ASSUME SyncInv, NEW t \in OfficeIds, OfficeMoves(t),
           at[t] = <<"take", 1>>, at'[t] = <<"take", 2>>, list_queue_pop, held' = held,
           UNCHANGED arrivals
    PROVE  Order'
<1>1. /\ SyncTyped /\ Order /\ t \in Threads /\ MAIN \in Threads /\ MAIN # t
      /\ OfficeIds \subseteq Threads
  BY Offices DEF SyncInv
<1>2. head # NULL /\ ListTypeOK
  BY HeadIsThere DEF Fetching, SyncInv, SyncTyped, SyncTypeOK
<1>3. PICK c \in [1 .. size -> Addresses] :
         IsChain(c) /\ \A i \in 1 .. size : stored[c[i]] = arrivals[Len(Served) + Popped + i]
  BY <1>1 DEF Order
<1>4. PICK d \in [1 .. size' -> Addresses] :
         IsChain(d)' /\ Along(d)' = Tail(Along(c)) /\ Along(c) # << >>
  BY <1>2, <1>3, PopChain
<1>5. size' = size - 1 /\ size \in Nat /\ size # 0 /\ stored' = stored
  BY <1>2, <1>3 DEF list_queue_pop, IsChain, ListTypeOK
<1>6. Served' = Served /\ UNCHANGED arrived
  BY <1>1, OfficeEntries, OfficeGoes, Phases
<1>7. \A u \in OfficeIds : u # t => at[u][1] # "take" /\ at'[u] = at[u]
  BY <1>1, OneTaker, OfficeOthers DEF Inside, Busy
<1>8. ~HasPopped /\ HasPopped' /\ Popped = 0 /\ Popped' = 1
  BY <1>7, Phases DEF HasPopped, Popped
<1>9. Incoming' = Incoming /\ at'[MAIN] = at[MAIN]
  BY <1>1, OfficeOthers DEF Incoming
<1>10. Len(Served') + Popped' + size' + Incoming' = arrived'
  BY <1>1, <1>5, <1>6, <1>8, <1>9, OrderNumbers DEF Order
<1>11. \A i \in 1 .. size' : stored'[d[i]] = arrivals[Len(Served') + Popped' + i]
  <2>1. SUFFICES ASSUME NEW i \in 1 .. size' PROVE stored'[d[i]] = arrivals[Len(Served) + 1 + i]
    BY <1>6, <1>8
  <2>2. /\ i + 1 \in 1 .. size /\ i \in 1 .. size - 1
        /\ Len(Served) + 0 + (i + 1) = Len(Served) + 1 + i
    BY <1>5, <2>1, OrderNumbers
  <2>3. stored[c[i + 1]] = arrivals[Len(Served) + 1 + i]
    BY <1>3, <1>8, <2>2
  <2>4. Along(c) \in Seq(Values) /\ Len(Along(c)) = size /\ Along(c)[i + 1] = stored[c[i + 1]]
    <3>1. \A j \in 1 .. size : stored[c[j]] \in Values
      BY <1>2 DEF ListTypeOK
    <3>2. Along(c) = [j \in 1 .. size |-> stored[c[j]]]
      BY DEF Along
    <3>. QED
      BY <1>5, <2>2, <3>1, <3>2
  <2>5. Along(d)'[i] = stored'[d[i]]
    BY <2>1 DEF Along
  <2>6. \A s \in Seq(Values) : s # << >> /\ i \in 1 .. Len(s) - 1 => Tail(s)[i] = s[i + 1]
    BY HeadTailProperties
  <2>. QED
    BY <1>4, <2>2, <2>3, <2>4, <2>5, <2>6
<1>12. held[t] = arrivals[Len(Served) + 1]
  <2>1. held[t] = stored[head]
    BY <1>1 DEF Order
  <2>2. head = c[1] /\ 1 \in 1 .. size
    BY <1>3, <1>5 DEF IsChain
  <2>3. stored[c[1]] = arrivals[Len(Served) + 0 + 1]
    BY <1>3, <1>8, <2>2
  <2>4. Len(Served) + 0 + 1 = Len(Served) + 1
    BY OrderNumbers
  <2>. QED
    BY <2>1, <2>2, <2>3, <2>4
<1>13. \A u \in OfficeIds :
          /\ at'[u] = <<"take", 1>> => held'[u] = stored'[head']
          /\ at'[u] = <<"take", 2>> => held'[u] = arrivals[Len(Served') + 1]
  BY <1>6, <1>7, <1>12, Phases
<1>14. Incoming' = 1 => held'[MAIN] = arrivals[arrived']
  BY <1>1, <1>6, <1>9 DEF Order
<1>15. \A i \in 1 .. Len(Served') : Served'[i][2] = arrivals[i]
  BY <1>1, <1>6 DEF Order
<1>. QED
  BY <1>4, <1>10, <1>11, <1>13, <1>14, <1>15 DEF Order

\* It logs the request that it has popped.
LEMMA OrderServe ==
    ASSUME SyncInv, NEW t \in OfficeIds, OfficeMoves(t),
           at[t] = <<"take", 2>>, at'[t] = <<"hold", 0>>, UNCHANGED list_vars,
           Served' = Append(Served, <<t, held[t]>>), UNCHANGED arrivals
    PROVE  Order'
<1>1. /\ SyncTyped /\ Order /\ t \in Threads /\ MAIN \in Threads /\ MAIN # t
      /\ OfficeIds \subseteq Threads
  BY Offices DEF SyncInv
<1>2. UNCHANGED <<size, head, stored>> /\ UNCHANGED arrived
  BY <1>1, OfficeGoes DEF list_vars
<1>3. PICK c \in [1 .. size -> Addresses] :
         IsChain(c) /\ \A i \in 1 .. size : stored[c[i]] = arrivals[Len(Served) + Popped + i]
  BY <1>1 DEF Order
<1>4. c \in [1 .. size' -> Addresses] /\ IsChain(c)'
  BY <1>2, <1>3 DEF IsChain, list_vars
<1>5. /\ Len(Served') = Len(Served) + 1 /\ Served'[Len(Served) + 1][2] = held[t]
      /\ \A i \in 1 .. Len(Served) : Served'[i] = Served[i]
  BY OrderNumbers
<1>6. \A u \in OfficeIds : u # t => at[u][1] # "take" /\ at'[u] = at[u]
  BY <1>1, OneTaker, OfficeOthers DEF Inside, Busy
<1>7. HasPopped /\ ~HasPopped' /\ Popped = 1 /\ Popped' = 0
  BY <1>6 DEF HasPopped, Popped
<1>8. Incoming' = Incoming /\ at'[MAIN] = at[MAIN] /\ held'[MAIN] = held[MAIN]
  BY <1>1, OfficeOthers DEF Incoming
<1>9. Len(Served') + Popped' + size' + Incoming' = arrived'
  BY <1>1, <1>2, <1>5, <1>7, <1>8, OrderNumbers DEF Order
<1>10. \A i \in 1 .. size' : stored'[c[i]] = arrivals[Len(Served') + Popped' + i]
  <2>1. \A i \in 1 .. size : Len(Served) + 1 + i = Len(Served') + 0 + i
    BY <1>5, OrderNumbers
  <2>. QED
    BY <1>2, <1>3, <1>7, <2>1
<1>11. held[t] = arrivals[Len(Served) + 1]
  BY <1>1 DEF Order
<1>12. \A i \in 1 .. Len(Served') : Served'[i][2] = arrivals[i]
  <2>1. \A i \in 1 .. Len(Served) + 1 : i \in 1 .. Len(Served) \/ i = Len(Served) + 1
    BY OrderNumbers
  <2>. QED
    BY <1>1, <1>5, <1>11, <2>1 DEF Order
<1>13. Incoming' = 1 => held'[MAIN] = arrivals[arrived']
  BY <1>1, <1>2, <1>8 DEF Order
<1>14. \A u \in OfficeIds : at'[u] # <<"take", 1>> /\ at'[u] # <<"take", 2>>
  BY <1>6
<1>. QED
  BY <1>4, <1>9, <1>10, <1>12, <1>13, <1>14 DEF Order

\* Whatever else an office does leaves the queue and what is served alone.
LEMMA OrderOffice ==
    ASSUME SyncInv, NEW t \in OfficeIds, OfficeMoves(t), UNCHANGED arrivals
    PROVE  Order'
<1>1. /\ SyncTyped /\ Order /\ t \in Threads /\ MAIN \in Threads /\ MAIN # t
      /\ OfficeIds \subseteq Threads
  BY Offices DEF SyncInv
<1>2. CASE at[t] = <<"take", 1>>
  <2>1. at'[t] = <<"take", 2>> /\ list_queue_pop /\ held' = held
    BY <1>1, <1>2, OfficeTakes, Phases
  <2>. QED
    BY <1>2, <2>1, OrderPop
<1>3. CASE at[t] = <<"take", 2>>
  <2>1. at'[t] = <<"hold", 0>> /\ Served' = Append(Served, <<t, held[t]>>)
    BY <1>1, <1>3, OfficeEntries, Phases
  <2>2. UNCHANGED list_vars
    BY <1>1, <1>3, OfficeTakes, Phases
  <2>. QED
    BY <1>3, <2>1, <2>2, OrderServe
<1>4. CASE at[t] # <<"take", 1>> /\ at[t] # <<"take", 2>>
  <2>1. UNCHANGED list_vars /\ at'[t] # <<"take", 2>>
        /\ (at'[t] = <<"take", 1>> => held'[t] = stored[head])
    <3>1. held \in [Threads -> Values]
      BY <1>1 DEF SyncTyped, SyncTypeOK
    <3>. QED
      BY <1>1, <1>4, <3>1, OfficeTakes, Phases
  <2>2. Served' = Served
    BY <1>1, <1>4, OfficeEntries
  <2>3. UNCHANGED <<size, head, stored>> /\ UNCHANGED arrived
    BY <1>1, <2>1, OfficeGoes DEF list_vars
  <2>4. \A u \in Threads : u # t => at'[u] = at[u] /\ held'[u] = held[u]
    BY <1>1, OfficeOthers
  <2>5. Popped' = Popped /\ Incoming' = Incoming
    BY <1>1, <1>4, <2>1, <2>4 DEF Popped, HasPopped, Incoming
  <2>6. \A c \in [1 .. size -> Addresses] : IsChain(c) => IsChain(c)'
    BY <2>1 DEF IsChain, list_vars
  <2>7. \A u \in OfficeIds :
           /\ at'[u] = <<"take", 1>> => held'[u] = stored'[head']
           /\ at'[u] = <<"take", 2>> => held'[u] = arrivals[Len(Served') + 1]
    BY <1>1, <2>1, <2>2, <2>3, <2>4 DEF Order
  <2>8. Incoming' = 1 => held'[MAIN] = arrivals[arrived']
    BY <1>1, <2>3, <2>4, <2>5 DEF Order
  <2>9. \E c \in [1 .. size' -> Addresses] :
          /\ IsChain(c)'
          /\ \A i \in 1 .. size' : stored'[c[i]] = arrivals[Len(Served') + Popped' + i]
    BY <1>1, <2>2, <2>3, <2>5, <2>6 DEF Order
  <2>. QED
    BY <1>1, <2>2, <2>3, <2>5, <2>7, <2>8, <2>9 DEF Order
<1>. QED
  BY <1>2, <1>3, <1>4

\* Main reads a request, queues it, or leaves both alone.
LEMMA OrderMain ==
    ASSUME SyncInv, MainMoves, UNCHANGED arrivals
    PROVE  Order'
<1>1. SyncTyped /\ Order /\ ListTypeOK /\ MAIN \in Threads
  BY Offices DEF SyncInv, SyncTyped, SyncTypeOK
<1>2. Served' = Served
  BY <1>1, MainEntries
<1>3. at[MAIN] = <<"create", 0>> => \A u \in OfficeIds : at[u][1] \in {"unborn", "loop", "wait"}
  BY DEF SyncInv, Beginning, Starting
<1>4. \A u \in OfficeIds : /\ held'[u] = held[u]
                           /\ at'[u] = <<"take", 1>> <=> at[u] = <<"take", 1>>
                           /\ at'[u] = <<"take", 2>> <=> at[u] = <<"take", 2>>
  BY <1>1, <1>3, MainOthers
<1>5. Popped' = Popped
  BY <1>4 DEF Popped, HasPopped
<1>6. PICK c \in [1 .. size -> Addresses] :
         IsChain(c) /\ \A i \in 1 .. size : stored[c[i]] = arrivals[Len(Served) + Popped + i]
  BY <1>1 DEF Order
<1>7. \A i \in 1 .. Len(Served') : Served'[i][2] = arrivals[i]
  BY <1>1, <1>2 DEF Order
<1>8. CASE /\ at[MAIN] = <<"push", 0>> /\ at'[MAIN] = <<"unlock", 0>>
           /\ list_queue_push(held[MAIN]) /\ UNCHANGED <<arrived, held>>
  <2>1. PICK v \in Values : v = held[MAIN]
    BY <1>1 DEF SyncTyped, SyncTypeOK
  <2>2. list_queue_push(v)
    BY <1>8, <2>1
  <2>3. PICK d \in [1 .. size' -> Addresses] : IsChain(d)' /\ Along(d)' = Append(Along(c), v)
    BY <1>1, <1>6, <2>2, PushChain
  <2>4. size' = size + 1
    BY <2>2 DEF list_queue_push
  <2>5. Incoming = 1 /\ Incoming' = 0
    BY <1>8 DEF Incoming
  <2>6. v = arrivals[arrived] /\ Len(Served) + Popped + size + 1 = arrived
    BY <1>1, <2>1, <2>5 DEF Order
  <2>7. Len(Served') + Popped' + size' + Incoming' = arrived'
    BY <1>2, <1>5, <1>8, <2>4, <2>5, <2>6, OrderNumbers
  <2>8. \A i \in 1 .. size' : stored'[d[i]] = arrivals[Len(Served') + Popped' + i]
    <3>1. Along(c) \in Seq(Values) /\ Len(Along(c)) = size
      <4>1. \A j \in 1 .. size : stored[c[j]] \in Values
        BY <1>1 DEF ListTypeOK
      <4>2. Along(c) = [j \in 1 .. size |-> stored[c[j]]]
        BY DEF Along
      <4>3. size \in Nat
        BY OrderNumbers
      <4>. QED
        BY <4>1, <4>2, <4>3
    <3>2. \A i \in 1 .. size : Along(c)[i] = stored[c[i]]
      BY DEF Along
    <3>3. \A i \in 1 .. size' : Along(d)'[i] = stored'[d[i]]
      BY DEF Along
    <3>4. ASSUME NEW i \in 1 .. size PROVE stored'[d[i]] = arrivals[Len(Served) + Popped + i]
      <4>1. i \in 1 .. size'
        BY <2>4, OrderNumbers
      <4>2. Append(Along(c), v)[i] = Along(c)[i]
        BY <3>1
      <4>. QED
        BY <1>6, <2>3, <3>2, <3>3, <4>1, <4>2
    <3>5. stored'[d[size + 1]] = arrivals[Len(Served) + Popped + (size + 1)]
      <4>1. size + 1 \in 1 .. size'
        BY <2>4, OrderNumbers
      <4>2. Append(Along(c), v)[size + 1] = v
        BY <3>1
      <4>3. Len(Served) + Popped + (size + 1) = arrived
        BY <2>6, OrderNumbers
      <4>. QED
        BY <2>3, <2>6, <3>3, <4>1, <4>2, <4>3
    <3>6. \A i \in 1 .. size' : i \in 1 .. size \/ i = size + 1
      BY <2>4, OrderNumbers
    <3>. QED
      BY <1>2, <1>5, <3>4, <3>5, <3>6
  <2>9. \A u \in OfficeIds : at[u] # <<"take", 1>>
    <3>1. Inside(MAIN)
      BY <1>8 DEF Inside, Busy
    <3>. QED
      BY <1>1, <3>1, OneTaker, Offices
  <2>10. \A u \in OfficeIds :
            /\ at'[u] = <<"take", 1>> => held'[u] = stored'[head']
            /\ at'[u] = <<"take", 2>> => held'[u] = arrivals[Len(Served') + 1]
    BY <1>1, <1>2, <1>4, <2>9 DEF Order
  <2>11. Incoming' # 1
    BY <2>5
  <2>. QED
    BY <1>7, <2>3, <2>7, <2>8, <2>10, <2>11 DEF Order
<1>9. CASE UNCHANGED list_vars
  <2>1. UNCHANGED <<size, head, stored>> /\ IsChain(c)'
    BY <1>6, <1>9 DEF list_vars, IsChain
  <2>2. \E d \in [1 .. size' -> Addresses] :
           /\ IsChain(d)'
           /\ \A i \in 1 .. size' : stored'[d[i]] = arrivals[Len(Served') + Popped' + i]
    BY <1>2, <1>5, <1>6, <2>1
  <2>3. \A u \in OfficeIds :
           /\ at'[u] = <<"take", 1>> => held'[u] = stored'[head']
           /\ at'[u] = <<"take", 2>> => held'[u] = arrivals[Len(Served') + 1]
    BY <1>1, <1>2, <1>4, <2>1 DEF Order
  <2>4. held \in [Threads -> Values]
    BY <1>1 DEF SyncTyped, SyncTypeOK
  <2>5. CASE /\ at[MAIN] = <<"read", 0>> /\ at'[MAIN] = <<"lock", 0>> /\ arrived' = arrived + 1
             /\ held' = [held EXCEPT ![MAIN] = arrivals[arrived + 1]]
    <3>1. Incoming = 0 /\ Incoming' = 1
      BY <2>5 DEF Incoming
    <3>2. Len(Served') + Popped' + size' + Incoming' = arrived'
      BY <1>1, <1>2, <1>5, <2>1, <2>5, <3>1, OrderNumbers DEF Order
    <3>3. held'[MAIN] = arrivals[arrived']
      BY <1>1, <2>4, <2>5
    <3>. QED
      BY <1>7, <2>2, <2>3, <3>2, <3>3 DEF Order
  <2>6. CASE /\ UNCHANGED <<arrived, held>>
             /\ at[MAIN][1] \in {"lock", "push"} <=> at'[MAIN][1] \in {"lock", "push"}
    <3>1. Incoming' = Incoming
      BY <2>6 DEF Incoming
    <3>. QED
      BY <1>1, <1>2, <1>5, <1>7, <2>1, <2>2, <2>3, <2>6, <3>1 DEF Order
  <2>7. CASE at[MAIN] = <<"push", 0>> /\ at'[MAIN] = <<"unlock", 0>> /\ list_queue_push(held[MAIN])
    BY <1>1, <2>1, <2>7 DEF list_queue_push, ListTypeOK
  <2>. QED
    BY <1>1, <2>5, <2>6, <2>7, MainWorks
<1>. QED
  BY <1>1, <1>8, <1>9, MainWorks

-----------------------------------------------------------------------------
(* The theorems. *)

LEMMA SyncStart == SyncInit => SyncInv
<1>. SUFFICES ASSUME SyncInit PROVE SyncInv
  OBVIOUS
<1>1. /\ at = [t \in Threads |-> IF t = MAIN THEN <<"init", 0>> ELSE <<"unborn", 0>>]
      /\ MAIN \in Threads /\ OfficeIds \subseteq Threads /\ MAIN \notin OfficeIds
      /\ NOBODY \notin Threads
  BY Offices DEF SyncInit
<1>2. ListTypeOK /\ size = 0
  BY ListInitInv DEF SyncInit, ListInv, ListInit
<1>3. at \in [Threads -> SyncLabels]
  <2>1. <<"init", 0>> \in SyncLabels /\ <<"unborn", 0>> \in SyncLabels
    BY DEF SyncLabels, SyncStatements
  <2>. QED
    BY <1>1, <2>1
<1>4. Served = << >> /\ Locks = << >> /\ Posts = << >> /\ log = [what \in Kept |-> log[what]]
  BY DEF SyncInit, Kept, Served, Locks, Posts
<1>5. SyncTyped
  <2>1. /\ mutex = NOBODY /\ sem = [s \in {"main_sem", "account"} |-> 0]
        /\ sampled = [t \in Threads |-> 0] /\ held = [t \in Threads |-> SHUTDOWN]
        /\ arrivals \in Workloads /\ arrived = 0
        /\ cursor = 0 /\ server_exit = FALSE /\ close_thread = FALSE
    BY DEF SyncInit
  <2>2. /\ sem \in [{"main_sem", "account"} -> Nat] /\ sampled \in [Threads -> Nat]
        /\ held \in [Threads -> Values] /\ arrivals \in Seq(Values)
    BY <2>1, SyncAssumption
  <2>3. arrived \in 0 .. Len(arrivals) /\ cursor \in 0 .. OfficeCount - 1
    BY <2>1, <2>2, SyncAssumption
  <2>4. /\ Locks \in Seq(Threads \X SyncStatements) /\ Served \in Seq(Threads \X Values)
        /\ Posts \in Seq(Threads \X Nat)
    BY <1>4
  <2>. QED
    BY <1>2, <1>3, <1>4, <2>1, <2>2, <2>3, <2>4 DEF SyncTyped, SyncTypeOK
<1>6. at[MAIN] = <<"init", 0>> /\ \A t \in OfficeIds : at[t] = <<"unborn", 0>>
  BY <1>1
<1>7. \A t \in Threads : at[t] = <<"init", 0>> \/ at[t] = <<"unborn", 0>>
  BY <1>1
<1>8. Exclusion /\ Said /\ Closing
  <2>1. \A t \in Threads : ~Inside(t) /\ mutex # t /\ ~(at[t][1] \in Busy)
    BY <1>1, <1>7 DEF Inside, Busy, SyncInit
  <2>2. \A t \in OfficeIds : ~Fetching(t)
    BY <1>6 DEF Fetching
  <2>3. at[MAIN][1] \notin {"linger", "wake", "join", "exited"}
    BY <1>6
  <2>. QED
    BY <2>1, <2>2, <2>3 DEF Exclusion, Said, Closing
<1>9. Beginning /\ Account
  <2>1. Starting /\ sem["main_sem"] = 0 /\ ~close_thread
    BY <1>6 DEF Starting, SyncInit
  <2>. QED
    BY <1>6, <1>7, <2>1 DEF Beginning, Account
<1>10. Collecting = {} /\ PastMainSem = {} /\ ~HasPopped
  BY <1>6 DEF Collecting, PastMainSem, Fetching, HasPopped
<1>11. sem["main_sem"] = 0 /\ Unposted = 0 /\ Posting = 0 /\ Incoming = 0 /\ Popped = 0
  BY <1>6, <1>10 DEF Unposted, Posting, Incoming, Popped, SyncInit
<1>12. Tokens
  BY <1>2, <1>10, <1>11, FS_EmptySet DEF Tokens
<1>13. Posted
  <2>1. Len(Served) = 0
    BY <1>4
  <2>2. Cardinality(MainPosts) \in Nat
    BY <1>5, PostsFinite
  <2>. QED
    BY <1>10, <1>11, <2>1, <2>2, FS_EmptySet DEF Posted
<1>14. Order
  <2>1. Len(Served) = 0 /\ arrived = 0
    BY <1>4 DEF SyncInit
  <2>2. PICK c \in [1 .. size -> Addresses] : IsChain(c)
    BY ListInitInv DEF SyncInit, ListInv, WellLinked
  <2>3. \A i \in 1 .. size : stored[c[i]] = arrivals[Len(Served) + Popped + i]
    BY <1>2
  <2>4. \A t \in OfficeIds : at[t] # <<"take", 1>> /\ at[t] # <<"take", 2>>
    BY <1>6
  <2>5. Len(Served) + Popped + size + Incoming = arrived
    BY <1>2, <1>11, <2>1
  <2>6. Incoming # 1
    BY <1>11
  <2>7. \A i \in 1 .. Len(Served) : Served[i][2] = arrivals[i]
    BY <2>1
  <2>. QED
    BY <2>2, <2>3, <2>4, <2>5, <2>6, <2>7 DEF Order
<1>. QED
  BY <1>5, <1>8, <1>9, <1>12, <1>13, <1>14 DEF SyncInv

LEMMA SyncStep == SyncInv /\ [SyncNext]_sync_vars => SyncInv'
<1>. SUFFICES ASSUME SyncInv, [SyncNext]_sync_vars PROVE SyncInv'
  OBVIOUS
<1>1. ASSUME NEW t \in OfficeIds, OfficeMoves(t), UNCHANGED arrivals PROVE SyncInv'
  BY <1>1, TypedOffice, ExclusionOffice, BeginningOffice, SaidOffice, AccountOffice,
     PostedOffice, TokensOffice, ClosingOffice, OrderOffice DEF SyncInv
<1>2. ASSUME MainMoves, UNCHANGED arrivals PROVE SyncInv'
  BY <1>2, TypedMain, ExclusionMain, BeginningMain, SaidMain, AccountMain,
     PostedMain, TokensMain, ClosingMain, OrderMain DEF SyncInv
<1>3. ASSUME UNCHANGED sync_vars PROVE SyncInv'
  <2>1. /\ UNCHANGED list_vars /\ UNCHANGED <<at, mutex, sem, sampled, log, held, arrived>>
        /\ UNCHANGED <<cursor, server_exit, close_thread, arrivals>>
    BY <1>3 DEF sync_vars, call_vars, work_vars
  <2>2. Served' = Served /\ Locks' = Locks /\ Posts' = Posts
    BY <2>1 DEF Served, Locks, Posts
  <2>3. SyncTyped'
    BY <2>1, <2>2 DEF SyncInv, SyncTyped, SyncTypeOK, ListTypeOK, list_vars
  <2>4. Exclusion' /\ Beginning' /\ Said' /\ Account' /\ Closing'
    BY <2>1, <2>2 DEF SyncInv, Exclusion, Inside, Beginning, Starting, Said, Account, HasAccount,
                      Closing, Fetching
  <2>5. Collecting' = Collecting /\ PastMainSem' = PastMainSem /\ MainPosts' = MainPosts
    BY <2>1 DEF Collecting, Fetching, PastMainSem, MainPosts
  <2>6. Posted' /\ Tokens'
    BY <2>1, <2>2, <2>5 DEF SyncInv, Posted, Tokens, Posting, Unposted, list_vars
  <2>7. Popped' = Popped /\ Incoming' = Incoming
    BY <2>1 DEF Popped, HasPopped, Incoming
  <2>8. \A c : IsChain(c)' <=> IsChain(c)
    BY <2>1 DEF IsChain, list_vars
  <2>9. Order'
    BY <2>1, <2>2, <2>7, <2>8 DEF SyncInv, Order, list_vars
  <2>. QED
    BY <2>3, <2>4, <2>6, <2>9 DEF SyncInv
<1>. QED
  BY <1>1, <1>2, <1>3 DEF SyncNext

LEMMA SyncAlways == SyncSpec => []SyncInv
BY SyncStart, SyncStep, PTL DEF SyncSpec

\* The offices log, in turn, the requests that main read, each once and in the order in
\* which it read them, whatever their number and speed (server.c:44-47).
THEOREM RequestsServedInOrder == SyncSpec => []ServedInOrder
<1>1. SyncInv => ServedInOrder
  <2>. SUFFICES ASSUME SyncInv PROVE ServedInOrder
    OBVIOUS
  <2>0. /\ Len(Served) \in Nat /\ Popped \in Nat /\ size \in Nat /\ Incoming \in Nat
        /\ Len(Served) + Popped + size + Incoming = arrived
    BY OrderNumbers DEF SyncInv, Order
  <2>1. Len(Served) <= arrived
    BY <2>0
  <2>2. \A i \in 1 .. Len(Served) : Served[i][2] = arrivals[i]
    BY DEF SyncInv, Order
  <2>. QED
    BY <2>1, <2>2 DEF ServedInOrder, Served
<1>. QED
  BY <1>1, SyncAlways, PTL

\* Who holds the mutex is in the last entry of a lock, and finds the account's semaphore
\* at 1 when it takes it and at 0 when it gives it back (general_aux.c:122-127,
\* server.c:53-79).
THEOREM LogTellsTheLocks == SyncSpec => []LocksInOrder
<1>1. SyncInv => LocksInOrder
  <2>. SUFFICES ASSUME SyncInv PROVE LocksInOrder
    OBVIOUS
  <2>1. SUFFICES ASSUME NEW t \in Threads, at[t][1] \in Busy
                 PROVE  /\ Locks # << >> /\ Locks[Len(Locks)][1] = t
                        /\ at[t] = <<"hold", 1>> => sampled[t] = 1
                        /\ at[t] = <<"release", 1>> => sampled[t] = 0
    BY DEF LocksInOrder, Locks, Busy
  <2>2. Locks # << >> /\ Locks[Len(Locks)][1] = t
    BY <2>1 DEF SyncInv, Said
  <2>3. /\ at[t] = <<"hold", 1>> => sampled[t] = 1
        /\ at[t] = <<"release", 1>> => sampled[t] = 0
    BY DEF SyncInv, Account
  <2>. QED
    BY <2>2, <2>3
<1>. QED
  BY <1>1, SyncAlways, PTL

\* The log shows a post by main for every office that has got past main_sem, and for
\* every request served (general_aux.c:152-159).
THEOREM LogTellsTheWakeUps == SyncSpec => []WakeUpsAreExplained
<1>1. SyncInv => WakeUpsAreExplained
  <2>. SUFFICES ASSUME SyncInv PROVE WakeUpsAreExplained
    OBVIOUS
  <2>1. /\ sem["main_sem"] \in Nat /\ Posting \in Nat /\ Len(Served) \in Nat
        /\ Cardinality(PastMainSem) \in Nat /\ Cardinality(MainPosts) \in Nat
    BY OrderNumbers, OfficesFinite, PostsFinite
       DEF SyncInv, SyncTyped, SyncTypeOK, Posting, PastMainSem
  <2>2. Cardinality(PastMainSem) + Len(Served) <= Cardinality(MainPosts)
    BY <2>1 DEF SyncInv, Posted
  <2>. QED
    BY <2>2 DEF WakeUpsAreExplained, Served
<1>. QED
  BY <1>1, SyncAlways, PTL

\* Type correctness of threads, mutex, semaphores and requests.  That an office holds a
\* request at all needs the whole invariant: `front` reads through a head that is not
\* NULL because main_sem has let no more offices past than requests wait (server.c:36-47).
THEOREM SyncIsTyped == SyncSpec => []SyncTypeOK
<1>1. SyncInv => SyncTypeOK
  BY DEF SyncInv, SyncTyped, SyncTypeOK
<1>. QED
  BY <1>1, SyncAlways, PTL

\* What the server does to the list is pushes and pops.
LEMMA SyncUsesTheList == SyncSpec => ListSpec
<1>1. SyncInit => ListInit
  BY DEF SyncInit
<1>2. SyncInv /\ [SyncNext]_sync_vars => [ListNext]_list_vars
  <2>. SUFFICES ASSUME SyncInv, [SyncNext]_sync_vars PROVE [ListNext]_list_vars
    OBVIOUS
  <2>1. SyncTyped /\ held[MAIN] \in Values
    BY Offices DEF SyncInv, SyncTyped, SyncTypeOK
  <2>2. ASSUME NEW t \in OfficeIds, OfficeMoves(t) PROVE [ListNext]_list_vars
    BY <2>1, <2>2, OfficeTakes DEF ListNext
  <2>3. ASSUME MainMoves PROVE [ListNext]_list_vars
    BY <2>1, <2>3, MainWorks DEF ListNext
  <2>4. UNCHANGED sync_vars => UNCHANGED list_vars
    BY DEF sync_vars
  <2>. QED
    BY <2>2, <2>3, <2>4 DEF SyncNext
<1>. QED
  BY <1>1, <1>2, SyncAlways, PTL DEF SyncSpec, ListSpec

\* So the requests that wait behave as a queue while main pushes and the offices, woken
\* by main_sem and one at a time under the mutex, take them off (server.c:44-47, 158-166).
THEOREM ServerImplementsFifo == SyncSpec => ImplementsFifo
BY SyncUsesTheList, ListImplementsFifo, PTL
=============================================================================
