------------------------------ MODULE ListQueue ------------------------------
(***************************************************************************)
(* The queue of requests as list_queue.h makes it: nodes on the heap,      *)
(* linked by `next`, with pointers to the first and the last.  `pop` frees *)
(* a node and leaves `back` as it is, so that it dangles when the queue    *)
(* empties, and malloc may give out the same address again.                *)
(***************************************************************************)
EXTENDS Integers, Sequences

CONSTANTS
    Addresses,          \* where a node may lie
    NULL,
    Values              \* the requests a node may hold

ASSUME NullAssumption == NULL \notin Addresses
ASSUME ValuesAssumption == Values # {}

VARIABLES
    head, back, size,   \* list_queue_t
    next, stored,       \* the fields of the nodes, kept by freed memory
    allocated           \* what malloc has given out and free has not taken back

list_vars == <<head, back, size, next, stored, allocated>>

Pointers == Addresses \cup {NULL}

\* list_queue_init
ListInit ==
    /\ head = NULL /\ back = NULL /\ size = 0
    /\ next = [a \in Addresses |-> NULL]
    /\ stored = [a \in Addresses |-> CHOOSE v \in Values : TRUE]
    /\ allocated = {}

\* Slip: the list counts as empty when `back` was never set.
list_queue_push_asks_back(v) ==
    \E a \in Addresses \ allocated :
        /\ allocated' = allocated \cup {a}
        /\ stored' = [stored EXCEPT ![a] = v]
        /\ back' = a /\ size' = size + 1
        /\ \/ back = NULL /\ head' = a /\ next' = [next EXCEPT ![a] = NULL]
           \/ back # NULL /\ head' = head /\ next' = [next EXCEPT ![a] = NULL, ![back] = a]

\* Slip: the new node is linked before the head.
list_queue_push_in_front(v) ==
    \E a \in Addresses \ allocated :
        /\ allocated' = allocated \cup {a}
        /\ stored' = [stored EXCEPT ![a] = v]
        /\ back' = (IF head = NULL THEN a ELSE back) /\ size' = size + 1
        /\ head' = a /\ next' = [next EXCEPT ![a] = head]

\* malloc gives any free address.  An empty list starts anew, any other is
\* continued behind `back`.
list_queue_push(v) ==
    \E a \in Addresses \ allocated :
        /\ allocated' = allocated \cup {a}
        /\ stored' = [stored EXCEPT ![a] = v]
        /\ back' = a /\ size' = size + 1
        /\ \/ head = NULL /\ head' = a /\ next' = [next EXCEPT ![a] = NULL]
           \/ head # NULL /\ head' = head /\ next' = [next EXCEPT ![a] = NULL, ![back] = a]

list_queue_pop ==
    \/ head = NULL /\ UNCHANGED list_vars
    \/ /\ head # NULL
       /\ head' = next[head] /\ size' = size - 1
       /\ allocated' = allocated \ {head}
       /\ UNCHANGED <<back, next, stored>>

\* Reads through the head unchecked: its caller must know that there is one.
list_queue_front == stored[head]

ListNext == (\E v \in Values : list_queue_push(v)) \/ list_queue_pop

ListSpec == ListInit /\ [][ListNext]_list_vars

-----------------------------------------------------------------------------
ListTypeOK ==
    /\ head \in Pointers /\ back \in Pointers /\ size \in Nat
    /\ next \in [Addresses -> Pointers] /\ stored \in [Addresses -> Values]
    /\ allocated \subseteq Addresses

\* c is the list from head to back: `size` different nodes, and all that is allocated.
IsChain(c) ==
    /\ \A i, j \in 1 .. size : c[i] = c[j] => i = j
    /\ allocated = {c[i] : i \in 1 .. size}
    /\ head = IF size = 0 THEN NULL ELSE c[1]
    /\ size # 0 => back = c[size]
    /\ \A i \in 1 .. size : next[c[i]] = IF i = size THEN NULL ELSE c[i + 1]

\* The pointers always describe one list, of as many nodes as `size` says, and its
\* nodes are what is allocated: no node is freed while linked, none is lost, and
\* `back` is followed by push only while it points into the list (list_queue.h:28,
\* after list_queue.h:38-40 left it dangling).
WellLinked == \E c \in [1 .. size -> Addresses] : IsChain(c)

-----------------------------------------------------------------------------
(* The list is a queue: from head to back, the values in the order they came. *)
chain == CHOOSE c \in [1 .. size -> Addresses] : IsChain(c)

Fifo == INSTANCE FifoQueue WITH Contents <- Values,
                                queue <- [i \in 1 .. size |-> stored[chain[i]]]

\* Whatever pushes and pops do to the nodes, what they hold behaves as a queue
\* (list_queue.h:20-41).
ImplementsFifo == Fifo!FifoSpec
=============================================================================
