-------------------------------- MODULE Hello --------------------------------
(***************************************************************************)
(* prob06/p03*.c, p04*.c and p05*.c: threads that print once.  What they   *)
(* print is read through a pointer: in p03 to main's loop counter, in p04  *)
(* to a number of their own, in p05 to two operands: all of them automatic *)
(* variables of main.  main ends with exit, which ends the process, or     *)
(* with pthread_exit, which leaves the threads running and its own         *)
(* variables undefined, so what they read from then on may be anything.    *)
(***************************************************************************)
EXTENDS Pthreads

CONSTANTS
    HelloThreads,       \* NUM_THREADS
    Operands,           \* what may be typed in
    Leftovers           \* what may lie where main's variables were

VARIABLES
    printed,            \* <<thread, what>> for each line printed about a thread
    operands,           \* the two numbers that are typed in
    returned            \* what the threads of p05b return

hello_vars == <<printed, operands, returned>>

CounterPrograms == {"prob06/p03", "prob06/p03b", "prob06/p03c"}
NumberPrograms  == {"prob06/p04a", "prob06/p04b", "prob06/p04c"}
OperationPrograms == {"prob06/p05a", "prob06/p05a1", "prob06/p05b"}
HelloPrograms == CounterPrograms \cup NumberPrograms \cup OperationPrograms

\* sum, difference, multiplication, division
OPERATIONS == 4

ASSUME HelloAssumption ==
    /\ HelloThreads \in 0 .. MAXTHREADS /\ OPERATIONS <= MAXTHREADS
    /\ Operands \subseteq Int \X Int /\ Leftovers \subseteq Int

HelloInit ==
    /\ printed = << >> /\ returned = [t \in Tids |-> << >>]
    /\ operands \in Operands

\* A number is printed as <<n>>, a quotient as <<x, y>>, and << >> is a null pointer, or
\* the message that the operation is invalid.
operation(t, x, y) ==
    IF t = 0 THEN <<x + y>>
    ELSE IF t = 1 THEN <<x - y>>
    ELSE IF t = 2 THEN <<x * y>>
    ELSE IF y # 0 THEN <<x, y>> ELSE << >>

Output(t, what) == printed' = Append(printed, <<t, what>>) /\ UNCHANGED <<operands, returned>>

\* What may be read where main keeps a number, or kept it before pthread_exit.
Pointed(number) == {number} \cup IF main_at = "exited" THEN Leftovers ELSE {}

\* PrintHello, number being what main keeps where the argument points.
PrintHello(t, number) ==
    /\ main_at # "gone"
    /\ ThreadGoes(t, "print", "ended") /\ UNCHANGED mut
    /\ \E n \in Pointed(number) : Output(t, <<n>>)

\* sum, difference, multiplication and division, on what `arg` points to.
PrintResult(t) ==
    /\ ThreadGoes(t, "print", "ended") /\ UNCHANGED mut
    /\ \E x \in Pointed(operands[1]), y \in Pointed(operands[2]) : Output(t, operation(t, x, y))

MakeHello ==
    \/ CreateThread("print") /\ UNCHANGED hello_vars
    \/ TurnCreate("created") /\ UNCHANGED hello_vars

\* pthread_exit(0) of main
LeaveThreads == AllCreated("exited") /\ UNCHANGED <<k, hello_vars>>

\* exit(0) of main: the threads may run on until the process is gone.
EndAll ==
    \/ AllCreated("exit") /\ UNCHANGED <<k, hello_vars>>
    \/ MainGoes("exit", "gone") /\ UNCHANGED <<k, hello_vars>>

p03  == program = "prob06/p03" /\ (MakeHello \/ LeaveThreads \/ \E t \in Tids : PrintHello(t, k))
p03b == program = "prob06/p03b" /\ (MakeHello \/ LeaveThreads \/ \E t \in Tids : PrintHello(t, k))
p03c == program = "prob06/p03c" /\ (MakeHello \/ EndAll \/ \E t \in Tids : PrintHello(t, k))
p04a == program = "prob06/p04a" /\ (MakeHello \/ LeaveThreads \/ \E t \in Tids : PrintHello(t, t))
p04b == program = "prob06/p04b" /\ (MakeHello \/ LeaveThreads \/ \E t \in Tids : PrintHello(t, t))

\* Slip: the thread is not joined before the next one is made.
JoinAtOnce_skipped == TurnCreate("created") /\ UNCHANGED hello_vars

\* p04c joins each thread before it makes the next.
JoinAtOnce == JoinedThread /\ TurnCreate("created") /\ UNCHANGED hello_vars

p04c ==
    /\ program = "prob06/p04c"
    /\ \/ CreateThread("print") /\ UNCHANGED hello_vars
       \/ JoinAtOnce
       \/ LeaveThreads
       \/ \E t \in Tids : PrintHello(t, t)

p05a  == program = "prob06/p05a" /\ (MakeHello \/ LeaveThreads \/ \E t \in Tids : PrintResult(t))
p05a1 == program = "prob06/p05a1" /\ (MakeHello \/ LeaveThreads \/ \E t \in Tids : PrintResult(t))

\* p05b: the threads return their results, main prints them as it joins them.
p05b ==
    /\ program = "prob06/p05b"
    /\ \/ MakeHello
       \/ AllCreated("join") /\ k' = 0 /\ UNCHANGED hello_vars
       \/ \E t \in Tids :
              /\ ThreadGoes(t, "print", "ended")
              /\ returned' = [returned EXCEPT ![t] = operation(t, operands[1], operands[2])]
              /\ UNCHANGED <<mut, printed, operands>>
       \/ TurnJoin /\ Output(k, returned[k])
       \/ AllJoined("exited") /\ UNCHANGED hello_vars

HelloNext == p03 \/ p03b \/ p03c \/ p04a \/ p04b \/ p04c \/ p05a \/ p05a1 \/ p05b

HelloSpec ==
    /\ program \in HelloPrograms
    /\ nthr = IF program \in OperationPrograms THEN OPERATIONS ELSE HelloThreads
    /\ PthreadsInit /\ HelloInit
    /\ [][HelloNext]_<<pthread_vars, hello_vars>>

-----------------------------------------------------------------------------
\* main's variables are there for the threads: it has not ended, or ends after them.
Outlived == main_at # "exited" \/ program \in {"prob06/p04c", "prob06/p05b"}

\* The threads of prob06 print once each, all by the time they have ended though main may
\* end before them (prob06/p04a.c:24, p05a.c:43), and in their order where main joins
\* them (p04c.c:27, p05b.c:59-69).  As long as main is there, or its joins keep it there,
\* one that reads its counter (p03.c:8, 18) finds its own number or a later one, up to the
\* one that ends the loop, and the others print what is theirs.
EachIsReported ==
    LET reported == {printed[i][1] : i \in 1 .. Len(printed)}
    IN  /\ Cardinality(reported) = Len(printed)
        /\ (main_at = "exited" /\ \A t \in 0 .. nthr - 1 : pc[t] = "ended") =>
               Len(printed) = nthr
        /\ program \in {"prob06/p04c", "prob06/p05b"} =>
               \A i \in 1 .. Len(printed) : printed[i][1] = i - 1
        /\ Outlived => \A i \in 1 .. Len(printed) :
               /\ program \in CounterPrograms => printed[i][2][1] \in printed[i][1] .. nthr
               /\ program \in NumberPrograms => printed[i][2] = <<printed[i][1]>>
               /\ program \in OperationPrograms =>
                      printed[i][2] = operation(printed[i][1], operands[1], operands[2])
=============================================================================
