------------------------------ MODULE Children ------------------------------
(***************************************************************************)
(* Programs that fork in a loop and wait for their children or do not:     *)
(* prob03/p6.c, p6b.c, p6c.c, p9.c and p9b.c, prob04/p4a.c, p4b.c, p5a.c   *)
(* and p5b.c.  A process is named by the turns of the loop it was forked   *)
(* in, its parent's first; {} is the first process.                        *)
(***************************************************************************)
EXTENDS Exercise, Integers, Sequences, FiniteSets

CONSTANTS
    FORKS,              \* turns of a loop that forks (3 in the code)
    TRIES               \* calls of waitpid by the parent between two forks (10)

ASSUME ChildrenAssumption == FORKS \in Nat \ {0} /\ TRIES \in Nat \ {0}

VARIABLES
    life, step,         \* of each process: what it is, the statement it is at
    turn,               \* its loop counter
    tries,              \* calls of waitpid since its last fork
    fork_failed,
    pending, handling,  \* of SIGCHLD, at the first process
    told                \* the processes it has reported to have ended

children_vars == <<life, step, turn, tries, fork_failed, pending, handling, told>>

Procs == SUBSET (1 .. FORKS)
first == {}
PID0 == {0}             \* what waitpid gives while no child has ended
Parent(p) == p \ {CHOOSE i \in p : \A j \in p : j <= i}
ChildrenOf(p) == {q \in Procs \ {first} : Parent(q) = p /\ life[q] \in {"alive", "zombie"}}
Ended(p) == {q \in ChildrenOf(p) : life[q] = "zombie"}

FamilyPrograms == {"prob03/p6", "prob03/p6b", "prob03/p6c"}
OneChildPrograms == {"prob03/p9", "prob03/p9b"}
TellingPrograms == {"prob04/p4a", "prob04/p4b", "prob04/p5a", "prob04/p5b"}
ChildrenPrograms == FamilyPrograms \cup OneChildPrograms \cup TellingPrograms

ChildrenInit ==
    /\ life = [p \in Procs |-> IF p = first THEN "alive" ELSE "unborn"]
    /\ step = [p \in Procs |-> "fork"] /\ turn = [p \in Procs |-> 1]
    /\ tries = [p \in Procs |-> 0] /\ fork_failed = FALSE
    /\ pending = FALSE /\ handling = FALSE /\ told = << >>

ChildrenTypeOK ==
    /\ life \in [Procs -> {"unborn", "alive", "zombie", "gone"}]
    /\ step \in [Procs -> {"fork", "child", "work", "wait", "end", "ended"}]
    /\ turn \in [Procs -> 1 .. FORKS + 2] /\ tries \in [Procs -> 0 .. TRIES]
    /\ fork_failed \in BOOLEAN /\ pending \in BOOLEAN /\ handling \in BOOLEAN
    /\ told \in Seq(Procs \cup {PID0})

-----------------------------------------------------------------------------
(* The calls *)
IsAt(p, from) == life[p] = "alive" /\ step[p] = from /\ ~(p = first /\ handling)
Steps(p, from, to) == IsAt(p, from) /\ step' = [step EXCEPT ![p] = to]

\* fork, in a turn of a loop: the child starts at `child` with its parent's counter.
ForkChild(p, child, parent) ==
    LET q == p \cup {turn[p]}
    IN  /\ turn[p] <= FORKS /\ IsAt(p, "fork")
        /\ life' = [life EXCEPT ![q] = "alive"]
        /\ step' = [step EXCEPT ![p] = parent, ![q] = child]
        /\ turn' = [turn EXCEPT ![q] = turn[p]]
        /\ UNCHANGED <<tries, fork_failed, pending, handling, told>>

CannotFork(p, to) ==
    /\ turn[p] <= FORKS /\ Steps(p, "fork", to) /\ fork_failed' = TRUE
    /\ UNCHANGED <<life, turn, tries, pending, handling, told>>

\* exit: the parent, if there is one, gets SIGCHLD and may wait, unless it ignores the
\* signal; init takes the children over and waits for those that have ended.
Exit(p, from) ==
    LET waited == p # first /\ life[Parent(p)] = "alive"
    IN  /\ Steps(p, from, "ended")
        /\ life' = [q \in Procs |->
                       IF q = p THEN IF waited /\ program # "prob04/p5a" THEN "zombie" ELSE "gone"
                       ELSE IF q \in Ended(p) THEN "gone" ELSE life[q]]
        /\ pending' = (pending \/ (waited /\ program = "prob04/p5b"))
        /\ UNCHANGED <<turn, tries, fork_failed, handling, told>>

Reap(q) == life' = [life EXCEPT ![q] = "gone"]

\* for (...; i++)
NextTurn(p, from, to) ==
    /\ Steps(p, from, to) /\ turn' = [turn EXCEPT ![p] = @ + 1]
    /\ UNCHANGED <<tries, fork_failed, pending, handling>>

-----------------------------------------------------------------------------
(* p6, p6b and p6c of prob03. *)
ForkFamily(p) ==
    \/ ForkChild(p, "child", "work")
    \/ CannotFork(p, "end")
    \/ turn[p] > FORKS /\ Exit(p, "fork")
    \/ Exit(p, "end")

ChildExits(p) == Exit(p, "child")

WorkOn(p) == NextTurn(p, "work", "fork") /\ UNCHANGED <<life, told>>

\* The parent works TRIES times, calling waitpid(-1, &status, WNOHANG) each time.
WorkAndWait(p) ==
    \/ /\ tries[p] < TRIES /\ Steps(p, "work", "work")
       /\ tries' = [tries EXCEPT ![p] = @ + 1]
       /\ \/ \E q \in Ended(p) : Reap(q)
          \/ Ended(p) = {} /\ UNCHANGED life
       /\ UNCHANGED <<turn, fork_failed, pending, handling, told>>
    \/ /\ tries[p] = TRIES /\ Steps(p, "work", "fork")
       /\ tries' = [tries EXCEPT ![p] = 0] /\ turn' = [turn EXCEPT ![p] = @ + 1]
       /\ UNCHANGED <<life, fork_failed, pending, handling, told>>

p6 == program = "prob03/p6" /\ \E p \in Procs : ForkFamily(p) \/ ChildExits(p) \/ WorkOn(p)
p6b == program = "prob03/p6b" /\ \E p \in Procs : ForkFamily(p) \/ ChildExits(p) \/ WorkAndWait(p)
p6c == /\ program = "prob03/p6c"
       /\ \E p \in Procs : \/ ForkFamily(p) \/ WorkAndWait(p)
                           \/ NextTurn(p, "child", "fork") /\ UNCHANGED <<life, told>>

-----------------------------------------------------------------------------
(* p9 and p9b of prob03; p4a, p4b, p5a and p5b of prob04. *)
Tell(q) == told' = Append(told, q)

\* Slip: waitpid with WNOHANG takes its place.
Wait_not(to) ==
    /\ NextTurn(first, "wait", to)
    /\ \/ \E q \in Ended(first) : Reap(q) /\ Tell(q)
       \/ Ended(first) = {} /\ UNCHANGED <<life, told>>

\* wait: blocks while there are children and none has ended.  Without children it gives
\* -1, of which the programs say nothing.
Wait(to) ==
    \/ \E q \in Ended(first) : NextTurn(first, "wait", to) /\ Reap(q) /\ Tell(q)
    \/ ChildrenOf(first) = {} /\ NextTurn(first, "wait", to) /\ UNCHANGED <<life, told>>

\* waitpid with WNOHANG: gives 0, of which the programs do say that it terminated.
WaitNot(to) ==
    \/ Wait(to)
    \/ /\ ChildrenOf(first) # {} /\ Ended(first) = {}
       /\ NextTurn(first, "wait", to) /\ Tell(PID0) /\ UNCHANGED life

OneChild ==
    \/ ForkChild(first, "child", "wait")
    \/ CannotFork(first, "end")
    \/ ChildExits({1})
    \/ Wait("end")
    \/ Exit(first, "end")

p9  == program = "prob03/p9" /\ OneChild
p9b == program = "prob03/p9b" /\ OneChild

\* Three turns that fork, -1 being taken for a parent's result, then one turn more in
\* which the parent works, sleeps and waits.
ForkAll ==
    \/ ForkChild(first, "child", "work")
    \/ CannotFork(first, "work")
    \/ WorkOn(first)
    \/ /\ turn[first] > FORKS /\ Steps(first, "fork", "wait")
       /\ turn' = [turn EXCEPT ![first] = 1]
       /\ UNCHANGED <<life, tries, fork_failed, pending, handling, told>>
    \/ \E i \in 1 .. FORKS : ChildExits({i})

\* Slip: the loop does not end.
AfterWait_endless == "wait"

AfterWait == IF turn[first] <= FORKS THEN "wait" ELSE "end"

p4a == program = "prob04/p4a" /\ (ForkAll \/ Wait(AfterWait) \/ Exit(first, "end"))
p4b == program = "prob04/p4b" /\ (ForkAll \/ WaitNot(AfterWait) \/ Exit(first, "end"))
p5a == program = "prob04/p5a" /\ (ForkAll \/ WaitNot(AfterWait) \/ Exit(first, "end"))

Catch ==
    /\ life[first] = "alive" /\ pending /\ ~handling
    /\ pending' = FALSE /\ handling' = TRUE
    /\ UNCHANGED <<life, step, turn, tries, fork_failed, told>>

\* Slip: the handler waits once.
sigchld_handler_once ==
    /\ handling /\ handling' = FALSE
    /\ \/ \E q \in Ended(first) : Reap(q)
       \/ Ended(first) = {} /\ UNCHANGED life
    /\ UNCHANGED <<step, turn, tries, fork_failed, pending, told>>

\* while (waitpid(-1, NULL, WNOHANG) > 0)
sigchld_handler ==
    /\ handling
    /\ \/ \E q \in Ended(first) : Reap(q) /\ UNCHANGED handling
       \/ Ended(first) = {} /\ handling' = FALSE /\ UNCHANGED life
    /\ UNCHANGED <<step, turn, tries, fork_failed, pending, told>>

p5b == /\ program = "prob04/p5b"
       /\ \/ ForkAll \/ WaitNot(AfterWait) \/ Exit(first, "end")
          \/ Catch \/ sigchld_handler

ChildrenNext ==
    (p6 \/ p6b \/ p6c \/ p9 \/ p9b \/ p4a \/ p4b \/ p5a \/ p5b) /\ UNCHANGED program

ChildrenSpec ==
    /\ program \in ChildrenPrograms /\ ChildrenInit
    /\ [][ChildrenNext]_<<program, children_vars>>

-----------------------------------------------------------------------------
Born == {p \in Procs : life[p] # "unborn"}

\* A child that has ended is reported once at most and never before it has, whatever
\* ends first and however many signals merge; where the parent does wait
\* (prob03/p9.c:19, prob04/p4a.c:31) it has reported all when it ends.
EachEndIsTold ==
    LET children == Procs \ {first}
    IN  /\ \A i, j \in 1 .. Len(told) : told[i] = told[j] => i = j \/ told[i] = PID0
        /\ \A i \in 1 .. Len(told) : told[i] # PID0 => life[told[i]] = "gone"
        /\ (program \in OneChildPrograms \cup {"prob04/p4a"} /\ step[first] = "end") =>
               {told[i] : i \in 1 .. Len(told)} = Born \ {first}

\* SIGCHLD of several children merges into one; the handler waits until it finds no
\* more (prob04/p5b.c:11), so that no child which has ended is left over: while there is
\* one, the signal is pending or its handler at work.
NoZombieIsLeft ==
    program = "prob04/p5b" => (Ended(first) = {} \/ pending \/ handling)
=============================================================================
