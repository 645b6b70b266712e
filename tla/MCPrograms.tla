----------------------------- MODULE MCPrograms -----------------------------
(* The small programs, one in each behaviour: the queue of the server with    *)
(* its log, or one of the exercises.  What the others would use stays as it   *)
(* is in one initial state of theirs.                                         *)
EXTENDS SyncLog, Fill, Limit, Hello, Children, Signals, Pipes

CONSTANT x

SmallWorkloads == {<<x, SHUTDOWN>>, <<SHUTDOWN, x>>}
SmallOperands == {<<3, 2>>, <<3, 0>>}
SmallListings == {<<"match", "other", "match">>, << >>}

Server == "Project2/server"
Programs == {Server, "prob04/p3b"} \cup FillPrograms \cup LimitPrograms \cup HelloPrograms
                \cup ChildrenPrograms \cup PipesPrograms

Only(programs, e, values) == program \in programs \/ e = CHOOSE d \in values : TRUE

MCInit ==
    /\ program \in Programs
    /\ nthr \in 0 .. MAXTHREADS
    /\ CASE program \in FillPrograms -> nthr <= 2
         [] program \in LimitPrograms -> nthr = 2
         [] program \in OperationPrograms -> nthr = OPERATIONS
         [] program \in HelloPrograms -> nthr = HelloThreads
         [] OTHER -> nthr = 0
    /\ PthreadsInit /\ SyncInit /\ FillInit /\ LimitInit /\ HelloInit
    /\ ChildrenInit /\ SignalsInit /\ PipesInit
    /\ Only({Server}, arrivals, Workloads)
    /\ Only(FillPrograms, npos, 0 .. MAXELEMS)
    /\ Only(OperationPrograms, operands, Operands)
    /\ Only({"prob05/p06"}, place["reader"], {"start", "open"})

thread_vars == <<main_at, k, nthr, pc, mut>>

MCNext ==
    \/ /\ program = Server /\ SyncNext
       /\ UNCHANGED <<program, thread_vars, fill_vars, limit_vars, hello_vars,
                      children_vars, signals_vars, pipes_vars>>
    \/ /\ FillNext
       /\ UNCHANGED <<sync_vars, limit_vars, hello_vars, children_vars, signals_vars, pipes_vars>>
    \/ /\ LimitNext
       /\ UNCHANGED <<sync_vars, fill_vars, hello_vars, children_vars, signals_vars, pipes_vars>>
    \/ /\ HelloNext
       /\ UNCHANGED <<sync_vars, fill_vars, limit_vars, children_vars, signals_vars, pipes_vars>>
    \/ /\ ChildrenNext
       /\ UNCHANGED <<sync_vars, thread_vars, fill_vars, limit_vars, hello_vars,
                      signals_vars, pipes_vars>>
    \/ /\ SignalsNext
       /\ UNCHANGED <<sync_vars, thread_vars, fill_vars, limit_vars, hello_vars,
                      children_vars, pipes_vars>>
    \/ /\ PipesNext
       /\ UNCHANGED <<sync_vars, thread_vars, fill_vars, limit_vars, hello_vars,
                      children_vars, signals_vars>>

mc_vars == <<program, sync_vars, thread_vars, fill_vars, limit_vars, hello_vars,
             children_vars, signals_vars, pipes_vars>>

\* Type correctness of the programs: the numbers, labels and processes are those there
\* are, in every state.
TypesAreKept == SyncTypeOK /\ FillTypeOK /\ ChildrenTypeOK

MCSpec == MCInit /\ [][MCNext]_mc_vars
=============================================================================
