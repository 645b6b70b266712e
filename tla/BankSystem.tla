----------------------------- MODULE BankSystem -----------------------------
(***************************************************************************)
(* The server and its users together: every interleaving of the main       *)
(* thread, the bank offices and the user processes.                        *)
(***************************************************************************)
EXTENDS BankServer, User

vars == <<server_vars, fifo_vars, user_vars>>

Init == FifosInit /\ ServerInit /\ UserInit

MainRuns == MainStep /\ UNCHANGED user_vars
OfficeRuns(t) == OfficeStep(t) /\ UNCHANGED user_vars
UserMoves(u) == UserStep(u) /\ UNCHANGED server_vars

Next ==
    \/ MainRuns
    \/ \E t \in Offices : OfficeRuns(t)
    \/ \E u \in Pids : UserMoves(u)

\* The kernel runs every thread that can run, and every user process once it has
\* the server's FIFO open; whether a user ever comes is its own affair.  Locks and
\* semaphores need no more than weak fairness: a user sends one request, so nothing
\* is contended for ever.
Fairness ==
    /\ WF_vars(MainRuns)
    /\ \A t \in Offices : WF_vars(OfficeRuns(t))
    /\ \A u \in Pids : WF_vars(UserRuns(u) /\ UNCHANGED server_vars)

Spec == Init /\ [][Next]_vars
FairSpec == Spec /\ Fairness

TypeOK == FifosTypeOK /\ UserTypeOK /\ ServerTypeOK

-----------------------------------------------------------------------------
(* Synchronisation. *)

\* An office holds the mutex exactly between these labels.
Critical == {"take", "mark", "marked", "source", "target", "build", "credit", "debit",
             "install", "sem_init", "release", "release_target", "open_fifo", "write",
             "log", "unlock"}

\* Offices that have taken a token of main_sem and not yet a request.
Collecting == {t \in Offices : pc[t] \in {"woken", "lock", "take"}}

\* main has pushed a request and not yet posted main_sem.
Unposted == IF main_pc \in {"unlock", "post"} THEN 1 ELSE 0

\* One thread at a time is between lock_mutex and unlock_mutex, the owner of the
\* mutex (server.c:44-90 and 165-168).
MutualExclusion ==
    /\ \A t \in Offices : pc[t] \in Critical <=> mutex = t
    /\ main_pc \in {"push", "unlock"} => mutex = MAIN_THREAD_ID
    /\ (mutex = MAIN_THREAD_ID /\ Alive) => main_pc \in {"push", "unlock"}

\* While the server is open, the semaphore plus the offices on their way to the queue
\* plus the post main still owes are as many as the requests queued (server.c:40-46
\* and 166-170).
TokensMatchRequests ==
    (Alive /\ ~close_thread) => main_sem + Cardinality(Collecting) + Unposted = Len(requests)

\* `front` reads through the head of the queue without looking (server.c:45,
\* list_queue.h:44): it must never run on an empty queue, not even while the offices
\* are woken for the last time with posts no request stands behind.
FrontHasARequest == \A t \in Offices : pc[t] = "take" => requests # << >>

\* Once close_thread is set nothing is queued any more but the one request main may
\* read in its last turn, and no office takes it (server.c:161-172): every request
\* queued before is served.
AtMostOneAbandoned ==
    (close_thread /\ Alive) =>
        /\ Len(requests) <= 1
        /\ \A t \in Offices : pc[t] \notin {"lock", "take"}

\* Where main may be before and after it sets close_thread, and what stands still from
\* then on: the part of the inductive invariant IInv that carries AtMostOneAbandoned.
Closing ==
    /\ close_thread => main_pc \notin {"spawn", "admin", "mkfifo", "open", "opening", "top"}
    /\ main_pc \in {"wake", "join", "exit", "exited"} => close_thread
    /\ close_thread => Len(requests) <= 1 /\ \A t \in Offices : pc[t] \notin {"lock", "take"}
    /\ (close_thread /\ main_pc \in {"read", "lock", "push"}) => requests = << >>

\* The offices main has not yet created have not run.
Unborn == main_pc = "spawn" => \A t \in Offices : t > cursor => pc[t] = "unborn"

IInv == TypeOK /\ Unborn /\ MutualExclusion /\ TokensMatchRequests /\ FrontHasARequest /\ Closing

\* The semaphore of an account is down by the offices that hold the account, as
\* payer or as payee, and by nothing else: every wait of server.c:54-68 is undone by
\* the post of server.c:73-79, though both ask anew whether the account is active.
Payers(a) == {t \in Offices : request[t].account_id = a /\
                 pc[t] \in {"target", "build", "credit", "debit", "install", "sem_init",
                            "release"}}
Payees(a) == {t \in Offices : request[t].id = a /\ HasTarget(t) /\
                 pc[t] \in {"build", "credit", "debit", "release", "release_target"}}
BeingMade(a) == \E t \in Offices : pc[t] = "sem_init" /\ request[t].id = a

AccountSemaphoresAddUp ==
    \A a \in AccountIds :
        (accounts[a].active /\ ~BeingMade(a)) =>
            acc_sem[a] + Cardinality(Payers(a)) + Cardinality(Payees(a)) = 1

\* In slog.txt the entries of a request follow one another: after a request comes an
\* entry of the same office and, before the next request, its reply (server.c:47, 89).
LogIsSerial ==
    \A i \in 1 .. Len(slog) - 1 :
        /\ slog[i][1] = "request" => slog[i + 1][1] # "request" /\ slog[i + 1][2] = slog[i][2]
        /\ slog[i][1] = "reply"   => slog[i + 1][1] = "request"

\* No user opens the FIFO once server_exit is set: chmod comes first (server.c:95-97),
\* so main waits for finitely many writers.
NoNewWriterAfterExit == [][server_exit => writers' \subseteq writers]_vars

\* The codes slog.txt has for the requests of a user.
AnswersTo(u) ==
    {slog[j][3].ret_code : j \in {j \in 1 .. Len(slog) :
        /\ slog[j][1] = "reply"
        /\ \E i \in 1 .. j - 1 :
              /\ slog[i][1] = "request" /\ slog[i][3].pid = u
              /\ \A k \in i + 1 .. j - 1 : slog[k][1] = "account"}}

\* What ulog.txt says of a request agrees with slog.txt, though the user may be slow to
\* make its FIFO or quick to leave (user.c:59-83, server.c:80-89): a code a user
\* received is the code logged or about to be; a request logged as RC_USR_DOWN has run
\* into the user's time-out, if into anything; and no user is told RC_SRV_DOWN of a
\* request the server has carried out.
OutcomeIsLogged ==
    \A u \in Pids :
        /\ outcome[u] \notin {"none", "RC_SRV_DOWN", "RC_SRV_TIMEOUT"} =>
              \/ outcome[u] \in AnswersTo(u)
              \/ \E t \in Offices : /\ pc[t] = "log" /\ request[t].pid = u
                                   /\ reply[t].ret_code = outcome[u]
        /\ AnswersTo(u) \subseteq {outcome[u]} \/ outcome[u] \in {"none", "RC_SRV_TIMEOUT"}
        /\ "RC_USR_DOWN" \in AnswersTo(u) => outcome[u] \in {"none", "RC_SRV_TIMEOUT"}

-----------------------------------------------------------------------------
(* The server implements AtomicBank: a request is served at the step that       *)
(* computes its reply, a transfer's two stores being rolled forward to it, or   *)
(* at the step that makes its account.                                          *)
Unserved == {t \in Offices : pc[t] \in {"mark", "marked", "source", "target", "build",
                                        "install"}}
Crediting == {t \in Offices : pc[t] = "credit"}
Debiting  == {t \in Offices : pc[t] = "debit"}
Answering == {t \in Offices : pc[t] \in {"credit", "debit", "sem_init", "release",
                                         "release_target", "open_fifo", "write", "log"}}

atomic_accounts ==
    IF Crediting # {} THEN LET t == CHOOSE t \in Crediting : TRUE
                           IN  debited(credited(accounts, request[t]), request[t])
    ELSE IF Debiting # {} THEN LET t == CHOOSE t \in Debiting : TRUE
                               IN  debited(accounts, request[t])
    ELSE accounts

atomic_pending ==
    IF Unserved = {} THEN requests
    ELSE <<request[CHOOSE t \in Unserved : TRUE]>> \o requests

logged_replies == {<<i, slog[i][3]>> : i \in {j \in 1 .. Len(slog) : slog[j][1] = "reply"}}

Atomic == INSTANCE AtomicBank WITH
    accounts <- atomic_accounts,
    pending  <- atomic_pending,
    due      <- {reply[t] : t \in Answering},
    journal  <- logged_replies

\* From its start on, the server with its offices, locks and queue is an atomic bank.
ImplementsAtomicBank == Atomic!AtomicSpec

\* The same of every step, for behaviours that start when the bank is already open.
EveryStepIsAtomic == [][Atomic!AtomicNext]_(Atomic!atomic_vars)

-----------------------------------------------------------------------------
(* Progress. *)

Logged(u) ==
    \E i \in 1 .. Len(slog) :
        /\ slog[i][1] = "request" /\ slog[i][3].pid = u
        /\ \E j \in i .. Len(slog) : slog[j][1] = "reply" /\ slog[j][2] = slog[i][2]

\* A request that main has queued is answered in the log, or the server closes with
\* that one request left over.
QueuedIsServed ==
    \A u \in Pids :
        (\E i \in 1 .. Len(requests) : requests[i].pid = u) ~> (Logged(u) \/ close_thread)

\* A server told to exit exits: all offices end and are joined.
ExitIsReached == server_exit ~> main_pc = "exited"

-----------------------------------------------------------------------------
(* Where the code and what is said of it part.  Each is refuted by a run. *)

\* types.h:27 has RC_SAME_ID for a transfer of an account to itself, and
\* banking_aux.c:135 answers it; but the office has by then waited twice for the same
\* semaphore (server.c:55, 64) and never gets there.
SameIdIsAnswered ==
    \A u \in Pids :
        (\E i \in 1 .. Len(requests) : /\ requests[i].pid = u
                                      /\ requests[i].type = "OP_TRANSFER"
                                      /\ requests[i].account_id = requests[i].id) ~> Logged(u)

\* server.c:43 marks a thread active and server.c:99 resets it, so with every office
\* between requests none is active.  --active_threads is outside the mutex.
Idle(t) == pc[t] \in {"unborn", "loop", "wait", "woken", "lock", "take", "done"}
IdleMeansInactive == (\A t \in Offices : Idle(t)) => active_threads = 0

\* server.c:80 writes the reply to the user's FIFO if it is available, and RC_USR_DOWN
\* (types.h:22) is for when it is not: a user that leaves does not bring the server
\* down.
ServerOutlivesUsers == main_pc # "killed"

\* types.h:13 and server.c:93: a shutdown the administrator asked for with success
\* takes place.  The code asks ret_code after RC_USR_DOWN may have replaced RC_OK.
ShutdownIsObeyed ==
    (\E t \in Offices : /\ pc[t] = "release" /\ reply[t].type = "OP_SHUTDOWN"
                        /\ reply[t].ret_code = "RC_OK") ~> server_exit
=============================================================================
