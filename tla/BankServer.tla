----------------------------- MODULE BankServer -----------------------------
(***************************************************************************)
(* The server process (Project2/source/server.c): the main thread, which   *)
(* reads requests from the FIFO into a queue, and the bank offices, which  *)
(* take them from it.  A label of `pc` or `main_pc` names the statement    *)
(* that comes next; a step is the code between two points where threads    *)
(* meet.  `++active_threads` and `--active_threads` are two steps, a load  *)
(* and a store, as the compiler makes them.                                *)
(***************************************************************************)
EXTENDS Fifos

CONSTANTS
    OFFICES,            \* argv[1], the number of bank offices
    AdminPassword       \* argv[2]

ASSUME OfficesAssumption == OFFICES \in Nat \ {0}
ASSUME AdminPasswordAssumption == AdminPassword \in Passwords

Offices == 1 .. OFFICES
MAIN_THREAD_ID == 0
NO_THREAD == -1

VARIABLES
    \* shared by the threads
    accounts,           \* the table; `acc_sem` is its field `semaphore`
    acc_sem,            \* the value of each account's semaphore
    requests,           \* the queue
    main_sem,           \* the value of the semaphore that counts queued requests
    mutex,              \* the thread that holds it, or NO_THREAD
    active_threads, server_exit, close_thread,
    slog,               \* the request, reply and account entries of slog.txt
    \* the main thread
    main_pc, cursor, incoming,
    \* the offices
    pc, request, reply, register

main_vars == <<main_pc, cursor, incoming>>
office_vars == <<pc, request, reply, register>>
shared_vars == <<accounts, acc_sem, requests, main_sem, mutex, active_threads,
                 server_exit, close_thread, slog>>
server_vars == <<shared_vars, main_vars, office_vars>>

MainLabels == {"spawn", "admin", "mkfifo", "open", "opening", "top", "read", "lock",
               "push", "unlock", "post", "wake", "join", "exit", "exited", "killed"}

OfficeLabels == {"unborn", "loop", "wait", "woken", "lock", "take", "mark", "marked",
                 "source", "target", "build", "credit", "debit", "install", "sem_init",
                 "release", "release_target", "open_fifo", "write", "log", "unlock",
                 "chmod", "announce", "unmark", "unmarked", "done"}

\* Locals that have not been assigned: any value of their type.
UnsetRequest == CHOOSE r \in Requests : TRUE
UnsetReply == [type |-> "OP_BALANCE", account_id |-> ADMIN_ACCOUNT_ID,
               ret_code |-> "RC_OK", value |-> {}]

ServerInit ==
    /\ accounts = [a \in AccountIds |-> EmptyAccount]
    /\ acc_sem = [a \in AccountIds |-> 0]
    /\ requests = << >> /\ main_sem = 0 /\ mutex = NO_THREAD
    /\ active_threads = 0 /\ server_exit = FALSE /\ close_thread = FALSE
    /\ slog = << >>
    /\ main_pc = "spawn" /\ cursor = 0 /\ incoming = UnsetRequest
    /\ pc = [t \in Offices |-> "unborn"]
    /\ request = [t \in Offices |-> UnsetRequest]
    /\ reply = [t \in Offices |-> UnsetReply]
    /\ register = [t \in Offices |-> 0]

Entry == ({"request"} \X Offices \X Requests) \cup ({"reply"} \X Offices \X Reply)
         \cup ({"account"} \X (Offices \cup {MAIN_THREAD_ID}) \X AccountIds)

ServerTypeOK ==
    /\ accounts \in [AccountIds -> Account]
    /\ acc_sem \in [AccountIds -> Nat]
    /\ requests \in Seq(Requests) /\ main_sem \in Nat
    /\ mutex \in Offices \cup {MAIN_THREAD_ID, NO_THREAD}
    /\ active_threads \in Int /\ server_exit \in BOOLEAN /\ close_thread \in BOOLEAN
    /\ slog \in Seq(Entry)
    /\ main_pc \in MainLabels /\ cursor \in 0 .. OFFICES - 1 /\ incoming \in Requests
    /\ pc \in [Offices -> OfficeLabels]
    /\ request \in [Offices -> Requests] /\ reply \in [Offices -> Reply]
    /\ register \in [Offices -> Int]

Alive == main_pc # "killed"

-----------------------------------------------------------------------------
(* Moving on.  `Office` is the frame of an office's step: the labels it goes  *)
(* from and to.                                                               *)
Office(t, from, to) ==
    /\ Alive /\ pc[t] = from
    /\ pc' = [pc EXCEPT ![t] = to]
    /\ UNCHANGED main_vars

Main(from, to) ==
    /\ main_pc = from /\ main_pc' = to
    /\ UNCHANGED office_vars

\* One turn of a `for` over the threads, with `after` once the last is through.
ForEachThread(label, after) ==
    /\ main_pc = label
    /\ main_pc' = IF cursor + 1 = OFFICES THEN after ELSE label
    /\ cursor' = IF cursor + 1 = OFFICES THEN 0 ELSE cursor + 1
    /\ UNCHANGED incoming

Log(entry) == slog' = Append(slog, entry)

locals == <<request, reply, register>>
flags == <<active_threads, server_exit, close_thread>>

-----------------------------------------------------------------------------
(* read_request, the thread of a bank office. *)

\* while (!close_thread)
Loop(t) ==
    /\ Office(t, "loop", IF close_thread THEN "done" ELSE "wait")
    /\ UNCHANGED <<shared_vars, locals, fifo_vars>>

WaitMainSem(t) ==
    /\ main_sem > 0 /\ main_sem' = main_sem - 1
    /\ Office(t, "wait", "woken")
    /\ UNCHANGED <<accounts, acc_sem, requests, mutex, flags, slog, locals, fifo_vars>>

\* if (close_thread) break
Woken(t) ==
    /\ Office(t, "woken", IF close_thread THEN "done" ELSE "lock")
    /\ UNCHANGED <<shared_vars, locals, fifo_vars>>

\* Slip: the mutex is not taken.
LockMutex_skipped(t) ==
    /\ Office(t, "lock", "take")
    /\ UNCHANGED <<shared_vars, locals, fifo_vars>>

LockMutex(t) ==
    /\ mutex = NO_THREAD /\ mutex' = t
    /\ Office(t, "lock", "take")
    /\ UNCHANGED <<accounts, acc_sem, requests, main_sem, flags, slog, locals, fifo_vars>>

\* front, pop and log_request.  front reads through the head of the queue unchecked.
TakeRequest(t) ==
    /\ Office(t, "take", "mark")
    /\ request' = [request EXCEPT ![t] = Head(requests)]
    /\ requests' = Tail(requests)
    /\ Log(<<"request", t, Head(requests)>>)
    /\ UNCHANGED <<accounts, acc_sem, main_sem, mutex, flags, reply, register, fifo_vars>>

\* ++active_threads: load, store.
LoadToMark(t) ==
    /\ Office(t, "mark", "marked")
    /\ register' = [register EXCEPT ![t] = active_threads]
    /\ UNCHANGED <<shared_vars, request, reply, fifo_vars>>

Mark(t) ==
    /\ Office(t, "marked", "source")
    /\ active_threads' = register[t] + 1
    /\ register' = [register EXCEPT ![t] = 0]
    /\ UNCHANGED <<accounts, acc_sem, requests, main_sem, mutex, server_exit, close_thread,
                   slog, request, reply, fifo_vars>>

\* The request names a second account, whose semaphore is taken too.
HasTarget(t) == request[t].type = "OP_TRANSFER"

WaitAccount(a) ==
    IF accounts[a].active
    THEN acc_sem[a] > 0 /\ acc_sem' = [acc_sem EXCEPT ![a] = @ - 1]
    ELSE UNCHANGED acc_sem

PostAccount(a) ==
    IF accounts[a].active
    THEN acc_sem' = [acc_sem EXCEPT ![a] = @ + 1]
    ELSE UNCHANGED acc_sem

WaitSource(t) ==
    /\ Office(t, "source", "target")
    /\ WaitAccount(request[t].account_id)
    /\ UNCHANGED <<accounts, requests, main_sem, mutex, flags, slog, locals, fifo_vars>>

WaitTarget(t) ==
    /\ Office(t, "target", "build")
    /\ IF HasTarget(t) THEN WaitAccount(request[t].id) ELSE UNCHANGED acc_sem
    /\ UNCHANGED <<accounts, requests, main_sem, mutex, flags, slog, locals, fifo_vars>>

\* build_tlv_reply up to the stores into the table, which follow in steps of their
\* own: the payee's balance, the payer's; or the new account, its semaphore.
AfterBuild(t) ==
    IF reply_code(accounts, request[t]) # "RC_OK" THEN "release"
    ELSE CASE request[t].type = "OP_TRANSFER"       -> "credit"
           [] request[t].type = "OP_CREATE_ACCOUNT" -> "install"
           [] OTHER                                 -> "release"

BuildReply(t) ==
    /\ Office(t, "build", AfterBuild(t))
    /\ reply' = [reply EXCEPT ![t] = build_tlv_reply(accounts, request[t], active_threads)]
    /\ UNCHANGED <<shared_vars, request, register, fifo_vars>>

Credit(t) ==
    /\ Office(t, "credit", "debit")
    /\ accounts' = credited(accounts, request[t])
    /\ UNCHANGED <<acc_sem, requests, main_sem, mutex, flags, slog, locals, fifo_vars>>

Debit(t) ==
    /\ Office(t, "debit", "release")
    /\ accounts' = debited(accounts, request[t])
    /\ UNCHANGED <<acc_sem, requests, main_sem, mutex, flags, slog, locals, fifo_vars>>

\* create_bank_account, `active = true` and the log entry included; the entry is
\* that of the administrator's account whatever account was made.
InstallAccount(t) ==
    LET made == ~is_active_account(accounts, request[t].id)
    IN  /\ Office(t, "install", IF made THEN "sem_init" ELSE "release")
        /\ \E salt \in Salts :
              accounts' = create_bank_account(accounts, request[t].id, request[t].new_password,
                                              request[t].amount, salt)
        /\ IF made THEN Log(<<"account", t, ADMIN_ACCOUNT_ID>>) ELSE UNCHANGED slog
        /\ UNCHANGED <<acc_sem, requests, main_sem, mutex, flags, locals, fifo_vars>>

InitAccountSem(t) ==
    /\ Office(t, "sem_init", "release")
    /\ acc_sem' = [acc_sem EXCEPT ![request[t].id] = 1]
    /\ UNCHANGED <<accounts, requests, main_sem, mutex, flags, slog, locals, fifo_vars>>

ReleaseSource(t) ==
    /\ Office(t, "release", "release_target")
    /\ PostAccount(request[t].account_id)
    /\ UNCHANGED <<accounts, requests, main_sem, mutex, flags, slog, locals, fifo_vars>>

\* Slip: the payee's semaphore is not given back.
ReleaseTarget_forgotten(t) ==
    /\ Office(t, "release_target", "open_fifo")
    /\ UNCHANGED <<shared_vars, locals, fifo_vars>>

ReleaseTarget(t) ==
    /\ Office(t, "release_target", "open_fifo")
    /\ IF HasTarget(t) THEN PostAccount(request[t].id) ELSE UNCHANGED acc_sem
    /\ UNCHANGED <<accounts, requests, main_sem, mutex, flags, slog, locals, fifo_vars>>

\* Slip: the code is replaced whether or not the FIFO opens.
OpenUserFifo_marks(t) ==
    /\ Office(t, "open_fifo", IF request[t].pid \in listeners THEN "write" ELSE "log")
    /\ reply' = [reply EXCEPT ![t].ret_code = "RC_USR_DOWN"]
    /\ UNCHANGED <<shared_vars, request, register, fifo_vars>>

\* open_user_fifo: ENOENT or ENXIO unless the user is listening.
OpenUserFifo(t) ==
    /\ LET up == request[t].pid \in listeners IN
       /\ Office(t, "open_fifo", IF up THEN "write" ELSE "log")
       /\ reply' = IF up THEN reply ELSE [reply EXCEPT ![t].ret_code = "RC_USR_DOWN"]
    /\ UNCHANGED <<shared_vars, request, register, fifo_vars>>

WriteReply(t) ==
    /\ request[t].pid \in listeners
    /\ Office(t, "write", "log")
    /\ inbox' = [inbox EXCEPT ![request[t].pid] = Append(@, reply[t])]
    /\ UNCHANGED <<shared_vars, locals, server_fifo, reading, pipe, was_opened, writers,
                   listeners>>

\* The user has left since its FIFO was opened.  Nothing handles SIGPIPE: it ends
\* the process, all its threads and its end of the FIFO, whose name stays.
DieOfSigpipe(t) ==
    /\ Alive /\ pc[t] = "write" /\ request[t].pid \notin listeners
    /\ main_pc' = "killed"
    /\ CloseServerFifo
    /\ UNCHANGED <<shared_vars, cursor, incoming, office_vars, server_fifo, was_opened,
                   writers, listeners, inbox>>

LogReply(t) ==
    /\ Office(t, "log", "unlock")
    /\ Log(<<"reply", t, reply[t]>>)
    /\ UNCHANGED <<accounts, acc_sem, requests, main_sem, mutex, flags, locals, fifo_vars>>

UnlockMutex(t) ==
    /\ Office(t, "unlock", IF /\ reply[t].type = "OP_SHUTDOWN"
                              /\ reply[t].ret_code = "RC_OK"
                           THEN "chmod" ELSE "unmark")
    /\ mutex' = NO_THREAD
    /\ UNCHANGED <<accounts, acc_sem, requests, main_sem, flags, slog, locals, fifo_vars>>

\* Slip: the FIFO keeps its mode.
CloseToUsers_forgotten(t) ==
    /\ Office(t, "chmod", "announce")
    /\ UNCHANGED <<shared_vars, locals, fifo_vars>>

\* chmod(SERVER_FIFO_PATH, ...): no user can open it from here on.
CloseToUsers(t) ==
    /\ Office(t, "chmod", "announce")
    /\ server_fifo' = "readonly"
    /\ UNCHANGED <<shared_vars, locals, reading, pipe, was_opened, writers, listeners, inbox>>

AnnounceExit(t) ==
    /\ Office(t, "announce", "unmark")
    /\ server_exit' = TRUE
    /\ UNCHANGED <<accounts, acc_sem, requests, main_sem, mutex, active_threads,
                   close_thread, slog, locals, fifo_vars>>

\* --active_threads: load, store; outside the mutex.
LoadToUnmark(t) ==
    /\ Office(t, "unmark", "unmarked")
    /\ register' = [register EXCEPT ![t] = active_threads]
    /\ UNCHANGED <<shared_vars, request, reply, fifo_vars>>

\* The locals of the loop's body end with it.
Unmark(t) ==
    /\ Office(t, "unmarked", "loop")
    /\ active_threads' = register[t] - 1
    /\ register' = [register EXCEPT ![t] = 0]
    /\ request' = [request EXCEPT ![t] = UnsetRequest]
    /\ reply' = [reply EXCEPT ![t] = UnsetReply]
    /\ UNCHANGED <<accounts, acc_sem, requests, main_sem, mutex, server_exit, close_thread,
                   slog, fifo_vars>>

OfficeStep(t) ==
    \/ Loop(t) \/ WaitMainSem(t) \/ Woken(t) \/ LockMutex(t) \/ TakeRequest(t)
    \/ LoadToMark(t) \/ Mark(t) \/ WaitSource(t) \/ WaitTarget(t)
    \/ BuildReply(t) \/ Credit(t) \/ Debit(t) \/ InstallAccount(t) \/ InitAccountSem(t)
    \/ ReleaseSource(t) \/ ReleaseTarget(t)
    \/ OpenUserFifo(t) \/ WriteReply(t) \/ DieOfSigpipe(t) \/ LogReply(t)
    \/ UnlockMutex(t) \/ CloseToUsers(t) \/ AnnounceExit(t)
    \/ LoadToUnmark(t) \/ Unmark(t)

-----------------------------------------------------------------------------
(* main. *)

\* pthread_create in a loop.
SpawnOffice ==
    /\ ForEachThread("spawn", "admin")
    /\ pc' = [pc EXCEPT ![cursor + 1] = "loop"]
    /\ UNCHANGED <<shared_vars, locals, fifo_vars>>

\* The table is empty, so the account is made.
CreateAdmin ==
    /\ Main("admin", "mkfifo")
    /\ \E salt \in Salts :
          accounts' = create_bank_account(accounts, ADMIN_ACCOUNT_ID, AdminPassword, 0, salt)
    /\ acc_sem' = [acc_sem EXCEPT ![ADMIN_ACCOUNT_ID] = 1]
    /\ Log(<<"account", MAIN_THREAD_ID, ADMIN_ACCOUNT_ID>>)
    /\ UNCHANGED <<requests, main_sem, mutex, flags, cursor, incoming, fifo_vars>>

CreateServerFifo ==
    /\ Main("mkfifo", "open")
    /\ server_fifo' = "writable"
    /\ UNCHANGED <<shared_vars, cursor, incoming, reading, pipe, was_opened, writers,
                   listeners, inbox>>

\* open(SERVER_FIFO_PATH, O_RDONLY) counts as a reader at once and returns when some
\* user has opened the FIFO.
StartOpening ==
    /\ Main("open", "opening")
    /\ reading' = TRUE
    /\ UNCHANGED <<shared_vars, cursor, incoming, server_fifo, pipe, was_opened, writers,
                   listeners, inbox>>

FinishOpening ==
    /\ was_opened
    /\ Main("opening", "top")
    /\ UNCHANGED <<shared_vars, cursor, incoming, fifo_vars>>

\* Slip: the queue's size is not asked for.
CheckExit_hasty ==
    /\ Main("top", "read")
    /\ close_thread' = server_exit
    /\ UNCHANGED <<accounts, acc_sem, requests, main_sem, mutex, active_threads,
                   server_exit, slog, cursor, incoming, fifo_vars>>

\* if (server_exit && requests.size == 0), read without the mutex.
CheckExit ==
    /\ Main("top", "read")
    /\ close_thread' = (server_exit /\ requests = << >>)
    /\ UNCHANGED <<accounts, acc_sem, requests, main_sem, mutex, active_threads,
                   server_exit, slog, cursor, incoming, fifo_vars>>

\* while (!close_thread), after a turn.
NextTurn == IF close_thread THEN "wake" ELSE "top"

ReadRequest ==
    /\ pipe # << >>
    /\ Main("read", "lock")
    /\ incoming' = Head(pipe) /\ pipe' = Tail(pipe)
    /\ UNCHANGED <<shared_vars, cursor, server_fifo, reading, was_opened, writers, listeners,
                   inbox>>

\* Slip: main_sem is posted whatever read returned.
ReadNothing_posts ==
    /\ EndOfFile
    /\ Main("read", NextTurn)
    /\ main_sem' = main_sem + 1
    /\ UNCHANGED <<accounts, acc_sem, requests, mutex, flags, slog, cursor, incoming,
                   fifo_vars>>

ReadNothing ==
    /\ EndOfFile
    /\ Main("read", NextTurn)
    /\ UNCHANGED <<shared_vars, cursor, incoming, fifo_vars>>

\* Slip: the queue is pushed to without the mutex.
LockToPush_skipped ==
    /\ Main("lock", "push")
    /\ UNCHANGED <<shared_vars, cursor, incoming, fifo_vars>>

LockToPush ==
    /\ mutex = NO_THREAD /\ mutex' = MAIN_THREAD_ID
    /\ Main("lock", "push")
    /\ UNCHANGED <<accounts, acc_sem, requests, main_sem, flags, slog, cursor, incoming,
                   fifo_vars>>

PushRequest ==
    /\ Main("push", "unlock")
    /\ requests' = Append(requests, incoming)
    /\ UNCHANGED <<accounts, acc_sem, main_sem, mutex, flags, slog, cursor, incoming,
                   fifo_vars>>

UnlockPushed ==
    /\ Main("unlock", "post")
    /\ mutex' = NO_THREAD
    /\ UNCHANGED <<accounts, acc_sem, requests, main_sem, flags, slog, cursor, incoming,
                   fifo_vars>>

PostMainSem ==
    /\ Main("post", NextTurn)
    /\ main_sem' = main_sem + 1
    /\ UNCHANGED <<accounts, acc_sem, requests, mutex, flags, slog, cursor, incoming,
                   fifo_vars>>

\* Slip: nothing is posted.
WakeOffice_silent ==
    /\ ForEachThread("wake", "join")
    /\ UNCHANGED <<shared_vars, office_vars, fifo_vars>>

\* After shutdown_delay: one post for each office.
WakeOffice ==
    /\ ForEachThread("wake", "join")
    /\ main_sem' = main_sem + 1
    /\ UNCHANGED <<accounts, acc_sem, requests, mutex, flags, slog, office_vars, fifo_vars>>

JoinOffice ==
    /\ pc[cursor + 1] = "done"
    /\ ForEachThread("join", "exit")
    /\ UNCHANGED <<shared_vars, office_vars, fifo_vars>>

\* exit_handler.
RemoveServerFifo == server_fifo' = "absent"

\* The semaphores are destroyed and the FIFO closed.
Exit ==
    /\ Main("exit", "exited")
    /\ CloseServerFifo /\ RemoveServerFifo
    /\ UNCHANGED <<shared_vars, cursor, incoming, was_opened, writers, listeners, inbox>>

MainStep ==
    \/ SpawnOffice \/ CreateAdmin \/ CreateServerFifo \/ StartOpening \/ FinishOpening
    \/ CheckExit \/ ReadRequest \/ ReadNothing
    \/ LockToPush \/ PushRequest \/ UnlockPushed \/ PostMainSem
    \/ WakeOffice \/ JoinOffice \/ Exit
=============================================================================
