------------------------------- MODULE SyncLog -------------------------------
(***************************************************************************)
(* slog.txt beside what it records.  The functions of general_aux.c make   *)
(* an entry and a call on a mutex or a semaphore, one after the other: the *)
(* entry of a lock follows the lock, that of an unlock the unlock, those   *)
(* of a semaphore come first and carry the value it had before.  main and  *)
(* the offices of server.c run here as far as these calls, the queue and   *)
(* the entries go; all requests are of one account.                        *)
(* A label is a statement and how far the call it makes has come.  The log *)
(* is kept by kind of entry, and of the kinds in `Kept` only.              *)
(***************************************************************************)
EXTENDS ListQueue, FiniteSets

CONSTANTS
    OfficeCount,
    SHUTDOWN,           \* the request that shuts the server down
    Workloads           \* sequences of requests that arrive

ASSUME SyncAssumption == /\ OfficeCount \in Nat \ {0}
                         /\ SHUTDOWN \in Values /\ Workloads \subseteq Seq(Values)

VARIABLES
    at,                 \* of each thread, the label it is at
    mutex, sem,         \* its holder; the values of main_sem and the account's semaphore
    sampled,            \* what sem_getvalue gave each thread
    held,               \* the request each thread works on
    arrivals, arrived,  \* all requests, and how many main has read
    cursor, server_exit, close_thread,
    log

call_vars == <<mutex, sem, sampled, log>>
work_vars == <<held, arrived, cursor, server_exit, close_thread>>
sync_vars == <<list_vars, at, call_vars, work_vars, arrivals>>

MAIN == 0
OfficeIds == 1 .. OfficeCount
Threads == {MAIN} \cup OfficeIds
NOBODY == -1

\* The kinds of entries whose order is looked at below.
Kept == {"MUTEX_LOCK", "SEM_POST", "REQUEST"}

SyncInit ==
    /\ ListInit
    /\ at = [t \in Threads |-> IF t = MAIN THEN <<"init", 0>> ELSE <<"unborn", 0>>]
    /\ mutex = NOBODY /\ sem = [s \in {"main_sem", "account"} |-> 0]
    /\ sampled = [t \in Threads |-> 0] /\ held = [t \in Threads |-> SHUTDOWN]
    /\ arrivals \in Workloads /\ arrived = 0
    /\ cursor = 0 /\ server_exit = FALSE /\ close_thread = FALSE
    /\ log = [what \in Kept |-> << >>]

Go(t, from, to) == at[t] = from /\ at' = [at EXCEPT ![t] = to]
Enter(t, what, value) ==
    log' = IF what \in Kept THEN [log EXCEPT ![what] = Append(@, <<t, value>>)] ELSE log

-----------------------------------------------------------------------------
(* The calls of general_aux.c: thread t makes statement s and goes to `ret`. *)

\* Slip: the mutex is not taken.
lock_mutex_unheeded(t, s, ret) ==
    /\ \/ Go(t, <<s, 0>>, <<s, 1>>) /\ UNCHANGED <<mutex, log>>
       \/ Go(t, <<s, 1>>, ret) /\ Enter(t, "MUTEX_LOCK", s) /\ UNCHANGED mutex
    /\ UNCHANGED <<sem, sampled>>

\* Slip: the entry is made before the lock is taken.
lock_mutex_foretold(t, s, ret) ==
    /\ \/ Go(t, <<s, 0>>, <<s, 1>>) /\ Enter(t, "MUTEX_LOCK", s) /\ UNCHANGED mutex
       \/ Go(t, <<s, 1>>, ret) /\ mutex = NOBODY /\ mutex' = t /\ UNCHANGED log
    /\ UNCHANGED <<sem, sampled>>

lock_mutex(t, s, ret) ==
    /\ \/ Go(t, <<s, 0>>, <<s, 1>>) /\ mutex = NOBODY /\ mutex' = t /\ UNCHANGED log
       \/ Go(t, <<s, 1>>, ret) /\ Enter(t, "MUTEX_LOCK", s) /\ UNCHANGED mutex
    /\ UNCHANGED <<sem, sampled>>

unlock_mutex(t, s, ret) ==
    /\ \/ Go(t, <<s, 0>>, <<s, 1>>) /\ mutex' = NOBODY /\ UNCHANGED log
       \/ Go(t, <<s, 1>>, ret) /\ Enter(t, "MUTEX_UNLOCK", s) /\ UNCHANGED mutex
    /\ UNCHANGED <<sem, sampled>>

\* The entry shows the value the semaphore will have.
init_sem(t, s, ret, x, value) ==
    /\ \/ Go(t, <<s, 0>>, <<s, 1>>) /\ Enter(t, "SEM_INIT", value) /\ UNCHANGED sem
       \/ Go(t, <<s, 1>>, ret) /\ sem' = [sem EXCEPT ![x] = value] /\ UNCHANGED log
    /\ UNCHANGED <<mutex, sampled>>

\* The value an entry of a wait or a post shows is read before the entry is made.
Sample(t, s, x) ==
    /\ Go(t, <<s, 0>>, <<s, 1>>)
    /\ sampled' = [sampled EXCEPT ![t] = sem[x]]
    /\ UNCHANGED <<sem, log>>

Forget(t) == sampled' = [sampled EXCEPT ![t] = 0] /\ UNCHANGED sem

wait_sem(t, s, ret, x) ==
    /\ \/ Sample(t, s, x)
       \/ Go(t, <<s, 1>>, <<s, 2>>) /\ Enter(t, "SEM_WAIT", sampled[t]) /\ Forget(t)
       \/ /\ Go(t, <<s, 2>>, ret)
          /\ sem[x] > 0 /\ sem' = [sem EXCEPT ![x] = @ - 1]
          /\ UNCHANGED <<sampled, log>>
    /\ UNCHANGED mutex

\* Slip: the entry of a post is made after it.
post_sem_late(t, s, ret, x) ==
    /\ \/ Sample(t, s, x)
       \/ /\ Go(t, <<s, 1>>, <<s, 2>>)
          /\ sem' = [sem EXCEPT ![x] = @ + 1] /\ UNCHANGED <<sampled, log>>
       \/ Go(t, <<s, 2>>, ret) /\ Enter(t, "SEM_POST", sampled[t]) /\ Forget(t)
    /\ UNCHANGED mutex

post_sem(t, s, ret, x) ==
    /\ \/ Sample(t, s, x)
       \/ Go(t, <<s, 1>>, <<s, 2>>) /\ Enter(t, "SEM_POST", sampled[t]) /\ Forget(t)
       \/ /\ Go(t, <<s, 2>>, ret)
          /\ sem' = [sem EXCEPT ![x] = @ + 1] /\ UNCHANGED <<sampled, log>>
    /\ UNCHANGED mutex

\* A record of one line, written with one call to a file opened to append.
Record(t, from, to, what, value) ==
    Go(t, from, to) /\ Enter(t, what, value) /\ UNCHANGED <<mutex, sem, sampled>>

log_request(t, from, to) == Record(t, from, to, "REQUEST", held[t])
log_reply(t, from, to)   == Record(t, from, to, "REPLY", held[t])

\* The sleep behind the entry is the interleaving.
sync_delay(t, from, to)  == Record(t, from, to, "DELAY", 1)
shutdown_delay(from, to) == Record(MAIN, from, to, "DELAY", 0)

-----------------------------------------------------------------------------
(* An office: read_request of server.c. *)

Calls(t) ==
    /\ \/ wait_sem(t, "wait", <<"woken", 0>>, "main_sem")
       \/ lock_mutex(t, "lock", <<"take", 0>>)
       \/ wait_sem(t, "hold", <<"delay", 0>>, "account")
       \/ sync_delay(t, <<"delay", 0>>, <<"release", 0>>)
       \/ post_sem(t, "release", <<"reply", 0>>, "account")
       \/ log_reply(t, <<"reply", 0>>, <<"unlock", 0>>)
       \/ unlock_mutex(t, "unlock", <<"announce", 0>>)
    /\ UNCHANGED <<list_vars, work_vars>>

\* while (!close_thread), and if (close_thread) break
AskClose(t) ==
    /\ \/ Go(t, <<"loop", 0>>, IF close_thread THEN <<"done", 0>> ELSE <<"wait", 0>>)
       \/ Go(t, <<"woken", 0>>, IF close_thread THEN <<"done", 0>> ELSE <<"lock", 0>>)
    /\ UNCHANGED <<list_vars, call_vars, work_vars>>

\* request = requests.front(&requests); requests.pop(&requests); log_request
Take(t) ==
    \/ /\ Go(t, <<"take", 0>>, <<"take", 1>>)
       /\ held' = [held EXCEPT ![t] = list_queue_front]
       /\ UNCHANGED <<list_vars, call_vars, arrived, cursor, server_exit, close_thread>>
    \/ /\ Go(t, <<"take", 1>>, <<"take", 2>>) /\ list_queue_pop
       /\ UNCHANGED <<call_vars, work_vars>>
    \/ /\ log_request(t, <<"take", 2>>, <<"hold", 0>>)
       /\ UNCHANGED <<list_vars, work_vars>>

Announce(t) ==
    /\ Go(t, <<"announce", 0>>, <<"loop", 0>>)
    /\ server_exit' = (server_exit \/ held[t] = SHUTDOWN)
    /\ held' = [held EXCEPT ![t] = SHUTDOWN]
    /\ UNCHANGED <<list_vars, call_vars, arrived, cursor, close_thread>>

OfficeMoves(t) == Calls(t) \/ AskClose(t) \/ Take(t) \/ Announce(t)

-----------------------------------------------------------------------------
(* main of server.c. *)

\* while (!close_thread)
AfterTurn == IF close_thread THEN <<"linger", 0>> ELSE <<"top", 0>>

MainCalls ==
    /\ \/ init_sem(MAIN, "init", <<"create", 0>>, "main_sem", 0)
       \/ init_sem(MAIN, "admin", <<"top", 0>>, "account", 1)
       \/ lock_mutex(MAIN, "lock", <<"push", 0>>)
       \/ unlock_mutex(MAIN, "unlock", <<"post", 0>>)
       \/ post_sem(MAIN, "post", AfterTurn, "main_sem")
       \/ shutdown_delay(<<"linger", 0>>, <<"wake", 0>>)
    /\ UNCHANGED <<list_vars, work_vars>>

NextOffice == cursor' = (cursor + 1) % OfficeCount
OrAfterLast(s, after) == IF cursor + 1 = OfficeCount THEN after ELSE s

CreateOffice ==
    /\ at[MAIN] = <<"create", 0>>
    /\ at' = [at EXCEPT ![MAIN] = <<"create", 1>>, ![cursor + 1] = <<"loop", 0>>]
    /\ UNCHANGED <<list_vars, call_vars, work_vars>>

log_office_open ==
    /\ Record(MAIN, <<"create", 1>>, OrAfterLast(<<"create", 0>>, <<"admin", 0>>), "OPEN", cursor + 1)
    /\ NextOffice
    /\ UNCHANGED <<list_vars, held, arrived, server_exit, close_thread>>

CheckSize ==
    /\ Go(MAIN, <<"top", 0>>, <<"read", 0>>)
    /\ close_thread' = (close_thread \/ (server_exit /\ size = 0))
    /\ UNCHANGED <<list_vars, call_vars, held, arrived, cursor, server_exit>>

Arrive ==
    /\ Go(MAIN, <<"read", 0>>, <<"lock", 0>>)
    /\ arrived < Len(arrivals) /\ arrived' = arrived + 1
    /\ held' = [held EXCEPT ![MAIN] = arrivals[arrived + 1]]
    /\ UNCHANGED <<list_vars, call_vars, cursor, server_exit, close_thread>>

\* read gives 0 whenever no user has the FIFO open.
NothingArrives ==
    /\ Go(MAIN, <<"read", 0>>, AfterTurn)
    /\ UNCHANGED <<list_vars, call_vars, work_vars>>

Push ==
    /\ Go(MAIN, <<"push", 0>>, <<"unlock", 0>>)
    /\ list_queue_push(held[MAIN])
    /\ UNCHANGED <<call_vars, work_vars>>

Wake ==
    /\ post_sem(MAIN, "wake", OrAfterLast(<<"wake", 0>>, <<"join", 0>>), "main_sem")
    /\ IF at[MAIN] = <<"wake", 2>> THEN NextOffice ELSE UNCHANGED cursor
    /\ UNCHANGED <<list_vars, held, arrived, server_exit, close_thread>>

JoinThread ==
    /\ Go(MAIN, <<"join", 0>>, <<"join", 1>>) /\ at[cursor + 1] = <<"done", 0>>
    /\ UNCHANGED <<list_vars, call_vars, work_vars>>

log_office_close ==
    /\ Record(MAIN, <<"join", 1>>, OrAfterLast(<<"join", 0>>, <<"exited", 0>>), "CLOSE", cursor + 1)
    /\ NextOffice
    /\ UNCHANGED <<list_vars, held, arrived, server_exit, close_thread>>

MainMoves ==
    \/ MainCalls \/ CreateOffice \/ log_office_open \/ CheckSize \/ Arrive
    \/ NothingArrives \/ Push \/ Wake \/ JoinThread \/ log_office_close

SyncNext == (MainMoves \/ \E t \in OfficeIds : OfficeMoves(t)) /\ UNCHANGED arrivals

SyncSpec == SyncInit /\ [][SyncNext]_sync_vars

-----------------------------------------------------------------------------
(* What slog.txt can be trusted for. *)

\* The statements of main and of an office.
SyncStatements ==
    {"init", "create", "admin", "top", "read", "lock", "push", "unlock", "post", "linger",
     "wake", "join", "exited", "unborn", "loop", "wait", "woken", "take", "hold", "delay",
     "release", "reply", "announce", "done"}

SyncLabels == SyncStatements \X (0 .. 2)

SyncTypeOK ==
    /\ ListTypeOK
    /\ at \in [Threads -> SyncLabels]
    /\ mutex \in Threads \cup {NOBODY} /\ sem \in [{"main_sem", "account"} -> Nat]
    /\ sampled \in [Threads -> Nat] /\ held \in [Threads -> Values]
    /\ arrived \in 0 .. Len(arrivals) /\ cursor \in 0 .. OfficeCount - 1
    /\ server_exit \in BOOLEAN /\ close_thread \in BOOLEAN

\* The requests the offices log are those main read, in that order: neither the list of
\* nodes nor the offices' race for it loses, repeats or reorders one (server.c:44-47).
ServedInOrder ==
    LET served == log["REQUEST"]
    IN  Len(served) <= arrived /\ \A i \in 1 .. Len(served) : served[i][2] = arrivals[i]

\* While a thread holds the mutex and has said so, its lock is the last in the log: the
\* log has the locks in the order in which they were taken, because the entry is made
\* under the lock (general_aux.c:122-127).  It is not so of the unlocks.  Under the
\* mutex no office finds the account's semaphore taken: every wait for it is logged
\* with the value 1 and every post with the value 0 (server.c:53-79).
LocksInOrder ==
    LET locks == log["MUTEX_LOCK"]
    IN  \A t \in Threads :
            at[t][1] \in {"push", "take", "hold", "delay", "release", "reply"} =>
                /\ locks # << >> /\ locks[Len(locks)][1] = t
                /\ at[t] = <<"hold", 1>> => sampled[t] = 1
                /\ at[t] = <<"release", 1>> => sampled[t] = 0

\* Whenever an office has gone past main_sem, the log shows the post that let it:
\* post_sem makes its entry first (general_aux.c:152-159).
PastMainSem == {t \in OfficeIds : at[t][1] \in {"woken", "lock", "take"}}
MainPosts == {i \in 1 .. Len(log["SEM_POST"]) : log["SEM_POST"][i][1] = MAIN}
WakeUpsAreExplained ==
    Cardinality(PastMainSem) + Len(log["REQUEST"]) <= Cardinality(MainPosts)
=============================================================================
