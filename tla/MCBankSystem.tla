---------------------------- MODULE MCBankSystem ----------------------------
(* Small instances of BankSystem. *)
EXTENDS BankSystem

CONSTANTS u1, u2, u3, secret, other, salt

Ids == 0 .. 3

Req(pid, type, account_id, password, id, amount) ==
    [type |-> type, pid |-> pid, account_id |-> account_id, password |-> password,
     id |-> id, amount |-> amount, new_password |-> secret]

Transfer(pid, from, to, amount) == Req(pid, "OP_TRANSFER", from, secret, to, amount)
Create(pid, id, amount) == Req(pid, "OP_CREATE_ACCOUNT", 0, secret, id, amount)
Balance(pid, id) == Req(pid, "OP_BALANCE", id, secret, id, 0)
Shutdown(pid) == Req(pid, "OP_SHUTDOWN", 0, secret, 0, 0)

\* One request of each user, out of: opposite transfers that cannot both succeed, an
\* account made twice, or paid before it exists, a shutdown, a wrong password.
PairWorkload ==
    {Transfer(u1, 1, 2, 1), Transfer(u1, 1, 3, 1), Create(u1, 3, 1), Shutdown(u1)}
    \cup {Transfer(u2, 2, 1, 1), Create(u2, 3, 2), [Balance(u2, 1) EXCEPT !.password = other]}

\* Opposite transfers and a shutdown, for three users at once.
TrioWorkload == {Transfer(u1, 1, 2, 1), Transfer(u2, 2, 1, 1), Shutdown(u3)}
BusyWorkload == PairWorkload \cup TrioWorkload

\* For the runs about progress.
DuelWorkload == {Transfer(u1, 1, 2, 1), Shutdown(u1), Transfer(u2, 2, 1, 1)}

\* For the run from the very start: the first account, and a shutdown.
FirstWorkload == {Create(u1, 1, 2), Create(u2, 1, 3), Balance(u2, 1), Shutdown(u2)}

\* For the runs about where code and comments part.
SelfWorkload == {Transfer(u1, 1, 1, 1)}
ShutdownWorkload == {Shutdown(u1)}
CreateWorkload == {Create(u1, 3, 1)}

\* The server as it is some time after its start: accounts 1 and 2 made, every
\* office waiting, slog.txt counted from here on.
Opened(id, balance, acc) == create_bank_account(acc, id, secret, balance, salt)

Running ==
    /\ server_fifo = "writable" /\ reading = TRUE
    /\ was_opened = TRUE /\ writers = {}
    /\ inbox = [u \in Pids |-> << >>] /\ outcome = [u \in Pids |-> "none"]
    /\ accounts = Opened(2, 2, Opened(1, 2, Opened(0, 0, [a \in Ids |-> EmptyAccount])))
    /\ acc_sem = [a \in Ids |-> IF a = 3 THEN 0 ELSE 1]
    /\ requests = << >> /\ main_sem = 0 /\ mutex = NO_THREAD
    /\ active_threads = 0 /\ server_exit = FALSE /\ close_thread = FALSE
    /\ slog = << >>
    /\ main_pc = "top" /\ cursor = 0 /\ incoming = UnsetRequest
    /\ pc = [t \in Offices |-> "wait"]
    /\ request = [t \in Offices |-> UnsetRequest]
    /\ reply = [t \in Offices |-> UnsetReply]
    /\ register = [t \in Offices |-> 0]

\* The users of `coming` have not come yet, the others have long gone.
Quiet(coming) ==
    /\ pipe = << >> /\ listeners = {}
    /\ user = [u \in Pids |-> IF u \in coming THEN "start" ELSE "ended"]

\* All users have come and wait for the answer to what is in the pipe, in any order.
Crowded ==
    /\ listeners = Pids /\ user = [u \in Pids |-> "listening"]
    /\ pipe \in [1 .. Cardinality(Pids) -> TrioWorkload]
    /\ \A u \in Pids : \E i \in 1 .. Cardinality(Pids) : pipe[i].pid = u

RunningInit == Running /\ Quiet(Pids)
BusyInit == Running /\ (Quiet({u1, u2}) \/ Crowded)

RunningSpec == RunningInit /\ [][Next]_vars
BusySpec == BusyInit /\ [][Next]_vars
FairRunningSpec == RunningSpec /\ Fairness
=============================================================================
