------------------------------- MODULE Signals -------------------------------
(***************************************************************************)
(* prob04/p3b.c: a parent sends its child signals that count a variable up *)
(* and down, then ends it.  A signal is pending or not, so that several of *)
(* a kind merge; a handler is interrupted by the other kind's.             *)
(***************************************************************************)
EXTENDS Exercise, Integers, Sequences, FiniteSets

CONSTANT SIGNALS        \* how many the parent sends (50 in the code)

ASSUME SignalsAssumption == SIGNALS \in Nat

VARIABLES
    parent, child,      \* the statement each is at
    i,                  \* the parent's loop counter
    sent,               \* how many of each kind it has sent
    due,                \* the signals pending at the child
    frames,             \* its handlers, the innermost last: kind, and v once loaded
    v

signals_vars == <<parent, child, i, sent, due, frames, v>>

Kinds == {"SIGUSR1", "SIGUSR2"}

SignalsInit ==
    /\ parent = "fork" /\ child = "unborn" /\ i = 0
    /\ sent = [s \in Kinds |-> 0] /\ due = {} /\ frames = << >> /\ v = 0

ForkCounter ==
    /\ parent = "fork"
    /\ \/ parent' = "send" /\ child' = "installs"
       \/ parent' = "end" /\ UNCHANGED child
    /\ UNCHANGED <<i, sent, due, frames, v>>

kill(s) == due' = IF child = "dead" THEN due ELSE due \cup {s}

SendSignal ==
    /\ parent = "send" /\ i < SIGNALS
    /\ \E s \in Kinds : kill(s) /\ sent' = [sent EXCEPT ![s] = @ + 1]
    /\ i' = i + 1 /\ UNCHANGED <<parent, child, frames, v>>

SendTerm ==
    /\ parent = "send" /\ i = SIGNALS /\ kill("SIGTERM") /\ parent' = "end"
    /\ UNCHANGED <<child, i, sent, frames, v>>

\* sigaction for SIGUSR1, then for SIGUSR2.
Install ==
    /\ \/ child = "installs" /\ child' = "installs_second"
       \/ child = "installs_second" /\ child' = "pauses"
    /\ UNCHANGED <<parent, i, sent, due, frames, v>>

Handled == IF child = "pauses" THEN Kinds ELSE IF child = "installs_second" THEN {"SIGUSR1"} ELSE {}

\* The default action of all three signals.
Die ==
    /\ child # "dead" /\ due \ Handled # {}
    /\ child' = "dead" /\ due' = {} /\ frames' = << >>
    /\ UNCHANGED <<parent, i, sent, v>>

\* A handler blocks its own signal only.
CatchSignal ==
    \E s \in due \cap Handled :
        /\ \A f \in 1 .. Len(frames) : frames[f][1] # s
        /\ due' = due \ {s} /\ frames' = Append(frames, <<s>>)
        /\ UNCHANGED <<parent, child, i, sent, v>>

\* Slip: the handler does not ask which signal it is.
sigint_handler_blind ==
    /\ frames # << >>
    /\ LET n == Len(frames) IN
       \/ Len(frames[n]) = 1 /\ frames' = [frames EXCEPT ![n] = Append(@, v)] /\ UNCHANGED v
       \/ /\ Len(frames[n]) = 2 /\ frames' = SubSeq(frames, 1, n - 1)
          /\ v' = frames[n][2] + 1
    /\ UNCHANGED <<parent, child, i, sent, due>>

\* v++ or v--: a load and a store.
sigint_handler ==
    /\ frames # << >>
    /\ LET n == Len(frames) IN
       \/ Len(frames[n]) = 1 /\ frames' = [frames EXCEPT ![n] = Append(@, v)] /\ UNCHANGED v
       \/ /\ Len(frames[n]) = 2 /\ frames' = SubSeq(frames, 1, n - 1)
          /\ v' = frames[n][2] + (IF frames[n][1] = "SIGUSR1" THEN 1 ELSE -1)
    /\ UNCHANGED <<parent, child, i, sent, due>>

p3b == program = "prob04/p3b" /\ (ForkCounter \/ SendSignal \/ SendTerm \/ Install
                                  \/ Die \/ CatchSignal \/ sigint_handler)

SignalsNext == p3b /\ UNCHANGED program

SignalsSpec == program = "prob04/p3b" /\ SignalsInit /\ [][SignalsNext]_<<program, signals_vars>>

-----------------------------------------------------------------------------
\* Signals merge, and a handler that interrupts the other's loses one of the two
\* updates, but v stays within what was sent either way (prob04/p3b.c:15, 20): a lost
\* update is never made up for.
CountsWhatWasSent == v \in - sent["SIGUSR2"] .. sent["SIGUSR1"]
=============================================================================
