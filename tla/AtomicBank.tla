----------------------------- MODULE AtomicBank -----------------------------
(***************************************************************************)
(* What the bank promises its users: requests are taken in their order of  *)
(* arrival and served one at a time, each against the table the previous   *)
(* one left; every reply is reported, in the same order, as delivered or   *)
(* as RC_USR_DOWN.  No thread, lock, semaphore or FIFO appears here:       *)
(* BankSystem has them, and is checked to implement this specification.    *)
(***************************************************************************)
EXTENDS Ledger

VARIABLES
    pending,            \* accepted and not yet served, oldest first
    due,                \* {} or the reply of the request served last
    journal             \* the replies reported, each with its place in the order

atomic_vars == <<accounts, pending, due, journal>>

AtomicInit ==
    /\ LedgerInit
    /\ pending = << >> /\ due = {} /\ journal = {}

Open == OpenBank /\ UNCHANGED <<pending, due, journal>>

Accept(request) ==
    /\ pending' = Append(pending, request)
    /\ UNCHANGED <<accounts, due, journal>>

\* The reply to a shutdown says how many offices were active: any number, which is
\* then its value.  The others do not depend on it.
Serve ==
    /\ due = {} /\ pending # << >>
    /\ Perform(Head(pending))
    /\ \E reply \in due' :
          /\ due' = {reply}
          /\ \E active \in reply.value \cup {0} :
                reply = build_tlv_reply(accounts, Head(pending), active)
    /\ pending' = Tail(pending)
    /\ UNCHANGED journal

\* The user's FIFO cannot be opened.
UserIsDown ==
    /\ due # {}
    /\ due' = {[reply EXCEPT !.ret_code = "RC_USR_DOWN"] : reply \in due}
    /\ UNCHANGED <<accounts, pending, journal>>

Report ==
    /\ \E entry \in journal' \ journal :
          /\ entry[2] \in due /\ \A earlier \in journal : earlier[1] < entry[1]
          /\ journal' = journal \cup {entry}
    /\ due' = {}
    /\ UNCHANGED <<accounts, pending>>

AtomicNext ==
    \/ Open
    \/ \E request \in Requests : Accept(request)
    \/ Serve
    \/ UserIsDown
    \/ Report

AtomicSpec == AtomicInit /\ [][AtomicNext]_atomic_vars

=============================================================================
