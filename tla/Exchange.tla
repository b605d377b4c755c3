------------------------------ MODULE Exchange ------------------------------
(***************************************************************************)
(* What internal/lsp promises of its calls, without ids, pipes, locks and  *)
(* reader goroutines: a call goes to one process, which answers it only    *)
(* after it has read it; the caller is given that answer or an error, once *)
(* and never another's; and when the end of a process is known, everyone   *)
(* who waits for it has been told.                                         *)
(***************************************************************************)
EXTENDS Naturals

CONSTANT Clients   \* those who make calls, one at a time

VARIABLES started, \* how many processes there have been
          alive,   \* those that run
          over,    \* those whose end is known
          call,    \* how far the call of each client is
          peer     \* the process it was made to, 0 without a call

vars == <<started, alive, over, call, peer>>

Init ==
  /\ started = 0 /\ alive = {} /\ over = {}
  /\ call = [c \in Clients |-> "none"] /\ peer = [c \in Clients |-> 0]

Start ==
  /\ started' = started + 1
  /\ alive' = alive \cup {started + 1}
  /\ UNCHANGED <<over, call, peer>>

\* A call is made to a process that is not known to be gone.
Make(c, k) ==
  /\ call[c] = "none" /\ k \in (1..started) \ over
  /\ call' = [call EXCEPT ![c] = "made"]
  /\ peer' = [peer EXCEPT ![c] = k]
  /\ UNCHANGED <<started, alive, over>>

\* It comes from one place to the next, the first two with its process.
Comes(c, from, to) ==
  /\ call[c] = from
  /\ call' = [call EXCEPT ![c] = to]
  /\ UNCHANGED <<started, alive, over, peer>>

Send(c)   == peer[c] \in alive /\ Comes(c, "made", "sent")
Answer(c) == peer[c] \in alive /\ Comes(c, "sent", "answered")
Give(c)   == Comes(c, "answered", "given")

\* The caller returns: with what it was given, after an error or in time.
Return(c) ==
  /\ call[c] # "none"
  /\ call' = [call EXCEPT ![c] = "none"]
  /\ peer' = [peer EXCEPT ![c] = 0]
  /\ UNCHANGED <<started, alive, over>>

\* A process ends, and what it has not read is lost.  Some return with that.
Stop(k, returned) ==
  /\ k \in alive /\ alive' = alive \ {k}
  /\ \A c \in returned : peer[c] = k
  /\ call' = [c \in Clients |-> IF c \in returned THEN "none"
                               ELSE IF peer[c] = k /\ call[c] = "sent" THEN "lost" ELSE call[c]]
  /\ peer' = [c \in Clients |-> IF c \in returned THEN 0 ELSE peer[c]]
  /\ UNCHANGED <<started, over>>

\* Its end gets known: no call is left that nothing will be heard of.
End(k, told) ==
  /\ k \in (1..started) \ (alive \cup over) /\ over' = over \cup {k}
  /\ \A c \in told : peer[c] = k /\ call[c] \in {"made", "lost", "answered"}
  /\ \A c \in Clients : peer[c] = k /\ call[c] \in {"made", "lost"} => c \in told
  /\ call' = [c \in Clients |-> IF c \in told THEN "failed" ELSE call[c]]
  /\ UNCHANGED <<started, alive, peer>>

Next ==
  \/ Start
  \/ \E c \in Clients : (\E k \in 1..started : Make(c, k)) \/ Send(c) \/ Answer(c) \/ Give(c) \/ Return(c)
  \/ \E k \in 1..started : \E clients \in SUBSET Clients : Stop(k, clients) \/ End(k, clients)

Spec == Init /\ [][Next]_vars

=============================================================================
