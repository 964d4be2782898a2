--------------------------- MODULE CircuitBreaker ---------------------------
(***************************************************************************)
(* What the router promises about suspending providers, without records,   *)
(* scores, files, configs or restarts: a provider is in service or         *)
(* suspended until a deadline, and operations come and go.  An operation   *)
(* under way may suspend a provider, and may restore one as it ends;       *)
(* nothing else but the passing of time changes a suspension.              *)
(***************************************************************************)
EXTENDS Integers

CONSTANTS Providers, Ops, MaxSuspension

VARIABLES now,
          suspended,  \* suspended[p] is a deadline, 0 when in service
          busy        \* the operations under way

vars == <<now, suspended, busy>>

Init == now = 0 /\ suspended = [p \in Providers |-> 0] /\ busy = {}

Tick ==
    /\ now' = now + 1
    /\ suspended' = [p \in Providers |->
                        IF suspended[p] > now + 1 THEN suspended[p] ELSE 0]
    /\ busy' = busy

Begin(o) == busy' = busy \cup {o} /\ UNCHANGED <<now, suspended>>

\* The operations end, one of them or, in a crash, all.
End == busy' \subseteq busy /\ UNCHANGED <<now, suspended>>

\* A wait of nothing ends the suspension.
Suspend(o, p, wait) ==
    /\ o \in busy
    /\ suspended' = [suspended EXCEPT ![p] = IF wait > 0 THEN now + wait ELSE 0]
    /\ busy' \in {busy, busy \ {o}}
    /\ now' = now

Restore(o, p) ==
    /\ o \in busy
    /\ suspended' = [suspended EXCEPT ![p] = 0]
    /\ busy' = busy \ {o}
    /\ now' = now

Next ==
    \/ Tick
    \/ End
    \/ \E o \in Ops : Begin(o)
    \/ \E o \in Ops, p \in Providers :
          Restore(o, p) \/ \E wait \in 0 .. MaxSuspension : Suspend(o, p, wait)

Spec == Init /\ [][Next]_vars

=============================================================================
