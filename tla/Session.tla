------------------------------ MODULE Session ------------------------------
(***************************************************************************)
(* What the whole core promises a subscriber when nothing fails: a session *)
(* is accepted only after the user plane has a bearer for it, a bearer is  *)
(* closed only after the subscriber has asked for that and its downlink    *)
(* has been set up, the end of a session is confirmed only when the bearer *)
(* is closing, and no new one is opened before the old one is gone.        *)
(***************************************************************************)
CONSTANT Subscribers

VARIABLES
    phase,          \* of the subscriber
    bearer          \* of the subscriber, in the user plane

vars == <<phase, bearer>>

Phases == {"detached", "attaching", "attached", "detaching", "gone"}
Bearers == {"none", "opening", "open", "active", "closing"}

TypeOK ==
    /\ phase \in [Subscribers -> Phases]
    /\ bearer \in [Subscribers -> Bearers]

Init ==
    /\ phase = [n \in Subscribers |-> "detached"]
    /\ bearer = [n \in Subscribers |-> "none"]

PhaseStep(n, from, to) ==
    /\ phase[n] = from /\ phase' = [phase EXCEPT ![n] = to]
    /\ UNCHANGED bearer

BearerStep(n, from, to) ==
    /\ bearer[n] = from /\ bearer' = [bearer EXCEPT ![n] = to]
    /\ UNCHANGED phase

Attach(n) == PhaseStep(n, "detached", "attaching")
Accept(n) == PhaseStep(n, "attaching", "attached") /\ bearer[n] = "open"
Detach(n) == PhaseStep(n, "attached", "detaching")
Confirm(n) ==
    /\ PhaseStep(n, "detaching", "detached")
    /\ bearer[n] \in {"closing", "none"}
Quit(n) == PhaseStep(n, "detached", "gone")

Open(n) == BearerStep(n, "none", "opening") /\ phase[n] = "attaching"
Opened(n) == BearerStep(n, "opening", "open") /\ phase[n] = "attaching"
Activate(n) ==
    /\ BearerStep(n, "open", "active")
    /\ phase[n] \in {"attached", "detaching"}
Close(n) == BearerStep(n, "active", "closing") /\ phase[n] = "detaching"
Closed(n) == BearerStep(n, "closing", "none")

Next ==
    \E n \in Subscribers :
       \/ Attach(n) \/ Accept(n) \/ Detach(n) \/ Confirm(n) \/ Quit(n)
       \/ Open(n) \/ Opened(n) \/ Activate(n) \/ Close(n) \/ Closed(n)

Spec == Init /\ [][Next]_vars
=============================================================================
