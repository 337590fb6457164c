------------------------------- MODULE MCCore -------------------------------
(***************************************************************************)
(* The core as the runs check it.  The constants get their values in the   *)
(* configurations.  This module adds what comments of the code say of it   *)
(* and the code does not do; no theorem is about these.                    *)
(***************************************************************************)
EXTENDS Bearer, Refinement

\* udm.h:26: emm_state 0 is deregistered, 1 is registered.
DeregisteredAfterDetach ==
    \A n \in Ues : (Detached(n) /\ up[n] = <<>> /\ ~BeingServed(n)) =>
       udm_ctx[Guti(n)].emm_state = 0

\* smf.cpp:199: the context's tau_timer is set to g_timer with the session.
TauTimerStored ==
    \A n \in Ues : HasSession(n) => udm_ctx[Guti(n)].tau_timer = GTimer
=============================================================================
