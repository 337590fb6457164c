-------------------------------- MODULE Ran --------------------------------
(***************************************************************************)
(* The RAN simulator: one thread per subscriber runs attach, data transfer *)
(* and detach in a loop until its time is up (ran_simulator.cpp,           *)
(* simulate).  Each step of ran.cpp blocks in a receive without a timeout; *)
(* the type of a message it receives is never looked at.  TrafficMonitor's *)
(* uplink table is shared by all threads and only ever written.            *)
(*                                                                         *)
(* MaxCycles bounds the attaches of one thread; the time may be up before. *)
(***************************************************************************)
EXTENDS Ausf, SctpServer

CONSTANT MaxCycles      \* bound on the attaches of one simulator thread

ASSUME MaxCyclesAssumption == MaxCycles \in Nat \ {0}

VARIABLES
    ran,            \* Ran::ran_ctx of each thread, and where the thread is
    uplink_info     \* TrafficMonitor: address -> uplink teid, NoTeid if absent

ranVars == <<ran, uplink_info>>

NoTeid == UeCount + 1
RanAlgo == 1        \* the algorithms the security mode command names
RanCount == 1       \* RanContext::count; bearer and dir are 0

NewRan == [pc |-> "connect", cycles |-> 0, mme_s1ap_ue_id |-> 0, k_asme |-> 0,
           k_nas |-> 0, guti |-> 0, s1_uteid_ul |-> 0, s1_uteid_dl |-> 0,
           ip_addr |-> 0]

RanInit ==
    /\ ran = [n \in Ues |-> NewRan]
    /\ uplink_info = [a \in Addresses |-> NoTeid]

RanKey(n) == n      \* RanContext::init: key = arg

RanGoto(n, pc) == ran' = [ran EXCEPT ![n].pc = pc]

SendUp(n, typ, mme, arg) ==
    up' = [up EXCEPT ![n] = Append(@, [typ |-> typ, mme |-> mme, arg |-> arg])]

\* mme_client.rcv blocks until there is a message.
Received(n) == down[n] # <<>> /\ down' = [down EXCEPT ![n] = Tail(@)]

----------------------------------------------------------------------------
ConnMme(n) ==
    /\ ran[n].pc = "connect"
    /\ Running("amf")
    /\ backlog' = Append(backlog, n)
    /\ RanGoto(n, "start")
    /\ UNCHANGED <<exited, uplink_info, turn, pipe, conns, ready, linkVars>>

\* The loop of simulate checks the time before each attach.  The thread ends,
\* and with it the Ran object: its destructor closes the connection.
TimeExceeded(n) ==
    /\ ran[n].pc = "start"
    /\ RanGoto(n, "done")
    /\ closed' = closed \cup {n}
    /\ UNCHANGED <<exited, uplink_info, serverVars, up, down>>

RanInitialAttach(n) ==
    /\ ran[n].pc = "start"
    /\ ran[n].cycles < MaxCycles
    /\ SendUp(n, 1, 0, Imsi(n))
    /\ ran' = [ran EXCEPT ![n] = [@ EXCEPT !.pc = "autn",
                                           !.cycles = ran[n].cycles + 1]]
    /\ UNCHANGED <<exited, uplink_info, serverVars, closed, down>>

\* A challenge the subscriber's key does not explain ends the thread.
RanAuthenticate(n) ==
    /\ ran[n].pc = "autn"
    /\ Received(n)
    /\ LET m == Head(down[n])
           res == AutnResponse(RanKey(n), m.rand_num)
       IN  IF m.autn = res + 1
           THEN /\ ran' = [ran EXCEPT ![n] =
                               [@ EXCEPT !.mme_s1ap_ue_id = m.mme,
                                         !.k_asme = KAsme(res, m.rand_num),
                                         !.pc = "security"]]
                /\ SendUp(n, 2, m.mme, res)
                /\ UNCHANGED closed
           ELSE /\ ran' = [ran EXCEPT ![n] =
                               [@ EXCEPT !.mme_s1ap_ue_id = m.mme,
                                         !.pc = "failed"]]
                /\ closed' = closed \cup {n}
                /\ UNCHANGED up
    /\ UNCHANGED <<exited, uplink_info, serverVars>>

SetSecurity(n) ==
    /\ ran[n].pc = "security"
    /\ Received(n)
    /\ ran' = [ran EXCEPT ![n] =
                   [@ EXCEPT !.k_nas = ran[n].k_asme + RanAlgo + RanCount + 1,
                             !.pc = "session"]]
    /\ SendUp(n, 3, ran[n].mme_s1ap_ue_id, 1)
    /\ UNCHANGED <<exited, uplink_info, serverVars, closed>>

\* set_eps_session, then transfer_data with what it stored.
SetEpsSession(n) ==
    /\ ran[n].pc = "session"
    /\ Received(n)
    /\ LET m == Head(down[n])
       IN  /\ uplink_info' = [uplink_info EXCEPT ![m.ip] = m.ul]
           /\ ran' = [ran EXCEPT ![n] =
                          [@ EXCEPT !.guti = m.guti, !.s1_uteid_ul = m.ul,
                                    !.s1_uteid_dl = m.ul, !.ip_addr = m.ip,
                                    !.pc = "data"]]
           /\ SendUp(n, 4, ran[n].mme_s1ap_ue_id, m.ul)
    /\ UNCHANGED <<exited, serverVars, closed>>

\* Mutation: the detach request does not carry the GUTI.
RanDetachNoGuti(n) ==
    /\ ran[n].pc = "data"
    /\ SendUp(n, 5, ran[n].mme_s1ap_ue_id, 0)
    /\ RanGoto(n, "detach")
    /\ UNCHANGED <<exited, uplink_info, serverVars, closed, down>>

\* The data transfer ends and the detach request is sent.
RanDetach(n) ==
    /\ ran[n].pc = "data"
    /\ SendUp(n, 5, ran[n].mme_s1ap_ue_id, ran[n].guti)
    /\ RanGoto(n, "detach")
    /\ UNCHANGED <<exited, uplink_info, serverVars, closed, down>>

\* The only detach answer the AMF sends has the result true.
DetachAccepted(n) ==
    /\ ran[n].pc = "detach"
    /\ Received(n)
    /\ RanGoto(n, "start")
    /\ UNCHANGED <<exited, uplink_info, serverVars, closed, up>>

\* Mutation: the detach does not look at the result of its receive.
ConnLostUnnoticed(n) ==
    /\ ~Running("amf")
    /\ ran[n].pc \in {"autn", "security", "session"}
    /\ down[n] = <<>>
    /\ RanGoto(n, "failed")
    /\ closed' = closed \cup {n}
    /\ UNCHANGED <<exited, uplink_info, serverVars, up, down>>

\* The AMF is gone: the receive returns nothing and the thread ends.
ConnLost(n) ==
    /\ ~Running("amf")
    /\ ran[n].pc \in {"autn", "security", "session", "detach"}
    /\ down[n] = <<>>
    /\ RanGoto(n, "failed")
    /\ closed' = closed \cup {n}
    /\ UNCHANGED <<exited, uplink_info, serverVars, up, down>>

RanThread(n) ==
    \/ ConnMme(n) \/ TimeExceeded(n) \/ RanInitialAttach(n)
    \/ RanAuthenticate(n) \/ SetSecurity(n) \/ SetEpsSession(n)
    \/ RanDetach(n) \/ DetachAccepted(n) \/ ConnLost(n)

RanPcs == {"connect", "start", "autn", "security", "session", "data", "detach",
           "done", "failed"}

RanContexts == [pc : RanPcs, cycles : 0 .. MaxCycles, mme_s1ap_ue_id : MmeIds,
                k_asme : Nat, k_nas : Nat, guti : {0} \cup Imsis,
                s1_uteid_ul : Teids, s1_uteid_dl : Teids, ip_addr : Addresses]

RanTypeOK ==
    /\ ran \in [Ues -> RanContexts]
    /\ uplink_info \in [Addresses -> Teids \cup {NoTeid}]
=============================================================================
