-------------------------------- MODULE Upf --------------------------------
(***************************************************************************)
(* The user plane function and the N4 link to it.  Every N4 thread of the  *)
(* UPF reads the same UDP socket (upf_server.cpp, handle_s11_traffic); the *)
(* lookup tables s11_id, s1_id and sgi_id and the contexts ue_ctx each     *)
(* have a mutex of their own, so a handler is a sequence of short critical *)
(* sections and the handlers of two threads interleave between them.       *)
(*                                                                         *)
(* The N4 link is UDP: a datagram may be lost, at most MaxLosses times in  *)
(* a behaviour.  A reply goes to the socket of the SMF worker that sent    *)
(* the request, whatever that worker is waiting for by then.               *)
(***************************************************************************)
EXTENDS Platform

CONSTANTS
    UpfThreadCount,     \* N4 threads of the UPF
    MaxLosses           \* bound on the lost N4 datagrams

ASSUME UpfThreadCountAssumption == UpfThreadCount \in Nat \ {0}
ASSUME MaxLossesAssumption == MaxLosses \in Nat

VARIABLES
    s11_id, s1_id,      \* teid -> IMSI, 0 when there is no entry
    sgi_id,             \* address -> IMSI, 0 when there is no entry
    upf_ctx,            \* Upf::ue_ctx, per IMSI
    upf,                \* the N4 threads
    n4_req,             \* requests in the UPF's socket
    n4_rsp,             \* replies in the socket of each SMF worker
    losses              \* datagrams lost so far

upfTables == <<s11_id, s1_id, sgi_id, upf_ctx>>
n4Vars == <<n4_req, n4_rsp, losses>>
upfVars == <<s11_id, s1_id, sgi_id, upf_ctx, upf, n4_req, n4_rsp, losses>>

UpfThreads == 1 .. UpfThreadCount

N4Types == {"create", "modify", "release"}

\* teid is the header's teid, or the session's teid in the body of a create.
N4Requests == [typ : N4Types, w : Workers, teid : Teids,
               imsi : {0} \cup Imsis, dl : Teids]

\* A reply: its type and teid are in the header, which no one reads.  The body
\* of a create is its teid (twice, as the S11 and the S1 teid) and the address,
\* the body of the other two is the byte true.
N4Replies == [typ : N4Types, teid : Teids, ip : Addresses]

NoUpfContext == [present |-> FALSE, ip_addr |-> 0, s1_uteid_ul |-> 0,
                 s11_cteid |-> 0, s1_uteid_dl |-> 0, enodeb |-> FALSE]

IdleThread == [pc |-> "idle", typ |-> "create", w |-> 0, teid |-> 0,
               imsi |-> 0, dl |-> 0, ip |-> 0]

UpfInit ==
    /\ s11_id = [t \in Teids |-> 0]
    /\ s1_id = [t \in Teids |-> 0]
    /\ sgi_id = [a \in Addresses |-> 0]
    /\ upf_ctx = [i \in Imsis |-> NoUpfContext]
    /\ upf = [t \in UpfThreads |-> IdleThread]
    /\ n4_req = <<>>
    /\ n4_rsp = [w \in Workers |-> <<>>]
    /\ losses = 0

UpfGoto(t, pc) == upf' = [upf EXCEPT ![t].pc = pc]

----------------------------------------------------------------------------
\* handle_s11_traffic: take a datagram and dispatch on its message type.
UpfReceive(t) ==
    /\ Running("upf")
    /\ upf[t].pc = "idle"
    /\ n4_req # <<>>
    /\ LET m == Head(n4_req)
           first == [create |-> "c_s11", modify |-> "m_lookup",
                     release |-> "d_lookup"]
       IN  upf' = [upf EXCEPT ![t] =
                     [pc |-> first[m.typ], typ |-> m.typ, w |-> m.w,
                      teid |-> m.teid, imsi |-> m.imsi, dl |-> m.dl, ip |-> 0]]
    /\ n4_req' = Tail(n4_req)
    /\ UNCHANGED <<exited, upfTables, n4_rsp, losses>>

\* s11_server.snd, the last access of a create or a modify to shared state;
\* a release goes on to remove its entries.
UpfSend(t) ==
    /\ Running("upf")
    /\ upf[t].pc = "send"
    /\ LET r == upf[t]
       IN  /\ n4_rsp' = [n4_rsp EXCEPT ![r.w] =
                           Append(@, [typ |-> r.typ, teid |-> r.teid,
                                      ip |-> IF r.typ = "create" THEN r.ip
                                                                 ELSE 0])]
           /\ upf' = [upf EXCEPT ![t] =
                        IF r.typ = "release" THEN [r EXCEPT !.pc = "d_s11"]
                                             ELSE IdleThread]
    /\ UNCHANGED <<exited, upfTables, n4_req, losses>>

----------------------------------------------------------------------------
\* Mutations: a teid that is not entered, or entered one too high.
CreateS11Skipped(t) ==
    /\ Running("upf")
    /\ upf[t].pc = "c_s11"
    /\ UpfGoto(t, "c_s1")
    /\ UNCHANGED <<exited, upfTables, n4Vars>>

CreateS1Skipped(t) ==
    /\ Running("upf")
    /\ upf[t].pc = "c_s1"
    /\ UpfGoto(t, "c_sgi")
    /\ UNCHANGED <<exited, upfTables, n4Vars>>

CreateS1OffByOne(t) ==
    /\ Running("upf")
    /\ upf[t].pc = "c_s1"
    /\ s1_id' = [s1_id EXCEPT ![upf[t].teid + 1] = upf[t].imsi]
    /\ UpfGoto(t, "c_sgi")
    /\ UNCHANGED <<exited, s11_id, sgi_id, upf_ctx, n4Vars>>

\* handle_create_session: one critical section per table, then the context.
CreateS11(t) ==
    /\ Running("upf")
    /\ upf[t].pc = "c_s11"
    /\ s11_id' = [s11_id EXCEPT ![upf[t].teid] = upf[t].imsi]
    /\ UpfGoto(t, "c_s1")
    /\ UNCHANGED <<exited, s1_id, sgi_id, upf_ctx, n4Vars>>

CreateS1(t) ==
    /\ Running("upf")
    /\ upf[t].pc = "c_s1"
    /\ s1_id' = [s1_id EXCEPT ![upf[t].teid] = upf[t].imsi]
    /\ UpfGoto(t, "c_sgi")
    /\ UNCHANGED <<exited, s11_id, sgi_id, upf_ctx, n4Vars>>

CreateSgi(t) ==
    /\ Running("upf")
    /\ upf[t].pc = "c_sgi"
    /\ LET ip == IpAddr(upf[t].imsi)
       IN  /\ sgi_id' = [sgi_id EXCEPT ![ip] = upf[t].imsi]
           /\ upf' = [upf EXCEPT ![t] = [@ EXCEPT !.ip = ip, !.pc = "c_ctx"]]
    /\ UNCHANGED <<exited, s11_id, s1_id, upf_ctx, n4Vars>>

\* UeContext::init leaves the downlink half of a context as it finds it.
CreateContext(t) ==
    /\ Running("upf")
    /\ upf[t].pc = "c_ctx"
    /\ upf_ctx' = [upf_ctx EXCEPT ![upf[t].imsi] =
                       [@ EXCEPT !.present = TRUE, !.ip_addr = upf[t].ip,
                                 !.s1_uteid_ul = upf[t].teid,
                                 !.s11_cteid = upf[t].teid]]
    /\ UpfGoto(t, "send")
    /\ UNCHANGED <<exited, s11_id, s1_id, sgi_id, n4Vars>>

----------------------------------------------------------------------------
\* get_imsi(11, teid); a teid without an entry ends the process.
UpfLookup(t) ==
    /\ Running("upf")
    /\ upf[t].pc \in {"m_lookup", "d_lookup"}
    /\ LET imsi == s11_id[upf[t].teid]
           next == IF upf[t].typ = "modify" THEN "m_ctx" ELSE "d_ctx"
       IN  IF imsi = 0
           THEN Exit("upf") /\ UNCHANGED upf
           ELSE /\ upf' = [upf EXCEPT ![t] =
                               [@ EXCEPT !.imsi = imsi, !.pc = next]]
                /\ UNCHANGED exited
    /\ UNCHANGED <<upfTables, n4Vars>>

\* What ue_ctx[imsi] may be: operator[] creates a context that is absent, and its
\* constructor leaves the S1 teids uninitialised.  The downlink one is left out,
\* nobody reads it before it is written.
Looked(imsi) ==
    IF upf_ctx[imsi].present
    THEN {upf_ctx[imsi]}
    ELSE {[upf_ctx[imsi] EXCEPT !.present = TRUE, !.s1_uteid_ul = ul] : ul \in Teids}

\* handle_modify_bearer: the reply carries the teid of the context.
ModifyContext(t) ==
    /\ Running("upf")
    /\ upf[t].pc = "m_ctx"
    /\ LET imsi == upf[t].imsi
       IN  /\ \E ctx \in Looked(imsi) :
                 upf_ctx' = [upf_ctx EXCEPT ![imsi] =
                                [ctx EXCEPT !.s1_uteid_dl = upf[t].dl,
                                            !.enodeb = TRUE]]
           /\ upf' = [upf EXCEPT ![t] =
                          [@ EXCEPT !.teid = upf_ctx[imsi].s11_cteid,
                                    !.pc = "send"]]
    /\ UNCHANGED <<exited, s11_id, s1_id, sgi_id, n4Vars>>

\* handle_detach: read the context, reply, and only then remove the entries.
DetachContext(t) ==
    /\ Running("upf")
    /\ upf[t].pc = "d_ctx"
    /\ LET ctx == upf_ctx[upf[t].imsi]
       IN  IF ~ctx.present
           THEN Exit("upf") /\ UNCHANGED upf
           ELSE /\ upf' = [upf EXCEPT ![t] =
                               [@ EXCEPT !.teid = ctx.s11_cteid,
                                         !.dl = ctx.s1_uteid_ul,
                                         !.ip = ctx.ip_addr, !.pc = "send"]]
                /\ UNCHANGED exited
    /\ UNCHANGED <<upfTables, n4Vars>>

DetachS11(t) ==
    /\ Running("upf")
    /\ upf[t].pc = "d_s11"
    /\ s11_id' = [s11_id EXCEPT ![upf[t].teid] = 0]
    /\ UpfGoto(t, "d_s1")
    /\ UNCHANGED <<exited, s1_id, sgi_id, upf_ctx, n4Vars>>

\* Mutation: the uplink teid of a released session stays entered.
DetachS1Skipped(t) ==
    /\ Running("upf")
    /\ upf[t].pc = "d_s1"
    /\ UpfGoto(t, "d_sgi")
    /\ UNCHANGED <<exited, upfTables, n4Vars>>

\* The uplink teid was kept in the dl register of the thread.
DetachS1(t) ==
    /\ Running("upf")
    /\ upf[t].pc = "d_s1"
    /\ s1_id' = [s1_id EXCEPT ![upf[t].dl] = 0]
    /\ UpfGoto(t, "d_sgi")
    /\ UNCHANGED <<exited, s11_id, sgi_id, upf_ctx, n4Vars>>

DetachSgi(t) ==
    /\ Running("upf")
    /\ upf[t].pc = "d_sgi"
    /\ sgi_id' = [sgi_id EXCEPT ![upf[t].ip] = 0]
    /\ UpfGoto(t, "d_rem")
    /\ UNCHANGED <<exited, s11_id, s1_id, upf_ctx, n4Vars>>

RemUpfContext(t) ==
    /\ Running("upf")
    /\ upf[t].pc = "d_rem"
    /\ upf_ctx' = [upf_ctx EXCEPT ![upf[t].imsi] = NoUpfContext]
    /\ upf' = [upf EXCEPT ![t] = IdleThread]
    /\ UNCHANGED <<exited, s11_id, s1_id, sgi_id, n4Vars>>

UpfThread(t) ==
    \/ UpfReceive(t) \/ UpfSend(t)
    \/ CreateS11(t) \/ CreateS1(t) \/ CreateSgi(t) \/ CreateContext(t)
    \/ UpfLookup(t) \/ ModifyContext(t) \/ DetachContext(t)
    \/ DetachS11(t) \/ DetachS1(t) \/ DetachSgi(t) \/ RemUpfContext(t)

----------------------------------------------------------------------------
\* The network drops the oldest request, or the oldest reply to worker w.
LoseRequest ==
    /\ losses < MaxLosses
    /\ n4_req # <<>>
    /\ n4_req' = Tail(n4_req)
    /\ losses' = losses + 1
    /\ UNCHANGED <<exited, upfTables, upf, n4_rsp>>

LoseReply(w) ==
    /\ losses < MaxLosses
    /\ n4_rsp[w] # <<>>
    /\ n4_rsp' = [n4_rsp EXCEPT ![w] = Tail(@)]
    /\ losses' = losses + 1
    /\ UNCHANGED <<exited, upfTables, upf, n4_req>>

----------------------------------------------------------------------------
\* get_downlink_info: where a packet for address a leaves the UPF, if it does.
DownlinkUe(a) == sgi_id[a]
HasDownlink(imsi) == upf_ctx[imsi].present /\ upf_ctx[imsi].enodeb

UpfPcs == {"idle", "send", "c_s11", "c_s1", "c_sgi", "c_ctx", "m_lookup",
           "m_ctx", "d_lookup", "d_ctx", "d_s11", "d_s1", "d_sgi", "d_rem"}

UpfContexts == [present : BOOLEAN, ip_addr : Addresses, s1_uteid_ul : Teids,
                s11_cteid : Teids, s1_uteid_dl : Teids, enodeb : BOOLEAN]

UpfThreadStates == [pc : UpfPcs, typ : N4Types, w : Workers, teid : Teids,
                    imsi : {0} \cup Imsis, dl : Teids, ip : Addresses]

UpfTypeOK ==
    /\ s11_id \in [Teids -> {0} \cup Imsis]
    /\ s1_id \in [Teids -> {0} \cup Imsis]
    /\ sgi_id \in [Addresses -> {0} \cup Imsis]
    /\ upf_ctx \in [Imsis -> UpfContexts]
    /\ upf \in [UpfThreads -> UpfThreadStates]
    /\ \A t \in UpfThreads : upf[t].pc \in {"m_ctx", "d_ctx"} => upf[t].imsi # 0
    /\ n4_req \in Seq(N4Requests)
    /\ n4_rsp \in [Workers -> Seq(N4Replies)]
    /\ losses \in 0 .. MaxLosses
=============================================================================
