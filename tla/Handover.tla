------------------------------ MODULE Handover ------------------------------
(***************************************************************************)
(* The handover of a session to a second RAN, on top of the core: messages *)
(* 7 to 10 of N2 and types 4 to 6 of N4.  The target RAN has a connection  *)
(* of its own to the AMF, so a second worker may serve it while the first  *)
(* serves the source, even its detach.  The AMF reaches both RANs by new   *)
(* connections to a fixed address, and retries one that is refused for     *)
(* ever: the worker waits in it until the RAN accepts.                     *)
(*                                                                         *)
(* The repository has the operations of the RANs but neither their server  *)
(* nor who calls them; the model calls each in the state its comments name *)
(* while the subscriber transfers data.  The contexts operator[] makes for *)
(* a GUTI or an IMSI of 0 are left out, all their members are 0.           *)
(***************************************************************************)
EXTENDS Core

CONSTANTS
    N4PortsMatch,   \* AMF_G_UPF_S11_PORT is the port of the UPF's N4 socket
    MaxHoTimeouts   \* bound on the receive timeouts of the AMF

ASSUME N4PortsMatchAssumption == N4PortsMatch \in BOOLEAN
ASSUME MaxHoTimeoutsAssumption == MaxHoTimeouts \in Nat

VARIABLES
    ho,             \* the handover of each subscriber, at both RANs
    to_tgt, to_src, \* messages of the AMF to the RANs, a connection for each
    t_up,           \* the target's stream to the AMF
    t_home,         \* the worker that serves it
    hw,             \* the workers of the AMF, inside a handover handler
    hq,             \* handover requests in the UPF's socket
    hu,             \* the N4 threads of the UPF, inside a handover handler
    ho_ue_ctx,      \* Upf::ho_ue_ctx: IMSI -> downlink teid, NoTeid if absent
    ho_timeouts

hoVars == <<ho, to_tgt, to_src, t_up, t_home, hw, hq, hu, ho_ue_ctx,
            ho_timeouts>>

Nobody == WorkerCount           \* the socket of no worker

IdleHw == [pc |-> "idle", ue |-> 0, typ |-> 7, mme |-> 0, arg |-> 0, guti |-> 0]
IdleHu == [pc |-> "idle", typ |-> 8, w |-> 0, teid |-> 0, arg |-> 0, imsi |-> 0]

\* src and tgt are the handover_state of the two RANs, ind the source's
\* indirect_s1_uteid_ul; enb, mme and ul are the target's ran_ctx.  cycle and
\* last are for the properties: the session in which the handover began, and
\* whether complete_handover and request_tear_down have been called.
NewHo == [src |-> 0, tgt |-> 0, cycle |-> 0, last |-> "none", ind |-> 0,
          enb |-> 0, mme |-> 0, ul |-> 0]

HoInit ==
    /\ ho = [n \in Ues |-> NewHo]
    /\ to_tgt = [n \in Ues |-> {}] /\ to_src = [n \in Ues |-> {}]
    /\ t_up = [n \in Ues |-> <<>>]
    /\ t_home = [n \in Ues |-> Nobody]
    /\ hw = [w \in Workers |-> IdleHw]
    /\ hq = <<>>
    /\ hu = [t \in UpfThreads |-> IdleHu]
    /\ ho_ue_ctx = [i \in Imsis |-> NoTeid]
    /\ ho_timeouts = 0

----------------------------------------------------------------------------
(* The two RANs                                                            *)

Transfers(n) == ran[n].pc = "data"

ranFrame == <<exited, udmVars, upfVars, smfVars, amfVars, uplink_info, serverVars,
              closed, down, hw, hq, hu, ho_ue_ctx, ho_timeouts>>

InitiateHandover(n) ==
    /\ Transfers(n) /\ ho[n].src = 0
    /\ ho' = [ho EXCEPT ![n] = [@ EXCEPT !.src = 1, !.cycle = ran[n].cycles]]
    /\ SendUp(n, 7, ran[n].mme_s1ap_ue_id, n)
    /\ UNCHANGED <<ran, to_tgt, to_src, t_up, t_home, ranFrame>>

\* Mutation: the target reads the two ids in the wrong order.
HandleHandoverSwapped(n) ==
    /\ Transfers(n) /\ Running("amf")
    /\ \E m \in to_tgt[n] :
          /\ to_tgt' = [to_tgt EXCEPT ![n] = @ \ {m}]
          /\ ho' = [ho EXCEPT ![n] = [@ EXCEPT !.tgt = 3, !.enb = m.mme,
                                               !.mme = m.enb, !.ul = m.ul]]
          /\ t_up' = [t_up EXCEPT ![n] =
                        Append(@, [typ |-> 8, mme |-> m.enb, arg |-> m.mme])]
    /\ \E w \in Workers : t_home' = [t_home EXCEPT ![n] = w]
    /\ UNCHANGED <<ran, up, to_src, ranFrame>>

\* The target connects to the AMF; the worker is the one whose turn it is.
HandleHandover(n) ==
    /\ Transfers(n) /\ Running("amf")
    /\ \E m \in to_tgt[n] :
          /\ to_tgt' = [to_tgt EXCEPT ![n] = @ \ {m}]
          /\ ho' = [ho EXCEPT ![n] = [@ EXCEPT !.tgt = 3, !.enb = m.enb,
                                               !.mme = m.mme, !.ul = m.ul]]
          /\ t_up' = [t_up EXCEPT ![n] =
                        Append(@, [typ |-> 8, mme |-> m.mme, arg |-> m.enb])]
    /\ \E w \in Workers : t_home' = [t_home EXCEPT ![n] = w]
    /\ UNCHANGED <<ran, up, to_src, ranFrame>>

IndirectTunnelComplete(n) ==
    /\ Transfers(n)
    /\ \E m \in to_src[n] :
          /\ m.typ = 8
          /\ to_src' = [to_src EXCEPT ![n] = @ \ {m}]
          /\ ho' = [ho EXCEPT ![n] = [@ EXCEPT !.src = 4, !.ind = m.arg]]
    /\ UNCHANGED <<ran, up, to_tgt, t_up, t_home, ranFrame>>

\* "target ran marks completion of indirect tunnel setup"
CompleteHandover(n) ==
    /\ Transfers(n)
    /\ ho[n].tgt = 3 /\ ho[n].src = 4 /\ ho[n].last = "none"
    /\ ho' = [ho EXCEPT ![n].last = "complete"]
    /\ t_up' = [t_up EXCEPT ![n] =
                  Append(@, [typ |-> 9, mme |-> ho[n].mme, arg |-> 0])]
    /\ UNCHANGED <<ran, up, to_tgt, to_src, t_home, ranFrame>>

\* Mutation: the direct uplink teid is torn down.
RequestTearDownDirect(n) ==
    /\ Transfers(n)
    /\ \E m \in to_src[n] :
          /\ m.typ = 9
          /\ to_src' = [to_src EXCEPT ![n] = @ \ {m}]
    /\ SendUp(n, 10, ran[n].mme_s1ap_ue_id, ran[n].s1_uteid_ul)
    /\ ran' = [ran EXCEPT ![n].s1_uteid_ul = 0]
    /\ ho' = [ho EXCEPT ![n].last = "teardown"]
    /\ UNCHANGED <<to_tgt, t_up, t_home, ranFrame>>

RequestTearDown(n) ==
    /\ Transfers(n)
    /\ \E m \in to_src[n] :
          /\ m.typ = 9
          /\ to_src' = [to_src EXCEPT ![n] = @ \ {m}]
    /\ SendUp(n, 10, ran[n].mme_s1ap_ue_id, ho[n].ind)
    /\ ran' = [ran EXCEPT ![n].s1_uteid_ul = 0]
    /\ ho' = [ho EXCEPT ![n].last = "teardown"]
    /\ UNCHANGED <<to_tgt, t_up, t_home, ranFrame>>

HoRan(n) ==
    \/ InitiateHandover(n) \/ HandleHandover(n) \/ IndirectTunnelComplete(n)
    \/ CompleteHandover(n) \/ RequestTearDown(n)

----------------------------------------------------------------------------
(* The AMF                                                                 *)

HwAt(w, pc) == Running("amf") /\ hw[w].pc = pc
HwGoto(w, pc) == hw' = [hw EXCEPT ![w].pc = pc]
HwReturn(w) == hw' = [hw EXCEPT ![w] = IdleHw]

hwFrame == <<exited, udmVars, upfVars, smfVars, backlog, turn, pipe, conns,
             closed, down, ranVars, ue_count, s1amf_id, amf, ho, t_home, hu,
             ho_ue_ctx>>

IsHandover(m) == m.typ > 5

\* Worker w comes next to a message of the source that belongs to a handover.
HoPending(w) ==
    \E i \in DOMAIN conns[w] :
       LET n == conns[w][i]
       IN  IsNext(w, i, n) /\ up[n] # <<>> /\ IsHandover(Head(up[n]))

HoServe(w, n, m) ==
    hw' = [hw EXCEPT ![w] = [IdleHw EXCEPT !.pc = "lookup", !.ue = n,
                                           !.typ = m.typ, !.mme = m.mme,
                                           !.arg = m.arg]]

\* handle_ue, messages 7 and 10 of the source.
HoReceive(w) ==
    /\ HwAt(w, "idle") /\ amf[w].pc = "idle"
    /\ \E i \in DOMAIN conns[w] :
          LET n == conns[w][i]
          IN  /\ IsNext(w, i, n)
              /\ up[n] # <<>> /\ IsHandover(Head(up[n]))
              /\ HoServe(w, n, Head(up[n]))
              /\ up' = [up EXCEPT ![n] = Tail(@)]
              /\ Served(w, n)
    /\ UNCHANGED <<amf_ctx, t_up, to_tgt, to_src, hq, ho_timeouts, hwFrame>>

\* handle_ue, messages 8 and 9 of the target.
HoReceiveTarget(w) ==
    /\ HwAt(w, "idle") /\ amf[w].pc = "idle"
    /\ \E n \in Ues :
          /\ t_home[n] = w /\ t_up[n] # <<>>
          /\ HoServe(w, n, Head(t_up[n]))
          /\ t_up' = [t_up EXCEPT ![n] = Tail(@)]
    /\ UNCHANGED <<up, ready, amf_ctx, to_tgt, to_src, hq, ho_timeouts, hwFrame>>

\* get_guti(pkt): no handover handler looks at whether it has found one.
HoLookup(w) ==
    /\ HwAt(w, "lookup")
    /\ hw' = [hw EXCEPT ![w] =
                [@ EXCEPT !.guti = s1amf_id[hw[w].mme],
                          !.pc = IF hw[w].typ = 7 THEN "request" ELSE "ask"]]
    /\ UNCHANGED <<up, ready, amf_ctx, t_up, to_tgt, to_src, hq, ho_timeouts,
                   hwFrame>>

\* The AMF's own context has never been told the teids, they are still those
\* of the constructor; a context that is absent is created by the look at it.
AmfUteidUl == 0
AmfCteidUpf == 0
TouchContext(guti) ==
    amf_ctx' = IF guti = 0 THEN amf_ctx
               ELSE [amf_ctx EXCEPT ![guti].present = TRUE]

\* request_target_RAN up to to_target_ran_client.conn
RequestTarget(w) ==
    /\ HwAt(w, "request")
    /\ TouchContext(hw[w].guti)
    /\ HwGoto(w, "target")
    /\ UNCHANGED <<up, ready, t_up, to_tgt, to_src, hq, ho_timeouts, hwFrame>>

\* setup_indirect_tunnel, handle_handover_completion, teardown_indirect_tunnel
\* up to upf_client.snd, on a socket of the handler's own.
HoAsk(w) ==
    /\ HwAt(w, "ask")
    /\ TouchContext(hw[w].guti)
    /\ hq' = IF N4PortsMatch
             THEN Append(hq, [typ |-> hw[w].typ, w |-> w, teid |-> AmfCteidUpf,
                              arg |-> hw[w].arg])
             ELSE hq
    /\ HwGoto(w, "wait")
    /\ UNCHANGED <<up, ready, t_up, to_tgt, to_src, ho_timeouts, hwFrame>>

\* Mutation: a teardown is asked for again and again.
HoAnsweredRetry(w) ==
    /\ HwAt(w, "answered") /\ hw[w].typ = 10
    /\ HwGoto(w, "ask")
    /\ UNCHANGED <<up, ready, amf_ctx, t_up, to_tgt, to_src, hq, ho_timeouts,
                   hwFrame>>

\* teardown_indirect_tunnel tells nobody of the UPF's answer.
HoAnswered(w) ==
    /\ HwAt(w, "answered") /\ hw[w].typ = 10
    /\ HwReturn(w)
    /\ UNCHANGED <<up, ready, amf_ctx, t_up, to_tgt, to_src, hq, ho_timeouts,
                   hwFrame>>

Unsocket(r, w) == IF r.w = w THEN [r EXCEPT !.w = Nobody] ELSE r

\* Nothing within five seconds: the result reads false, and an answer to this
\* request finds no socket any more.  Setup and completion go on to connect to
\* the source, and only then look at the result.
HoTimeout(w) ==
    /\ HwAt(w, "wait")
    /\ N4PortsMatch => ho_timeouts < MaxHoTimeouts
    /\ ho_timeouts' = IF N4PortsMatch THEN ho_timeouts + 1 ELSE ho_timeouts
    /\ hq' = [i \in DOMAIN hq |-> Unsocket(hq[i], w)]
    /\ hu' = [t \in UpfThreads |-> Unsocket(hu[t], w)]
    /\ \/ hw[w].typ = 10 /\ HwReturn(w)
       \/ hw[w].typ # 10 /\ HwGoto(w, "gave_up")
    /\ UNCHANGED <<up, ready, amf_ctx, t_up, to_tgt, to_src, exited, udmVars,
                   upfVars, smfVars, backlog, turn, pipe, conns, closed, down,
                   ranVars, ue_count, s1amf_id, amf, ho, t_home, ho_ue_ctx>>

\* A worker in connect_with_server: to the target, to the source with something
\* to tell it, or to the source with nothing to tell it.
Connecting(w) ==
    /\ Running("amf")
    /\ \/ hw[w].pc \in {"target", "gave_up"}
       \/ hw[w].pc = "answered" /\ hw[w].typ # 10

TellTarget(w) ==
    /\ HwAt(w, "target")
    /\ to_tgt' = [to_tgt EXCEPT ![hw[w].ue] =
                    @ \cup {[enb |-> hw[w].arg, mme |-> hw[w].mme,
                             ul |-> AmfUteidUl]}]
    /\ HwReturn(w)
    /\ UNCHANGED <<up, ready, amf_ctx, t_up, to_src, hq, ho_timeouts, hwFrame>>

TellSource(w) ==
    /\ HwAt(w, "answered") /\ hw[w].typ # 10
    /\ to_src' = [to_src EXCEPT ![hw[w].ue] =
                    @ \cup {[typ |-> hw[w].typ, arg |-> hw[w].arg]}]
    /\ HwReturn(w)
    /\ UNCHANGED <<up, ready, amf_ctx, t_up, to_tgt, hq, ho_timeouts, hwFrame>>

TellNothing(w) ==
    /\ HwAt(w, "gave_up")
    /\ HwReturn(w)
    /\ UNCHANGED <<up, ready, amf_ctx, t_up, to_tgt, to_src, hq, ho_timeouts,
                   hwFrame>>

\* What a worker does by itself, and what it does once a RAN has accepted.
HoRuns(w) ==
    \/ HoReceive(w) \/ HoReceiveTarget(w) \/ HoLookup(w) \/ RequestTarget(w)
    \/ HoAsk(w) \/ HoAnswered(w) \/ HoTimeout(w)

HoAccepted(w) == TellTarget(w) \/ TellSource(w) \/ TellNothing(w)

HoAmf(w) == HoRuns(w) \/ HoAccepted(w)

----------------------------------------------------------------------------
(* The UPF: one action per critical section again                          *)

HuAt(t, pc) == Running("upf") /\ hu[t].pc = pc
HuGoto(t, pc) == hu' = [hu EXCEPT ![t].pc = pc]

huFrame == <<exited, udmVars, smfVars, serverVars, linkVars, amfVars, ranVars,
             s11_id, sgi_id, upf, n4Vars, ho, to_tgt, to_src, t_up, t_home,
             ho_timeouts>>

HoUpfReceive(t) ==
    /\ HuAt(t, "idle") /\ upf[t].pc = "idle"
    /\ hq # <<>>
    /\ LET m == Head(hq)
       IN  hu' = [hu EXCEPT ![t] = [pc |-> "lookup", typ |-> m.typ, w |-> m.w,
                                    teid |-> m.teid, arg |-> m.arg, imsi |-> 0]]
    /\ hq' = Tail(hq)
    /\ UNCHANGED <<s1_id, upf_ctx, hw, ho_ue_ctx, huFrame>>

\* get_imsi(11, teid), not checked.
HoUpfLookup(t) ==
    /\ HuAt(t, "lookup")
    /\ hu' = [hu EXCEPT ![t] = [@ EXCEPT !.imsi = s11_id[hu[t].teid], !.pc = "ctx"]]
    /\ UNCHANGED <<s1_id, upf_ctx, hq, hw, ho_ue_ctx, huFrame>>

\* Every handler reads s11_cteid_smf of ue_ctx[imsi], a context it may create.
UpfTeidOf(imsi) == IF imsi = 0 THEN 0 ELSE upf_ctx[imsi].s11_cteid
TouchUpfContext(imsi) ==
    IF imsi = 0 THEN UNCHANGED upf_ctx
    ELSE \E ctx \in Looked(imsi) : upf_ctx' = [upf_ctx EXCEPT ![imsi] = ctx]

\* Mutation: the target's teid is not kept.
SetupContextNoNote(t) ==
    /\ HuAt(t, "ctx") /\ hu[t].typ = 8
    /\ hu' = [hu EXCEPT ![t] = [@ EXCEPT !.arg = UpfTeidOf(hu[t].imsi) + 1,
                                         !.pc = "enter"]]
    /\ UNCHANGED <<upf_ctx, s1_id, hq, hw, ho_ue_ctx, huFrame>>

\* handle_indirect_tunnel_setup: keep the target's teid, then enter the
\* session's teid plus one.
SetupContext(t) ==
    /\ HuAt(t, "ctx") /\ hu[t].typ = 8
    /\ LET imsi == hu[t].imsi
       IN  /\ ho_ue_ctx' = IF imsi = 0 THEN ho_ue_ctx
                           ELSE [ho_ue_ctx EXCEPT ![imsi] = hu[t].arg]
           /\ TouchUpfContext(imsi)
           /\ hu' = [hu EXCEPT ![t] = [@ EXCEPT !.arg = UpfTeidOf(imsi) + 1,
                                                !.pc = "enter"]]
    /\ UNCHANGED <<s1_id, hq, hw, huFrame>>

\* Mutation: the indirect teid is not entered.
SetupEnterSkipped(t) ==
    /\ HuAt(t, "enter")
    /\ HuGoto(t, "send")
    /\ UNCHANGED <<s1_id, upf_ctx, hq, hw, ho_ue_ctx, huFrame>>

SetupEnter(t) ==
    /\ HuAt(t, "enter")
    /\ s1_id' = [s1_id EXCEPT ![hu[t].arg] = hu[t].imsi]
    /\ HuGoto(t, "send")
    /\ UNCHANGED <<upf_ctx, hq, hw, ho_ue_ctx, huFrame>>

\* handle_handover_completion: an entry that is absent reads a teid that
\* nothing has initialised.
CompletionContext(t) ==
    /\ HuAt(t, "ctx") /\ hu[t].typ = 9
    /\ LET imsi == hu[t].imsi
       IN  IF imsi = 0 THEN UNCHANGED upf_ctx
           ELSE \E ctx \in Looked(imsi),
                   dl \in IF ho_ue_ctx[imsi] = NoTeid THEN Teids
                                                      ELSE {ho_ue_ctx[imsi]} :
                   upf_ctx' = [upf_ctx EXCEPT ![imsi] =
                                  [ctx EXCEPT !.s1_uteid_dl = dl]]
    /\ HuGoto(t, "erase")
    /\ UNCHANGED <<s1_id, hq, hw, ho_ue_ctx, huFrame>>

CompletionErase(t) ==
    /\ HuAt(t, "erase")
    /\ ho_ue_ctx' = IF hu[t].imsi = 0 THEN ho_ue_ctx
                    ELSE [ho_ue_ctx EXCEPT ![hu[t].imsi] = NoTeid]
    /\ HuGoto(t, "send")
    /\ UNCHANGED <<s1_id, upf_ctx, hq, hw, huFrame>>

\* handle_indirect_tunnel_teardown_
TeardownContext(t) ==
    /\ HuAt(t, "ctx") /\ hu[t].typ = 10
    /\ TouchUpfContext(hu[t].imsi)
    /\ HuGoto(t, "remove")
    /\ UNCHANGED <<s1_id, hq, hw, ho_ue_ctx, huFrame>>

\* Mutation: the entry of the indirect tunnel stays.
TeardownKeeps(t) ==
    /\ HuAt(t, "remove")
    /\ HuGoto(t, "send")
    /\ UNCHANGED <<s1_id, upf_ctx, hq, hw, ho_ue_ctx, huFrame>>

TeardownRemove(t) ==
    /\ HuAt(t, "remove")
    /\ s1_id' = [s1_id EXCEPT ![hu[t].arg] = 0]
    /\ HuGoto(t, "send")
    /\ UNCHANGED <<upf_ctx, hq, hw, ho_ue_ctx, huFrame>>

\* s11_server.snd to the socket of the handler, if it is still there.
HoUpfSend(t) ==
    /\ HuAt(t, "send")
    /\ LET r == hu[t]
       IN  hw' = IF r.w = Nobody THEN hw
                 ELSE [hw EXCEPT ![r.w] = [@ EXCEPT !.arg = r.arg,
                                                    !.pc = "answered"]]
    /\ hu' = [hu EXCEPT ![t] = IdleHu]
    /\ UNCHANGED <<s1_id, upf_ctx, hq, ho_ue_ctx, huFrame>>

HoUpf(t) ==
    \/ HoUpfReceive(t) \/ HoUpfLookup(t) \/ SetupContext(t) \/ SetupEnter(t)
    \/ CompletionContext(t) \/ CompletionErase(t)
    \/ TeardownContext(t) \/ TeardownRemove(t) \/ HoUpfSend(t)

----------------------------------------------------------------------------
(* The core with handovers: a thread is in one handler at a time           *)

AmfFree(w) == hw[w].pc = "idle" /\ ~HoPending(w)

HoFinished ==
    /\ Finished
    /\ Running("amf") => /\ \A w \in Workers : hw[w].pc = "idle"
                         /\ \A n \in Ues : t_up[n] = <<>>
    /\ \A t \in UpfThreads : hu[t].pc = "idle"
    /\ hq = <<>>
    /\ UNCHANGED hoVars

HoNext ==
    \/ \E n \in Ues : HoRan(n)
    \/ \E w \in Workers : HoAmf(w)
    \/ \E t \in UpfThreads : HoUpf(t)
    \/ \E n \in Ues : RanStep(n) /\ UNCHANGED hoVars
    \/ AcceptStep /\ UNCHANGED hoVars
    \/ \E w \in Workers : AmfFree(w) /\ AmfStep(w) /\ UNCHANGED hoVars
    \/ \E w \in Workers : SmfStep(w) /\ UNCHANGED hoVars
    \/ \E t \in UpfThreads :
          hu[t].pc = "idle" /\ UpfStep(t) /\ UNCHANGED hoVars
    \/ AmfCrash /\ UNCHANGED hoVars
    \/ HoFinished

HoSpec == Init /\ HoInit /\ [][HoNext]_<<vars, hoVars>>

\* The threads of the core run while they can.  Nobody makes the RANs go on with
\* a handover or accept a connection.
HoFairness ==
    /\ \A n \in Ues : WF_vars(RanStep(n) /\ UNCHANGED hoVars)
    /\ WF_vars(AcceptStep /\ UNCHANGED hoVars)
    /\ \A w \in Workers :
          /\ WF_vars(AmfFree(w) /\ AmfStep(w) /\ UNCHANGED hoVars)
          /\ WF_vars(SmfStep(w) /\ UNCHANGED hoVars)
          /\ WF_<<vars, hoVars>>(HoRuns(w))
    /\ \A t \in UpfThreads :
          /\ WF_vars(hu[t].pc = "idle" /\ UpfStep(t) /\ UNCHANGED hoVars)
          /\ WF_<<vars, hoVars>>(HoUpf(t))

HoLiveSpec == HoSpec /\ HoFairness

----------------------------------------------------------------------------
(* Properties                                                              *)

HoContexts == [src : {0, 1, 4}, tgt : {0, 3}, cycle : 0 .. MaxCycles,
               last : {"none", "complete", "teardown"}, ind : Teids,
               enb : Teids, mme : MmeIds, ul : Teids]
TargetMessages == [typ : {8, 9}, mme : MmeIds, arg : Teids]
HoToTargets == [enb : Teids, mme : MmeIds, ul : Teids]
HoToSources == [typ : 7 .. 10, arg : Teids]
HwStates == [pc : {"idle", "lookup", "request", "target", "ask", "wait", "answered",
                   "gave_up"},
             ue : Ues, typ : 7 .. 10, mme : MmeIds, arg : Teids, guti : {0} \cup Imsis]
HuStates == [pc : {"idle", "lookup", "ctx", "enter", "erase", "remove", "send"},
             typ : 8 .. 10, w : 0 .. Nobody, teid : {AmfCteidUpf}, arg : Teids,
             imsi : {0, Imsi(0)}]
HoRequests == [typ : 8 .. 10, w : 0 .. Nobody, teid : {AmfCteidUpf}, arg : Teids]

\* The types of what a handover adds.  The UPF is asked about the one teid the
\* AMF's context has, so it finds subscriber 0 or nobody, and the teid it makes
\* of that one's is still a teid.
HoTypeOK ==
    /\ ho \in [Ues -> HoContexts]
    /\ to_tgt \in [Ues -> SUBSET HoToTargets]
    /\ to_src \in [Ues -> SUBSET HoToSources]
    /\ t_up \in [Ues -> Seq(TargetMessages)]
    /\ t_home \in [Ues -> 0 .. Nobody]
    /\ hw \in [Workers -> HwStates]
    /\ \A w \in Workers : hw[w].pc = "ask" => hw[w].typ # 7
    /\ hq \in Seq(HoRequests)
    /\ hu \in [UpfThreads -> HuStates]
    /\ ho_ue_ctx \in [Imsis -> Teids \cup {NoTeid}]
    /\ ho_timeouts \in 0 .. MaxHoTimeouts

\* A handover, at whatever step it is, late or given up, leaves the session it
\* is about as the attach made it: its lookups and its context at the UPF.
HandoverKeepsSession ==
    \A n \in Ues : HasSession(n) =>
       /\ s11_id[Teid(n)] = Imsi(n) /\ s1_id[Teid(n)] = Imsi(n)
       /\ sgi_id[IpAddr(Imsi(n))] = Imsi(n)
       /\ upf_ctx[Imsi(n)].present

\* The subscriber is still in the session it began the handover in.
InHandover(n) == Transfers(n) /\ ho[n].cycle = ran[n].cycles

\* ran.cpp:412: the source receives the indirect uplink teid.  Until it asks
\* for the teardown that teid leads to its own session, and is a second one.
IndirectTunnelLeads ==
    \A n \in Ues : (InHandover(n) /\ ho[n].src = 4 /\ ho[n].last # "teardown") =>
       s1_id[ho[n].ind] = Imsi(n) /\ ho[n].ind # Teid(n)

\* amf.cpp:1051: the source is told that the handover is complete only when
\* the UPF sends the downlink to the target and has dropped its note of it.
ToldWhenSwitched ==
    \A n \in Ues, m \in UNION {to_src[k] : k \in Ues} :
       (InHandover(n) /\ m \in to_src[n] /\ m.typ = 9) =>
          /\ upf_ctx[Imsi(n)].s1_uteid_dl = ho[n].enb
          /\ ho_ue_ctx[Imsi(n)] = NoTeid

\* A teardown of n's tunnel is on its way.
TearingDown(n) ==
    \/ \E i \in DOMAIN up[n] : up[n][i].typ = 10
    \/ \E w \in Workers : hw[w].typ = 10 /\ hw[w].ue = n
    \/ \E i \in DOMAIN hq : hq[i].typ = 10
    \/ \E t \in UpfThreads : hu[t].typ = 10

\* ran.cpp:438: after the teardown the indirect teid is gone from the UPF,
\* also when the AMF has stopped waiting for the UPF's answer.
TornDownIsGone ==
    \A n \in Ues : (ho[n].last = "teardown" /\ ~TearingDown(n)) =>
       s1_id[ho[n].ind] = 0

----------------------------------------------------------------------------
(* What makes two of them inductive                                        *)

\* What HoTypeOK needs of the core: the lookups by session teid and the teid in
\* a context are their subscriber's.
SessionTeidsOwned ==
    /\ \A t \in Teids : s11_id[t] # 0 => t = TeidOf(s11_id[t])
    /\ \A i \in Imsis : upf_ctx[i].s11_cteid \in {0, TeidOf(i)}

Asks(t) == hu[t].pc # "idle"
WaitsFor(r) == r.w # Nobody => hw[r.w].pc = "wait" /\ hw[r.w].typ = r.typ

\* The socket of a handler is in one request at most, and the handler waits.
SocketsOK ==
    /\ \A i \in DOMAIN hq : WaitsFor(hq[i])
    /\ \A t \in UpfThreads : Asks(t) => WaitsFor(hu[t])
    /\ \A i, j \in DOMAIN hq : hq[i].w = hq[j].w /\ hq[i].w # Nobody => i = j
    /\ \A s, t \in UpfThreads :
          Asks(s) /\ Asks(t) /\ hu[s].w = hu[t].w /\ hu[s].w # Nobody => s = t
    /\ \A i \in DOMAIN hq, t \in UpfThreads :
          Asks(t) /\ hq[i].w = hu[t].w => hq[i].w = Nobody

\* Where the setup of the tunnel of subscriber 0 can be: from message 7 over the
\* target and the UPF to the source that has heard of it.
HoldsSetup(r) == r.typ \in {7, 8} /\ r.pc \notin {"idle", "wait", "gave_up"}
OfType(q, typ) == {i \in DOMAIN q : q[i].typ = typ}
Places == {"source", "amf", "to_tgt", "target", "queue", "upf", "to_src", "known"}
Setups ==
    [p \in Places |->
       CASE p = "source" -> OfType(up[0], 7)
         [] p = "amf" -> {w \in Workers : HoldsSetup(hw[w])}
         [] p = "to_tgt" -> to_tgt[0]
         [] p = "target" -> OfType(t_up[0], 8)
         [] p = "queue" -> OfType(hq, 8)
         [] p = "upf" -> {t \in UpfThreads : Asks(t) /\ hu[t].typ = 8}
         [] p = "to_src" -> {m \in to_src[0] : m.typ = 8}
         [] p = "known" -> {n \in {0} : ho[n].src = 4}]

AtMostOne(S) ==
    \A p, q \in Places : \A x \in S[p], y \in S[q] : p = q /\ x = y

\* Nothing before message 7, and one setup behind it.
OnePlace ==
    /\ AtMostOne(Setups)
    /\ ho[0].src = 0 => \A p \in Places : Setups[p] = {}

\* Each handler goes through its own steps.
HandlersOK ==
    /\ \A w \in Workers : hw[w].pc \in {"request", "target"} => hw[w].typ = 7
    /\ \A t \in UpfThreads : /\ hu[t].pc = "enter" => hu[t].typ = 8
                             /\ hu[t].pc = "erase" => hu[t].typ = 9
                             /\ hu[t].pc = "remove" => hu[t].typ = 10

\* The setup makes the teid 1, and the source is told this one.
SetupTeid ==
    /\ \A t \in UpfThreads :
          hu[t].pc \in {"enter", "send"} /\ hu[t].typ = 8 => hu[t].arg = 1
    /\ \A w \in Workers : hw[w].pc = "answered" /\ hw[w].typ = 8 => hw[w].arg = 1
    /\ \A m \in to_src[0] : m.typ = 8 => m.arg = 1
    /\ ho[0].src = 4 => ho[0].ind = 1

\* The handover is completed, and the tunnel torn down, only after its setup.
CompletionOK ==
    \/ ho[0].src = 4
    \/ /\ ho[0].last = "none"
       /\ OfType(t_up[0], 9) = {}
       /\ \A w \in Workers : hw[w].pc # "idle" => hw[w].typ # 9
       /\ OfType(hq, 9) = {}
       /\ \A t \in UpfThreads : Asks(t) => hu[t].typ # 9
       /\ \A m \in to_src[0] : m.typ # 9

\* An answer takes ports that match.
PortsOK ==
    \/ N4PortsMatch
    \/ /\ hq = <<>> /\ \A t \in UpfThreads : ~Asks(t)
       /\ \A w \in Workers : hw[w].pc # "answered"
       /\ to_src[0] = {} /\ ho[0].src # 4

\* The teardown before the UPF has removed the entry.
TeardownUnderWay ==
    \/ \E i \in DOMAIN up[0] : up[0][i].typ = 10 /\ up[0][i].arg = 1
    \/ \E w \in Workers :
          hw[w].pc \in {"lookup", "ask"} /\ hw[w].typ = 10 /\ hw[w].arg = 1
    \/ \E i \in DOMAIN hq : hq[i].typ = 10 /\ hq[i].arg = 1
    \/ \E t \in UpfThreads : /\ hu[t].pc \in {"lookup", "ctx", "remove"}
                             /\ hu[t].typ = 10 /\ hu[t].arg = 1

TeardownOK == ho[0].last = "teardown" => s1_id[1] = 0 \/ TeardownUnderWay

\* The invariant behind TornDownIsGone, for one subscriber: the teid of the
\* tunnel of one is the session's teid of the next.
TunnelInv ==
    OnePlace /\ HandlersOK /\ SetupTeid /\ CompletionOK /\ PortsOK /\ TeardownOK

----------------------------------------------------------------------------
(* Liveness                                                                *)

\* Neither the UPF nor a handler holds a worker of the AMF in a handover, nobody
\* answering it included (amf.cpp:928-1092, udp_client.cpp:66): what can is a RAN
\* that does not accept (sctp_client.cpp:27).
HandoverHandled ==
    \A w \in Workers :
       hw[w].pc # "idle" ~> (hw[w].pc = "idle" \/ Connecting(w) \/ ~Running("amf"))

\* No worker connects to a RAN for ever.
RansAccept == \A w \in Workers : []<>~Connecting(w)

\* If the RANs accept in the end, a detach is answered while handovers occupy
\* workers, that of its own connection included (sctp_server.cpp, worker_func).
DetachAnswered ==
    RansAccept =>
       \A n \in Ues : ran[n].pc = "detach" ~> (ran[n].pc = "start" \/ ~Running("amf"))
=============================================================================
