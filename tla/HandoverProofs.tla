---------------------------- MODULE HandoverProofs ----------------------------
(***************************************************************************)
(* What handovers keep, for every number of subscribers, workers and N4    *)
(* threads, receive timeouts of core and handover, and if the AMF is       *)
(* killed: the types of the whole core and of the handover, that an answer *)
(* ends no wait but its own, and that the ids of the AMF and the UPF's     *)
(* lookups by session teid and address stay their subscriber's.  For a     *)
(* single subscriber, that the entry of a tunnel that has been torn down   *)
(* is gone.                                                                *)
(***************************************************************************)
EXTENDS CoreProofs, Handover

USE UeCountAssumption, WorkerCountAssumption, IdSpaceAssumption

----------------------------------------------------------------------------
(* Types                                                                   *)

\* The numbers a handover works with.
LEMMA HandoverConstants ==
    /\ 0 \in Ues /\ Ues \subseteq Teids /\ Ues \subseteq Nat /\ Teids \subseteq Nat
    /\ 0 \in Teids /\ 1 \in Teids /\ 0 \in MmeIds /\ 0 \in Imsis \cup {0}
    /\ Imsi(0) = 1 /\ 1 \in Imsis /\ TeidOf(1) = 0
    /\ AmfCteidUpf = 0 /\ AmfUteidUl = 0
    /\ Nobody \in 0 .. Nobody /\ Nobody \notin Workers
    /\ Workers \subseteq 0 .. Nobody
    /\ \A k \in (0 .. Nobody) \ {Nobody} : k \in Workers
    /\ \A i \in Imsis : TeidOf(i) = i - 1
BY DEF Ues, Teids, MmeIds, Imsis, Imsi, TeidOf, GetS11CteidAmf, GetGuti,
       AmfCteidUpf, AmfUteidUl, Nobody, Workers

\* A message of a handover carries the number of a RAN or a teid.
LEMMA HandoverMessage ==
    ASSUME NEW m \in UplinkMessages, IsHandover(m)
    PROVE  m.typ \in {7, 10} /\ m.typ \in 7 .. 10 /\ m.mme \in MmeIds /\ m.arg \in Teids
BY DEF UplinkMessages, UplinkBody, IsHandover

\* A record of the handover of one subscriber may be replaced by one of its type.
LEMMA HandoverRecord ==
    ASSUME HoTypeOK, NEW n \in Ues
    PROVE  /\ ho[n].src \in {0, 1, 4} /\ ho[n].tgt \in {0, 3}
           /\ ho[n].cycle \in 0 .. MaxCycles /\ ho[n].ind \in Teids
           /\ ho[n].last \in {"none", "complete", "teardown"}
           /\ ho[n].enb \in Teids /\ ho[n].mme \in MmeIds /\ ho[n].ul \in Teids
           /\ ho \in [Ues -> HoContexts] /\ ho[n] \in HoContexts
BY DEF HoTypeOK, HoContexts

\* The messages the target sends keep the type of its stream.
LEMMA TargetSends ==
    ASSUME HoTypeOK, NEW n \in Ues, NEW typ \in {8, 9}, NEW mme \in MmeIds,
           NEW arg \in Teids,
           t_up' = [t_up EXCEPT ![n] =
                      Append(@, [typ |-> typ, mme |-> mme, arg |-> arg])]
    PROVE  t_up' \in [Ues -> Seq(TargetMessages)]
<1>1. [typ |-> typ, mme |-> mme, arg |-> arg] \in TargetMessages
  BY DEF TargetMessages
<1>2. Append(t_up[n], [typ |-> typ, mme |-> mme, arg |-> arg]) \in Seq(TargetMessages)
  BY <1>1, QueueType DEF HoTypeOK
<1>. QED  BY <1>2 DEF HoTypeOK

\* What an operation of a RAN leaves alone keeps its types.
LEMMA RanFrameType ==
    ASSUME TypeOK, UNCHANGED ranFrame,
           up' \in [Ues -> Seq(UplinkMessages)], ran' \in [Ues -> RanContexts]
    PROVE  TypeOK'
<1> USE DEF TypeOK, ranFrame
<1>1. PlatformTypeOK' /\ UdmTypeOK'
  BY DEF PlatformTypeOK, UdmTypeOK, udmVars
<1>2. UpfTypeOK'
  BY DEF UpfTypeOK, upfVars
<1>3. SmfTypeOK' /\ AmfTypeOK'
  BY DEF SmfTypeOK, smfVars, AmfTypeOK, amfVars
<1>4. ServerTypeOK'
  BY DEF ServerTypeOK, serverVars
<1>5. RanTypeOK'
  BY DEF RanTypeOK
<1>. QED  BY <1>1, <1>2, <1>3, <1>4, <1>5

\* The five operations of the RANs (ran.cpp:361-451).
LEMMA RanHandoverType ==
    ASSUME TypeOK, HoTypeOK, NEW n \in Ues, HoRan(n)
    PROVE  TypeOK' /\ HoTypeOK'
<1>0. /\ ServerTypeOK /\ ran \in [Ues -> RanContexts] /\ ran[n] \in RanContexts
      /\ up \in [Ues -> Seq(UplinkMessages)]
      /\ ran[n].mme_s1ap_ue_id \in MmeIds /\ ran[n].cycles \in 0 .. MaxCycles
  BY DEF TypeOK, ServerTypeOK, RanTypeOK, RanContexts
<1>a. ASSUME UNCHANGED ranFrame,
             up' \in [Ues -> Seq(UplinkMessages)], ran' \in [Ues -> RanContexts],
             ho' \in [Ues -> HoContexts],
             to_tgt' \in [Ues -> SUBSET HoToTargets],
             to_src' \in [Ues -> SUBSET HoToSources],
             t_up' \in [Ues -> Seq(TargetMessages)],
             t_home' \in [Ues -> 0 .. Nobody]
      PROVE  TypeOK' /\ HoTypeOK'
  <2>1. TypeOK'
    BY <1>a, RanFrameType
  <2>2. HoTypeOK'
    BY <1>a DEF HoTypeOK, ranFrame
  <2>. QED  BY <2>1, <2>2
<1>b. /\ ho \in [Ues -> HoContexts]
      /\ to_tgt \in [Ues -> SUBSET HoToTargets]
      /\ to_src \in [Ues -> SUBSET HoToSources]
      /\ t_up \in [Ues -> Seq(TargetMessages)] /\ t_home \in [Ues -> 0 .. Nobody]
  BY DEF HoTypeOK
<1>c. ASSUME NEW typ \in {7, 10}, NEW arg \in Teids,
             SendUp(n, typ, ran[n].mme_s1ap_ue_id, arg)
      PROVE  up' \in [Ues -> Seq(UplinkMessages)]
  <2>1. arg \in UplinkBody[typ] /\ arg \in Nat
    BY HandoverConstants DEF UplinkBody
  <2>. QED  BY <1>0, <1>c, <2>1, SendUpType
<1>d. ho[n] \in HoContexts
  BY <1>b
<1>1. CASE InitiateHandover(n)
  <2>1. n \in Teids
    BY HandoverConstants
  <2>2. up' \in [Ues -> Seq(UplinkMessages)]
    BY <1>1, <1>c, <2>1 DEF InitiateHandover
  <2> DEFINE r == [ho[n] EXCEPT !.src = 1, !.cycle = ran[n].cycles]
  <2>a. r \in HoContexts
    BY <1>0, <1>d DEF HoContexts
  <2>b. ho' = [ho EXCEPT ![n] = r]
    BY <1>1 DEF InitiateHandover
  <2> HIDE DEF r
  <2>3. ho' \in [Ues -> HoContexts]
    BY <1>b, <2>a, <2>b
  <2>. QED  BY <1>0, <1>1, <1>a, <1>b, <2>2, <2>3 DEF InitiateHandover
<1>2. CASE HandleHandover(n)
  <2>1. PICK m \in to_tgt[n] :
          /\ to_tgt' = [to_tgt EXCEPT ![n] = @ \ {m}]
          /\ ho' = [ho EXCEPT ![n] = [@ EXCEPT !.tgt = 3, !.enb = m.enb,
                                               !.mme = m.mme, !.ul = m.ul]]
          /\ t_up' = [t_up EXCEPT ![n] =
                        Append(@, [typ |-> 8, mme |-> m.mme, arg |-> m.enb])]
    BY <1>2 DEF HandleHandover
  <2>2. m.enb \in Teids /\ m.mme \in MmeIds /\ m.ul \in Teids
    BY <1>b DEF HoToTargets
  <2>3. t_up' \in [Ues -> Seq(TargetMessages)]
    BY <2>1, <2>2, TargetSends
  <2>4. PICK w \in Workers : t_home' = [t_home EXCEPT ![n] = w]
    BY <1>2 DEF HandleHandover
  <2>5. t_home' \in [Ues -> 0 .. Nobody]
    BY <1>b, <2>4, HandoverConstants
  <2> DEFINE r == [ho[n] EXCEPT !.tgt = 3, !.enb = m.enb, !.mme = m.mme, !.ul = m.ul]
  <2>a. r \in HoContexts
    BY <1>d, <2>2 DEF HoContexts
  <2>b. ho' = [ho EXCEPT ![n] = r]
    BY <2>1
  <2> HIDE DEF r
  <2>6. ho' \in [Ues -> HoContexts]
    BY <1>b, <2>a, <2>b
  <2>7. to_tgt' \in [Ues -> SUBSET HoToTargets]
    BY <1>b, <2>1
  <2>. QED  BY <1>0, <1>2, <1>a, <1>b, <2>3, <2>5, <2>6, <2>7 DEF HandleHandover
<1>3. CASE IndirectTunnelComplete(n)
  <2>1. PICK m \in to_src[n] :
          /\ to_src' = [to_src EXCEPT ![n] = @ \ {m}]
          /\ ho' = [ho EXCEPT ![n] = [@ EXCEPT !.src = 4, !.ind = m.arg]]
    BY <1>3 DEF IndirectTunnelComplete
  <2>2. m.arg \in Teids
    BY <1>b DEF HoToSources
  <2> DEFINE r == [ho[n] EXCEPT !.src = 4, !.ind = m.arg]
  <2>a. r \in HoContexts
    BY <1>d, <2>2 DEF HoContexts
  <2>b. ho' = [ho EXCEPT ![n] = r]
    BY <2>1
  <2> HIDE DEF r
  <2>3. ho' \in [Ues -> HoContexts]
    BY <1>b, <2>a, <2>b
  <2>4. to_src' \in [Ues -> SUBSET HoToSources]
    BY <1>b, <2>1
  <2>. QED  BY <1>0, <1>3, <1>a, <1>b, <2>3, <2>4 DEF IndirectTunnelComplete
<1>4. CASE CompleteHandover(n)
  <2>1. ho[n].mme \in MmeIds /\ 0 \in Teids
    BY HandoverRecord, HandoverConstants
  <2>2. t_up' \in [Ues -> Seq(TargetMessages)]
    BY <1>4, <2>1, TargetSends DEF CompleteHandover
  <2> DEFINE r == [ho[n] EXCEPT !.last = "complete"]
  <2>a. r \in HoContexts
    BY <1>d DEF HoContexts
  <2>b. ho' = [ho EXCEPT ![n] = r]
    BY <1>4 DEF CompleteHandover
  <2> HIDE DEF r
  <2>3. ho' \in [Ues -> HoContexts]
    BY <1>b, <2>a, <2>b
  <2>. QED  BY <1>0, <1>4, <1>a, <1>b, <2>2, <2>3 DEF CompleteHandover
<1>5. CASE RequestTearDown(n)
  <2>1. ho[n].ind \in Teids
    BY HandoverRecord
  <2>2. up' \in [Ues -> Seq(UplinkMessages)]
    BY <1>5, <1>c, <2>1 DEF RequestTearDown
  <2>3. ran' \in [Ues -> RanContexts]
    <3>1. [ran[n] EXCEPT !.s1_uteid_ul = 0] \in RanContexts
      BY <1>0, HandoverConstants DEF RanContexts
    <3>2. ran' = [ran EXCEPT ![n] = [ran[n] EXCEPT !.s1_uteid_ul = 0]]
      BY <1>0, <1>5 DEF RequestTearDown
    <3>. QED  BY <1>0, <3>1, <3>2
  <2> DEFINE r == [ho[n] EXCEPT !.last = "teardown"]
  <2>a. r \in HoContexts
    BY <1>d DEF HoContexts
  <2>b. ho' = [ho EXCEPT ![n] = r]
    BY <1>5 DEF RequestTearDown
  <2> HIDE DEF r
  <2>4. ho' \in [Ues -> HoContexts]
    BY <1>b, <2>a, <2>b
  <2>5. PICK m \in to_src[n] : to_src' = [to_src EXCEPT ![n] = @ \ {m}]
    BY <1>5 DEF RequestTearDown
  <2>6. to_src' \in [Ues -> SUBSET HoToSources]
    BY <1>b, <2>5
  <2>. QED  BY <1>5, <1>a, <1>b, <2>2, <2>3, <2>4, <2>6 DEF RequestTearDown
<1>. QED  BY <1>1, <1>2, <1>3, <1>4, <1>5 DEF HoRan

\* The registers of a worker in a handover handler, and of a thread.
LEMMA HandlerRegisters ==
    ASSUME HoTypeOK
    PROVE  /\ \A w \in Workers :
                 /\ hw[w] \in HwStates /\ hw[w].ue \in Ues /\ hw[w].typ \in 7 .. 10
                 /\ hw[w].mme \in MmeIds /\ hw[w].arg \in Teids
                 /\ hw[w].guti \in {0} \cup Imsis
           /\ \A t \in UpfThreads :
                 /\ hu[t] \in HuStates /\ hu[t].typ \in 8 .. 10
                 /\ hu[t].w \in 0 .. Nobody /\ hu[t].arg \in Teids
                 /\ hu[t].teid = AmfCteidUpf /\ hu[t].imsi \in {0, Imsi(0)}
           /\ IdleHw \in HwStates /\ IdleHu \in HuStates
BY HandoverConstants DEF HoTypeOK, HwStates, HuStates, IdleHw, IdleHu

\* A worker that takes a step of a handover.
LEMMA WorkerTakes ==
    ASSUME HoTypeOK, NEW w \in Workers, NEW r \in HwStates,
           r.pc = "ask" => r.typ # 7, hw' = [hw EXCEPT ![w] = r]
    PROVE  /\ hw' \in [Workers -> HwStates]
           /\ \A x \in Workers : hw'[x].pc = "ask" => hw'[x].typ # 7
BY DEF HoTypeOK

\* A worker that moves on with what it has, or returns.
LEMMA WorkerMoves ==
    ASSUME HoTypeOK, NEW w \in Workers,
           \/ HwReturn(w)
           \/ \E pc \in {"wait", "target", "gave_up"} : HwGoto(w, pc)
    PROVE  /\ hw' \in [Workers -> HwStates]
           /\ \A x \in Workers : hw'[x].pc = "ask" => hw'[x].typ # 7
<1>1. CASE HwReturn(w)
  <2>1. IdleHw.pc # "ask"
    BY DEF IdleHw
  <2>. QED  BY <1>1, <2>1, HandlerRegisters, WorkerTakes DEF HwReturn
<1>2. ASSUME NEW pc \in {"wait", "target", "gave_up"}, HwGoto(w, pc)
      PROVE  /\ hw' \in [Workers -> HwStates]
             /\ \A x \in Workers : hw'[x].pc = "ask" => hw'[x].typ # 7
  <2> DEFINE r == [hw[w] EXCEPT !.pc = pc]
  <2>0. hw[w] \in HwStates
    BY HandlerRegisters
  <2>1. r \in HwStates /\ r.pc # "ask"
    BY <2>0 DEF HwStates
  <2>2. hw' = [hw EXCEPT ![w] = r]
    BY <1>2 DEF HwGoto
  <2> HIDE DEF r
  <2>. QED  BY <2>1, <2>2, WorkerTakes
<1>. QED  BY <1>1, <1>2

\* A message that is taken brings its worker to its handler.
LEMMA ServeType ==
    ASSUME HoTypeOK, NEW w \in Workers, NEW n \in Ues, NEW m, HoServe(w, n, m),
           m.typ \in 7 .. 10, m.mme \in MmeIds, m.arg \in Teids
    PROVE  /\ hw' \in [Workers -> HwStates]
           /\ \A x \in Workers : hw'[x].pc = "ask" => hw'[x].typ # 7
<1> DEFINE r == [IdleHw EXCEPT !.pc = "lookup", !.ue = n, !.typ = m.typ,
                               !.mme = m.mme, !.arg = m.arg]
<1>2. r \in HwStates /\ r.pc # "ask"
  BY HandoverConstants DEF HwStates, IdleHw
<1>3. hw' = [hw EXCEPT ![w] = r]
  BY DEF HoServe
<1> HIDE DEF r
<1>. QED  BY <1>2, <1>3, WorkerTakes

\* What a handover handler of the AMF leaves alone keeps its types.
LEMMA AmfFrameType ==
    ASSUME TypeOK,
           UNCHANGED <<exited, udmVars, upfVars, smfVars, backlog, turn, pipe, conns,
                       closed, down, ranVars, ue_count, s1amf_id, amf>>,
           up' \in [Ues -> Seq(UplinkMessages)],
           ready' \in [Workers -> SUBSET Ues], amf_ctx' \in [Imsis -> AmfContexts]
    PROVE  TypeOK'
<1> USE DEF TypeOK
<1>1. PlatformTypeOK' /\ UdmTypeOK'
  BY DEF PlatformTypeOK, UdmTypeOK, udmVars
<1>2. UpfTypeOK'
  BY DEF UpfTypeOK, upfVars
<1>3. SmfTypeOK' /\ AmfTypeOK'
  BY DEF SmfTypeOK, smfVars, AmfTypeOK
<1>4. ServerTypeOK'
  BY DEF ServerTypeOK
<1>5. RanTypeOK'
  BY DEF RanTypeOK, ranVars
<1>. QED  BY <1>1, <1>2, <1>3, <1>4, <1>5

\* A look at a context of the AMF keeps the types.
LEMMA TouchType ==
    ASSUME TypeOK, NEW g \in {0} \cup Imsis, TouchContext(g)
    PROVE  amf_ctx' \in [Imsis -> AmfContexts]
<1>1. amf_ctx \in [Imsis -> AmfContexts]
  BY DEF TypeOK, AmfTypeOK
<1>2. CASE g = 0
  BY <1>1, <1>2 DEF TouchContext
<1>3. CASE g # 0
  <2>1. [amf_ctx[g] EXCEPT !.present = TRUE] \in AmfContexts
    BY <1>1, <1>3 DEF AmfContexts
  <2>2. amf_ctx' = [amf_ctx EXCEPT ![g] = [amf_ctx[g] EXCEPT !.present = TRUE]]
    BY <1>1, <1>3 DEF TouchContext
  <2>. QED  BY <1>1, <2>1, <2>2
<1>. QED  BY <1>2, <1>3

\* A handler that gives up takes its socket with it.
LEMMA UnsocketType ==
    ASSUME HoTypeOK, NEW w \in Workers
    PROVE  /\ [i \in DOMAIN hq |-> Unsocket(hq[i], w)] \in Seq(HoRequests)
           /\ [t \in UpfThreads |-> Unsocket(hu[t], w)] \in [UpfThreads -> HuStates]
<1>1. \A r \in HoRequests : Unsocket(r, w) \in HoRequests
  BY HandoverConstants DEF HoRequests, Unsocket
<1>2. \A r \in HuStates : Unsocket(r, w) \in HuStates
  BY HandoverConstants DEF HuStates, Unsocket
<1>3. hq \in Seq(HoRequests) /\ hu \in [UpfThreads -> HuStates]
  BY DEF HoTypeOK
<1>4. /\ Len(hq) \in Nat /\ DOMAIN hq = 1 .. Len(hq)
      /\ \A i \in DOMAIN hq : hq[i] \in HoRequests
  BY <1>3
<1>5. [i \in 1 .. Len(hq) |-> Unsocket(hq[i], w)] \in [1 .. Len(hq) -> HoRequests]
  BY <1>1, <1>4
<1>6. \A k \in Nat : \A f \in [1 .. k -> HoRequests] : f \in Seq(HoRequests)
  BY SeqDef
<1>. QED  BY <1>2, <1>3, <1>4, <1>5, <1>6

\* The handlers of the AMF (amf.cpp:893-1092) and its receive timeout.
LEMMA AmfHandoverType ==
    ASSUME TypeOK, HoTypeOK, NEW w \in Workers, HoAmf(w)
    PROVE  TypeOK' /\ HoTypeOK'
<1>0. /\ up \in [Ues -> Seq(UplinkMessages)] /\ ready \in [Workers -> SUBSET Ues]
      /\ amf_ctx \in [Imsis -> AmfContexts] /\ conns \in [Workers -> Seq(Ues)]
      /\ s1amf_id \in [MmeIds -> {0} \cup Imsis]
  BY DEF TypeOK, ServerTypeOK, AmfTypeOK
<1>b. /\ ho \in [Ues -> HoContexts]
      /\ to_tgt \in [Ues -> SUBSET HoToTargets] /\ to_src \in [Ues -> SUBSET HoToSources]
      /\ t_up \in [Ues -> Seq(TargetMessages)] /\ t_home \in [Ues -> 0 .. Nobody]
      /\ hq \in Seq(HoRequests) /\ hu \in [UpfThreads -> HuStates]
      /\ ho_ue_ctx \in [Imsis -> Teids \cup {NoTeid}]
      /\ ho_timeouts \in 0 .. MaxHoTimeouts
  BY DEF HoTypeOK
<1>c. /\ hw[w] \in HwStates /\ hw[w].ue \in Ues /\ hw[w].mme \in MmeIds
      /\ hw[w].arg \in Teids /\ hw[w].guti \in {0} \cup Imsis /\ hw[w].typ \in 7 .. 10
  BY HandlerRegisters
<1>a. ASSUME UNCHANGED <<exited, udmVars, upfVars, smfVars, backlog, turn, pipe,
                         conns, closed, down, ranVars, ue_count, s1amf_id, amf, ho,
                         t_home, ho_ue_ctx>>,
             up' \in [Ues -> Seq(UplinkMessages)], ready' \in [Workers -> SUBSET Ues],
             amf_ctx' \in [Imsis -> AmfContexts],
             hw' \in [Workers -> HwStates],
             \A x \in Workers : hw'[x].pc = "ask" => hw'[x].typ # 7,
             to_tgt' \in [Ues -> SUBSET HoToTargets],
             to_src' \in [Ues -> SUBSET HoToSources],
             t_up' \in [Ues -> Seq(TargetMessages)],
             hq' \in Seq(HoRequests), hu' \in [UpfThreads -> HuStates],
             ho_timeouts' \in 0 .. MaxHoTimeouts
      PROVE  TypeOK' /\ HoTypeOK'
  <2>1. TypeOK'
    BY <1>a, AmfFrameType
  <2>2. HoTypeOK'
    BY <1>a, <1>b DEF HoTypeOK
  <2>. QED  BY <2>1, <2>2
<1>1. CASE HoReceive(w)
  <2>1. PICK i \in DOMAIN conns[w] :
          LET n == conns[w][i]
          IN  /\ IsNext(w, i, n)
              /\ up[n] # <<>> /\ IsHandover(Head(up[n]))
              /\ HoServe(w, n, Head(up[n]))
              /\ up' = [up EXCEPT ![n] = Tail(@)]
              /\ Served(w, n)
    BY <1>1 DEF HoReceive
  <2> DEFINE n == conns[w][i]
  <2>2. n \in Ues
    BY <1>0
  <2>3. Head(up[n]) \in UplinkMessages /\ Tail(up[n]) \in Seq(UplinkMessages)
    BY <1>0, <2>1, <2>2, QueueType
  <2>4. /\ hw' \in [Workers -> HwStates]
        /\ \A x \in Workers : hw'[x].pc = "ask" => hw'[x].typ # 7
    BY <2>1, <2>2, <2>3, HandoverMessage, ServeType
  <2>5. up' \in [Ues -> Seq(UplinkMessages)]
    BY <1>0, <2>1, <2>3
  <2>6. ready' \in [Workers -> SUBSET Ues]
    BY <1>0, <2>1 DEF Served
  <2>. QED  BY <1>0, <1>1, <1>a, <1>b, <2>4, <2>5, <2>6 DEF HoReceive, hwFrame
<1>2. CASE HoReceiveTarget(w)
  <2>1. PICK n \in Ues :
          /\ t_home[n] = w /\ t_up[n] # <<>> /\ HoServe(w, n, Head(t_up[n]))
          /\ t_up' = [t_up EXCEPT ![n] = Tail(@)]
    BY <1>2 DEF HoReceiveTarget
  <2>3. Head(t_up[n]) \in TargetMessages /\ Tail(t_up[n]) \in Seq(TargetMessages)
    BY <1>b, <2>1, QueueType
  <2>6. /\ Head(t_up[n]).typ \in 7 .. 10 /\ Head(t_up[n]).mme \in MmeIds
        /\ Head(t_up[n]).arg \in Teids
    BY <2>3 DEF TargetMessages
  <2>4. /\ hw' \in [Workers -> HwStates]
        /\ \A x \in Workers : hw'[x].pc = "ask" => hw'[x].typ # 7
    BY <2>1, <2>6, ServeType
  <2>5. t_up' \in [Ues -> Seq(TargetMessages)]
    BY <1>b, <2>1, <2>3
  <2>. QED  BY <1>0, <1>2, <1>a, <1>b, <2>4, <2>5 DEF HoReceiveTarget, hwFrame
<1>3. CASE HoLookup(w)
  <2> DEFINE r == [hw[w] EXCEPT !.guti = s1amf_id[hw[w].mme],
                                !.pc = IF hw[w].typ = 7 THEN "request" ELSE "ask"]
  <2>1. s1amf_id[hw[w].mme] \in {0} \cup Imsis
    BY <1>0, <1>c
  <2>2. r \in HwStates /\ (r.pc = "ask" => r.typ # 7)
    BY <1>c, <2>1 DEF HwStates
  <2>3. hw' = [hw EXCEPT ![w] = r]
    BY <1>3 DEF HoLookup
  <2> HIDE DEF r
  <2>4. /\ hw' \in [Workers -> HwStates]
        /\ \A x \in Workers : hw'[x].pc = "ask" => hw'[x].typ # 7
    BY <2>2, <2>3, WorkerTakes
  <2>. QED  BY <1>0, <1>3, <1>a, <1>b, <2>4 DEF HoLookup, hwFrame
<1>4. CASE RequestTarget(w)
  <2>1. amf_ctx' \in [Imsis -> AmfContexts]
    BY <1>4, <1>c, TouchType DEF RequestTarget
  <2>2. /\ hw' \in [Workers -> HwStates]
        /\ \A x \in Workers : hw'[x].pc = "ask" => hw'[x].typ # 7
    BY <1>4, WorkerMoves DEF RequestTarget
  <2>. QED  BY <1>0, <1>4, <1>a, <1>b, <2>1, <2>2 DEF RequestTarget, hwFrame
<1>5. CASE HoAsk(w)
  <2>1. amf_ctx' \in [Imsis -> AmfContexts]
    BY <1>5, <1>c, TouchType DEF HoAsk
  <2>2. hw[w].typ \in 8 .. 10
    BY <1>5, <1>c DEF HoAsk, HwAt, HoTypeOK
  <2>3. [typ |-> hw[w].typ, w |-> w, teid |-> AmfCteidUpf, arg |-> hw[w].arg]
           \in HoRequests
    BY <1>c, <2>2, HandoverConstants DEF HoRequests
  <2>4. hq' \in Seq(HoRequests)
    BY <1>5, <1>b, <2>3, QueueType DEF HoAsk
  <2>5. /\ hw' \in [Workers -> HwStates]
        /\ \A x \in Workers : hw'[x].pc = "ask" => hw'[x].typ # 7
    BY <1>5, WorkerMoves DEF HoAsk
  <2>. QED  BY <1>0, <1>5, <1>a, <1>b, <2>1, <2>4, <2>5 DEF HoAsk, hwFrame
<1>6. CASE HoAnswered(w)
  <2>1. /\ hw' \in [Workers -> HwStates]
        /\ \A x \in Workers : hw'[x].pc = "ask" => hw'[x].typ # 7
    BY <1>6, WorkerMoves DEF HoAnswered
  <2>. QED  BY <1>0, <1>6, <1>a, <1>b, <2>1 DEF HoAnswered, hwFrame
<1>7. CASE HoTimeout(w)
  <2>1. hq' \in Seq(HoRequests) /\ hu' \in [UpfThreads -> HuStates]
    BY <1>7, UnsocketType DEF HoTimeout
  <2>2. ho_timeouts' \in 0 .. MaxHoTimeouts
    BY <1>7, <1>b, MaxHoTimeoutsAssumption DEF HoTimeout
  <2>3. /\ hw' \in [Workers -> HwStates]
        /\ \A x \in Workers : hw'[x].pc = "ask" => hw'[x].typ # 7
    BY <1>7, WorkerMoves DEF HoTimeout
  <2>. QED  BY <1>0, <1>7, <1>a, <1>b, <2>1, <2>2, <2>3 DEF HoTimeout
<1>8. CASE TellTarget(w)
  <2>1. [enb |-> hw[w].arg, mme |-> hw[w].mme, ul |-> AmfUteidUl] \in HoToTargets
    BY <1>c, HandoverConstants DEF HoToTargets
  <2>2. to_tgt' \in [Ues -> SUBSET HoToTargets]
    BY <1>8, <1>b, <1>c, <2>1 DEF TellTarget
  <2>3. /\ hw' \in [Workers -> HwStates]
        /\ \A x \in Workers : hw'[x].pc = "ask" => hw'[x].typ # 7
    BY <1>8, WorkerMoves DEF TellTarget
  <2>. QED  BY <1>0, <1>8, <1>a, <1>b, <2>2, <2>3 DEF TellTarget, hwFrame
<1>9. CASE TellSource(w)
  <2>1. [typ |-> hw[w].typ, arg |-> hw[w].arg] \in HoToSources
    BY <1>c DEF HoToSources
  <2>2. to_src' \in [Ues -> SUBSET HoToSources]
    BY <1>9, <1>b, <1>c, <2>1 DEF TellSource
  <2>3. /\ hw' \in [Workers -> HwStates]
        /\ \A x \in Workers : hw'[x].pc = "ask" => hw'[x].typ # 7
    BY <1>9, WorkerMoves DEF TellSource
  <2>. QED  BY <1>0, <1>9, <1>a, <1>b, <2>2, <2>3 DEF TellSource, hwFrame
<1>10. CASE TellNothing(w)
  <2>1. /\ hw' \in [Workers -> HwStates]
        /\ \A x \in Workers : hw'[x].pc = "ask" => hw'[x].typ # 7
    BY <1>10, WorkerMoves DEF TellNothing
  <2>. QED  BY <1>0, <1>10, <1>a, <1>b, <2>1 DEF TellNothing, hwFrame
<1>. QED
  BY <1>1, <1>2, <1>3, <1>4, <1>5, <1>6, <1>7, <1>8, <1>9, <1>10
     DEF HoAmf, HoRuns, HoAccepted

\* The teid of the context the AMF asks for leads to subscriber 0 or nowhere,
\* and the teid in that subscriber's context is 0.
LEMMA AskedForFirst ==
    ASSUME TypeOK, SessionTeidsOwned
    PROVE  /\ s11_id[AmfCteidUpf] \in {0, Imsi(0)}
           /\ \A i \in {0, Imsi(0)} : UpfTeidOf(i) = 0
<1>1. s11_id[0] \in {0} \cup Imsis
  BY HandoverConstants DEF TypeOK, UpfTypeOK
<1>2. s11_id[0] # 0 => 0 = s11_id[0] - 1
  BY <1>1, HandoverConstants DEF SessionTeidsOwned
<1>3. s11_id[0] \in {0, 1}
  BY <1>1, <1>2 DEF Imsis
<1>4. upf_ctx[1].s11_cteid = 0
  BY HandoverConstants DEF SessionTeidsOwned
<1>. QED  BY <1>3, <1>4, HandoverConstants DEF UpfTeidOf

\* A thread of the UPF that moves on in a handover handler.
LEMMA ThreadMoves ==
    ASSUME HoTypeOK, NEW t \in UpfThreads,
           NEW pc \in {"erase", "remove", "send"}, HuGoto(t, pc)
    PROVE  hu' \in [UpfThreads -> HuStates]
<1> DEFINE r == [hu[t] EXCEPT !.pc = pc]
<1>0. hu[t] \in HuStates
  BY HandlerRegisters
<1>1. r \in HuStates
  BY <1>0 DEF HuStates
<1>2. hu' = [hu EXCEPT ![t] = r]
  BY DEF HuGoto
<1> HIDE DEF r
<1>. QED  BY <1>1, <1>2 DEF HoTypeOK

\* The handlers of the UPF (upf.cpp:391-514).  They leave every session teid
\* where it is.
LEMMA UpfHandoverType ==
    ASSUME TypeOK, HoTypeOK, SessionTeidsOwned, NEW t \in UpfThreads, HoUpf(t)
    PROVE  TypeOK' /\ HoTypeOK' /\ SessionTeidsOwned'
<1>0. /\ s1_id \in [Teids -> {0} \cup Imsis] /\ upf_ctx \in [Imsis -> UpfContexts]
      /\ \A i \in Imsis : upf_ctx[i] \in UpfContexts
  BY DEF TypeOK, UpfTypeOK
<1>b. /\ hw \in [Workers -> HwStates]
      /\ \A x \in Workers : hw[x].pc = "ask" => hw[x].typ # 7
      /\ hq \in Seq(HoRequests) /\ hu \in [UpfThreads -> HuStates]
      /\ ho_ue_ctx \in [Imsis -> Teids \cup {NoTeid}]
  BY DEF HoTypeOK
<1>c. /\ hu[t] \in HuStates /\ hu[t].arg \in Teids /\ hu[t].w \in 0 .. Nobody
      /\ hu[t].imsi \in {0, Imsi(0)} /\ hu[t].imsi \in {0} \cup Imsis
      /\ hu[t].teid = AmfCteidUpf
  BY HandlerRegisters, HandoverConstants
<1>a. ASSUME UNCHANGED huFrame,
             s1_id' \in [Teids -> {0} \cup Imsis],
             upf_ctx' \in [Imsis -> UpfContexts],
             \A i \in Imsis : upf_ctx'[i].s11_cteid = upf_ctx[i].s11_cteid,
             hw' \in [Workers -> HwStates],
             \A x \in Workers : hw'[x].pc = "ask" => hw'[x].typ # 7,
             hq' \in Seq(HoRequests), hu' \in [UpfThreads -> HuStates],
             ho_ue_ctx' \in [Imsis -> Teids \cup {NoTeid}]
      PROVE  TypeOK' /\ HoTypeOK' /\ SessionTeidsOwned'
  <2> USE <1>a DEF TypeOK, huFrame
  <2>1. PlatformTypeOK' /\ UdmTypeOK' /\ SmfTypeOK'
    BY DEF PlatformTypeOK, UdmTypeOK, udmVars, SmfTypeOK, smfVars
  <2>2. UpfTypeOK'
    BY DEF UpfTypeOK, n4Vars
  <2>3. ServerTypeOK' /\ AmfTypeOK' /\ RanTypeOK'
    BY DEF ServerTypeOK, serverVars, linkVars, AmfTypeOK, amfVars, RanTypeOK, ranVars
  <2>4. HoTypeOK'
    BY DEF HoTypeOK
  <2>5. SessionTeidsOwned'
    BY DEF SessionTeidsOwned
  <2>. QED  BY <2>1, <2>2, <2>3, <2>4, <2>5
<1>d. ASSUME NEW i \in {0} \cup Imsis, NEW c \in UpfContexts,
             i # 0 => c.s11_cteid = upf_ctx[i].s11_cteid,
             upf_ctx' = IF i = 0 THEN upf_ctx ELSE [upf_ctx EXCEPT ![i] = c]
      PROVE  /\ upf_ctx' \in [Imsis -> UpfContexts]
             /\ \A j \in Imsis : upf_ctx'[j].s11_cteid = upf_ctx[j].s11_cteid
  BY <1>0, <1>d
<1>e. ASSUME NEW i \in {0} \cup Imsis, TouchUpfContext(i)
      PROVE  /\ upf_ctx' \in [Imsis -> UpfContexts]
             /\ \A j \in Imsis : upf_ctx'[j].s11_cteid = upf_ctx[j].s11_cteid
  <2>1. CASE i = 0
    BY <1>0, <1>e, <2>1 DEF TouchUpfContext
  <2>2. CASE i # 0
    <3>1. PICK c \in Looked(i) : upf_ctx' = [upf_ctx EXCEPT ![i] = c]
      BY <1>e, <2>2 DEF TouchUpfContext
    <3>2. c \in UpfContexts /\ c.s11_cteid = upf_ctx[i].s11_cteid
      BY <1>0, <2>2, LookFinds
    <3>. QED  BY <1>0, <3>1, <3>2
  <2>. QED  BY <2>1, <2>2
<1>1. CASE HoUpfReceive(t)
  <2> DEFINE m == Head(hq)
             r == [pc |-> "lookup", typ |-> m.typ, w |-> m.w, teid |-> m.teid,
                   arg |-> m.arg, imsi |-> 0]
  <2>1. m \in HoRequests /\ Tail(hq) \in Seq(HoRequests)
    BY <1>1, <1>b, QueueType DEF HoUpfReceive
  <2>2. r \in HuStates
    BY <2>1 DEF HoRequests, HuStates
  <2>3. hu' = [hu EXCEPT ![t] = r]
    BY <1>1 DEF HoUpfReceive
  <2> HIDE DEF r
  <2>4. hu' \in [UpfThreads -> HuStates]
    BY <1>b, <2>2, <2>3
  <2>. QED  BY <1>0, <1>1, <1>a, <1>b, <2>1, <2>4 DEF HoUpfReceive
<1>2. CASE HoUpfLookup(t)
  <2> DEFINE r == [hu[t] EXCEPT !.imsi = s11_id[hu[t].teid], !.pc = "ctx"]
  <2>1. s11_id[hu[t].teid] \in {0, Imsi(0)}
    BY <1>c, AskedForFirst
  <2>2. r \in HuStates
    BY <1>c, <2>1 DEF HuStates
  <2>3. hu' = [hu EXCEPT ![t] = r]
    BY <1>2 DEF HoUpfLookup
  <2> HIDE DEF r
  <2>4. hu' \in [UpfThreads -> HuStates]
    BY <1>b, <2>2, <2>3
  <2>. QED  BY <1>0, <1>2, <1>a, <1>b, <2>4 DEF HoUpfLookup
<1>3. CASE SetupContext(t)
  <2> DEFINE i == hu[t].imsi
             r == [hu[t] EXCEPT !.arg = UpfTeidOf(i) + 1, !.pc = "enter"]
  <2>1. UpfTeidOf(i) + 1 \in Teids
    BY <1>c, AskedForFirst, HandoverConstants
  <2>2. r \in HuStates
    BY <1>c, <2>1 DEF HuStates
  <2>3. hu' = [hu EXCEPT ![t] = r]
    BY <1>3 DEF SetupContext
  <2>a. /\ ho_ue_ctx' = IF i = 0 THEN ho_ue_ctx ELSE [ho_ue_ctx EXCEPT ![i] = hu[t].arg]
        /\ TouchUpfContext(i)
    BY <1>3 DEF SetupContext
  <2>b. i \in {0} \cup Imsis
    BY <1>c
  <2> HIDE DEF r, i
  <2>4. hu' \in [UpfThreads -> HuStates]
    BY <1>b, <2>2, <2>3
  <2>5. /\ upf_ctx' \in [Imsis -> UpfContexts]
        /\ \A j \in Imsis : upf_ctx'[j].s11_cteid = upf_ctx[j].s11_cteid
    BY <1>e, <2>a, <2>b
  <2>6. ho_ue_ctx' \in [Imsis -> Teids \cup {NoTeid}]
    BY <1>b, <1>c, <2>a, <2>b
  <2>. QED  BY <1>0, <1>3, <1>a, <1>b, <2>4, <2>5, <2>6 DEF SetupContext
<1>4. CASE SetupEnter(t)
  <2>1. hu' \in [UpfThreads -> HuStates]
    BY <1>4, ThreadMoves DEF SetupEnter
  <2>2. s1_id' \in [Teids -> {0} \cup Imsis]
    BY <1>0, <1>4, <1>c DEF SetupEnter
  <2>. QED  BY <1>0, <1>4, <1>a, <1>b, <2>1, <2>2 DEF SetupEnter
<1>5. CASE CompletionContext(t)
  <2> DEFINE i == hu[t].imsi
  <2>1. hu' \in [UpfThreads -> HuStates]
    BY <1>5, ThreadMoves DEF CompletionContext
  <2>2. i \in {0} \cup Imsis
    BY <1>c
  <2>3. /\ upf_ctx' \in [Imsis -> UpfContexts]
        /\ \A j \in Imsis : upf_ctx'[j].s11_cteid = upf_ctx[j].s11_cteid
    <3>1. CASE i = 0
      BY <1>0, <1>5, <3>1 DEF CompletionContext
    <3>2. CASE i # 0
      <4>1. PICK ctx \in Looked(i),
                 dl \in IF ho_ue_ctx[i] = NoTeid THEN Teids ELSE {ho_ue_ctx[i]} :
               upf_ctx' = [upf_ctx EXCEPT ![i] = [ctx EXCEPT !.s1_uteid_dl = dl]]
        BY <1>5, <3>2 DEF CompletionContext
      <4>2. dl \in Teids
        BY <1>b, <2>2, <3>2
      <4> DEFINE c == [ctx EXCEPT !.s1_uteid_dl = dl]
      <4>3. c \in UpfContexts /\ c.s11_cteid = upf_ctx[i].s11_cteid
        BY <1>0, <2>2, <3>2, <4>2, LookFinds DEF UpfContexts
      <4>4. upf_ctx' = [upf_ctx EXCEPT ![i] = c]
        BY <4>1
      <4> HIDE DEF c, i
      <4>. QED  BY <1>0, <2>2, <3>2, <4>3, <4>4
    <3>. QED  BY <3>1, <3>2
  <2>. QED  BY <1>0, <1>5, <1>a, <1>b, <2>1, <2>3 DEF CompletionContext
<1>6. CASE CompletionErase(t)
  <2>1. hu' \in [UpfThreads -> HuStates]
    BY <1>6, ThreadMoves DEF CompletionErase
  <2>2. ho_ue_ctx' \in [Imsis -> Teids \cup {NoTeid}]
    BY <1>6, <1>b, <1>c DEF CompletionErase
  <2>. QED  BY <1>0, <1>6, <1>a, <1>b, <2>1, <2>2 DEF CompletionErase
<1>7. CASE TeardownContext(t)
  <2> DEFINE i == hu[t].imsi
  <2>1. hu' \in [UpfThreads -> HuStates]
    BY <1>7, ThreadMoves DEF TeardownContext
  <2>2. i \in {0} \cup Imsis
    BY <1>c
  <2>3. TouchUpfContext(i)
    BY <1>7 DEF TeardownContext
  <2> HIDE DEF i
  <2>4. /\ upf_ctx' \in [Imsis -> UpfContexts]
        /\ \A j \in Imsis : upf_ctx'[j].s11_cteid = upf_ctx[j].s11_cteid
    BY <1>e, <2>2, <2>3
  <2>. QED  BY <1>0, <1>7, <1>a, <1>b, <2>1, <2>4 DEF TeardownContext
<1>8. CASE TeardownRemove(t)
  <2>1. hu' \in [UpfThreads -> HuStates]
    BY <1>8, ThreadMoves DEF TeardownRemove
  <2>2. s1_id' \in [Teids -> {0} \cup Imsis]
    BY <1>0, <1>8, <1>c DEF TeardownRemove
  <2>. QED  BY <1>0, <1>8, <1>a, <1>b, <2>1, <2>2 DEF TeardownRemove
<1>9. CASE HoUpfSend(t)
  <2>1. hu' \in [UpfThreads -> HuStates]
    BY <1>9, <1>b, HandlerRegisters DEF HoUpfSend
  <2>2. /\ hw' \in [Workers -> HwStates]
        /\ \A x \in Workers : hw'[x].pc = "ask" => hw'[x].typ # 7
    <3>1. CASE hu[t].w = Nobody
      BY <1>9, <1>b, <3>1 DEF HoUpfSend
    <3>2. CASE hu[t].w # Nobody
      <4> DEFINE x == hu[t].w
                 r == [hw[x] EXCEPT !.arg = hu[t].arg, !.pc = "answered"]
      <4>1. x \in Workers
        BY <1>c, <3>2, HandoverConstants
      <4>2. hw[x] \in HwStates
        BY <1>b, <4>1
      <4>3. r \in HwStates /\ r.pc # "ask"
        BY <1>c, <4>2 DEF HwStates
      <4>4. hw' = [hw EXCEPT ![x] = r]
        BY <1>9, <3>2 DEF HoUpfSend
      <4> HIDE DEF r, x
      <4>. QED  BY <4>1, <4>3, <4>4, WorkerTakes
    <3>. QED  BY <3>1, <3>2
  <2>. QED  BY <1>0, <1>9, <1>a, <1>b, <2>1, <2>2 DEF HoUpfSend
<1>. QED
  BY <1>1, <1>2, <1>3, <1>4, <1>5, <1>6, <1>7, <1>8, <1>9 DEF HoUpf

\* A teid enters a table or a context only beside the IMSI it belongs to.
LEMMA SessionTeidsThread ==
    ASSUME UpfTypeOK, UpfEntersOwn, SessionTeidsOwned,
           NEW t \in UpfThreads, UpfThread(t)
    PROVE  SessionTeidsOwned'
<1>0. /\ upf[t].imsi \in {0} \cup Imsis /\ upf[t].teid \in Teids
      /\ upf_ctx \in [Imsis -> UpfContexts] /\ s11_id \in [Teids -> {0} \cup Imsis]
  BY DEF UpfTypeOK, UpfThreadStates
<1>a. ASSUME UNCHANGED upf_ctx,
             \A x \in Teids : s11_id'[x] # 0 => x = TeidOf(s11_id'[x])
      PROVE  SessionTeidsOwned'
  BY <1>a DEF SessionTeidsOwned
<1>b. ASSUME UNCHANGED s11_id, NEW i, NEW c,
             upf_ctx' = [upf_ctx EXCEPT ![i] = c],
             i \in Imsis => c.s11_cteid \in {0, TeidOf(i)}
      PROVE  SessionTeidsOwned'
  BY <1>0, <1>b DEF SessionTeidsOwned
<1>1. CASE CreateS11(t)
  <2>1. OwnTeid(upf[t].imsi, upf[t].teid)
    BY <1>1 DEF CreateS11, UpfEntersOwn, CreatePcs
  <2>. QED  BY <1>0, <1>1, <1>a, <2>1 DEF CreateS11, SessionTeidsOwned, OwnTeid
<1>2. CASE CreateContext(t)
  <2> DEFINE i == upf[t].imsi
             c == [upf_ctx[i] EXCEPT !.present = TRUE, !.ip_addr = upf[t].ip,
                                     !.s1_uteid_ul = upf[t].teid,
                                     !.s11_cteid = upf[t].teid]
  <2>2. OwnTeid(i, upf[t].teid)
    BY <1>2 DEF CreateContext, UpfEntersOwn, CreatePcs
  <2>3. ASSUME i \in Imsis PROVE c.s11_cteid = TeidOf(i)
    <3>1. upf_ctx[i] \in UpfContexts /\ i # 0
      BY <1>0, <2>3 DEF Imsis
    <3>. QED  BY <2>2, <3>1 DEF OwnTeid, UpfContexts
  <2>4. upf_ctx' = [upf_ctx EXCEPT ![i] = c] /\ UNCHANGED s11_id
    BY <1>2 DEF CreateContext
  <2> HIDE DEF c, i
  <2>. QED  BY <1>b, <2>3, <2>4
<1>3. CASE ModifyContext(t)
  <2> DEFINE i == upf[t].imsi
  <2>1. PICK ctx \in Looked(i) :
           upf_ctx' = [upf_ctx EXCEPT ![i] = [ctx EXCEPT !.s1_uteid_dl = upf[t].dl,
                                                         !.enodeb = TRUE]]
    BY <1>3 DEF ModifyContext
  <2> DEFINE c == [ctx EXCEPT !.s1_uteid_dl = upf[t].dl, !.enodeb = TRUE]
  <2>2. ASSUME i \in Imsis PROVE c.s11_cteid = upf_ctx[i].s11_cteid
    BY <1>0, <2>2, LookFinds DEF UpfContexts
  <2>3. upf_ctx' = [upf_ctx EXCEPT ![i] = c] /\ UNCHANGED s11_id
    BY <1>3, <2>1 DEF ModifyContext
  <2>4. i \in Imsis => c.s11_cteid \in {0, TeidOf(i)}
    BY <2>2 DEF SessionTeidsOwned
  <2> HIDE DEF c, i
  <2>. QED  BY <1>b, <2>3, <2>4
<1>4. CASE DetachS11(t)
  BY <1>0, <1>4, <1>a DEF DetachS11, SessionTeidsOwned
<1>5. CASE RemUpfContext(t)
  <2>2. NoUpfContext.s11_cteid = 0
    BY DEF NoUpfContext
  <2>. QED  BY <1>5, <1>b, <2>2 DEF RemUpfContext
<1>6. CASE UNCHANGED <<s11_id, upf_ctx>>
  BY <1>6 DEF SessionTeidsOwned
<1>. QED
  BY <1>1, <1>2, <1>3, <1>4, <1>5, <1>6 DEF UpfThread, UpfReceive, UpfSend, upfTables,
     CreateS1, CreateSgi, UpfLookup, DetachContext, DetachS1, DetachSgi

\* The step of a thread of the core that a handover does not see.
CoreStep ==
    \/ \E n \in Ues : RanStep(n)
    \/ AcceptStep
    \/ \E w \in Workers : AmfFree(w) /\ AmfStep(w)
    \/ \E w \in Workers : SmfStep(w)
    \/ \E t \in UpfThreads : hu[t].pc = "idle" /\ UpfStep(t)
    \/ AmfCrash \/ UNCHANGED vars

\* Every step is one of the core, which leaves the handover alone, or one of a
\* handover.
LEMMA HandoverSteps ==
    ASSUME [HoNext]_<<vars, hoVars>>
    PROVE  \/ CoreStep /\ [Next]_vars /\ UNCHANGED hoVars
           \/ \E n \in Ues : HoRan(n)
           \/ \E w \in Workers : HoAmf(w)
           \/ \E t \in UpfThreads : HoUpf(t)
<1>1. CASE HoFinished
  BY <1>1 DEF HoFinished, Finished, CoreStep
<1>2. CASE UNCHANGED <<vars, hoVars>>
  BY <1>2 DEF CoreStep
<1>. QED  BY <1>1, <1>2 DEF HoNext, Next, CoreStep

\* The first four of the invariants: the types, and what they rest on.
HandoverTypesInv == TypeOK /\ HoTypeOK /\ ImsiTravels /\ SessionTeidsOwned

\* No handover is under way at the start.
LEMMA HandoverTypesInit == Init /\ HoInit => HandoverTypesInv
<1> SUFFICES ASSUME Init, HoInit PROVE HandoverTypesInv
  OBVIOUS
<1>1. TypeOK
  BY InitType
<1>2. ImsiTravels
  BY LookupInit DEF LookupInv
<1>3. SessionTeidsOwned
  BY DEF Init, UpfInit, NoUpfContext, SessionTeidsOwned
<1>4. HoTypeOK
  <2>1. NewHo \in HoContexts
    BY MaxCyclesAssumption, HandoverConstants DEF NewHo, HoContexts
  <2>2. IdleHw \in HwStates /\ IdleHu \in HuStates /\ IdleHw.pc # "ask"
    BY HandoverConstants DEF HwStates, HuStates, IdleHw, IdleHu
  <2>. QED
    BY <2>1, <2>2, MaxHoTimeoutsAssumption, HandoverConstants DEF HoInit, HoTypeOK
<1>. QED  BY <1>1, <1>2, <1>3, <1>4 DEF HandoverTypesInv

\* An IMSI stays with its GUTI and its teid wherever a handover is: no handler
\* of it touches what carries them.
LEMMA HandoverTravels ==
    ASSUME ImsiTravels, UNCHANGED <<amf, udm_ctx, smf, n4_req, upf>>
    PROVE  ImsiTravels'
BY DEF ImsiTravels, AmfCarriesOwn, UdmHoldsOwn, SmfAsksOwn, N4CarriesOwn, UpfEntersOwn

\* Every step keeps them.
LEMMA HandoverTypesStep ==
    ASSUME HandoverTypesInv, [HoNext]_<<vars, hoVars>>
    PROVE  HandoverTypesInv'
<1> USE DEF HandoverTypesInv
<1>a. UNCHANGED <<s11_id, upf_ctx>> => SessionTeidsOwned'
  BY DEF SessionTeidsOwned
<1>1. CASE CoreStep /\ [Next]_vars /\ UNCHANGED hoVars
  <2>1. TypeOK' /\ ImsiTravels'
    BY <1>1, NextType, TravelStep
  <2>2. HoTypeOK'
    BY <1>1 DEF HoTypeOK, hoVars
  <2>3. CASE \E t \in UpfThreads : UpfStep(t)
    <3>1. UpfTypeOK /\ UpfEntersOwn
      BY DEF TypeOK, ImsiTravels
    <3>. QED  BY <2>1, <2>2, <2>3, <3>1, SessionTeidsThread DEF UpfStep
  <2>4. CASE ~\E t \in UpfThreads : UpfStep(t)
    BY <1>1, <1>a, <2>1, <2>2, <2>4, TableSteps DEF upfTables
  <2>. QED  BY <2>3, <2>4
<1>2. ASSUME NEW n \in Ues, HoRan(n) PROVE HandoverTypesInv'
  <2>1. UNCHANGED <<udmVars, upfVars, smfVars, amfVars>>
    BY <1>2 DEF HoRan, InitiateHandover, HandleHandover, IndirectTunnelComplete,
       CompleteHandover, RequestTearDown, ranFrame
  <2>2. UNCHANGED <<amf, udm_ctx, smf, n4_req, upf, s11_id, upf_ctx>>
    BY <2>1 DEF udmVars, upfVars, smfVars, amfVars
  <2>. QED  BY <1>2, <1>a, <2>2, RanHandoverType, HandoverTravels
<1>3. ASSUME NEW w \in Workers, HoAmf(w) PROVE HandoverTypesInv'
  <2>1. UNCHANGED <<udmVars, upfVars, smfVars, amf>>
    BY <1>3 DEF HoAmf, HoRuns, HoAccepted, HoReceive, HoReceiveTarget, HoLookup,
       RequestTarget, HoAsk, HoAnswered, HoTimeout, TellTarget, TellSource,
       TellNothing, hwFrame
  <2>2. UNCHANGED <<amf, udm_ctx, smf, n4_req, upf, s11_id, upf_ctx>>
    BY <2>1 DEF udmVars, upfVars, smfVars
  <2>. QED  BY <1>3, <1>a, <2>2, AmfHandoverType, HandoverTravels
<1>4. ASSUME NEW t \in UpfThreads, HoUpf(t) PROVE HandoverTypesInv'
  <2>1. UNCHANGED huFrame
    BY <1>4 DEF HoUpf, HoUpfReceive, HoUpfLookup, SetupContext, SetupEnter,
       CompletionContext, CompletionErase, TeardownContext, TeardownRemove, HoUpfSend
  <2>2. UNCHANGED <<amf, udm_ctx, smf, n4_req, upf>>
    BY <2>1 DEF huFrame, udmVars, smfVars, amfVars, n4Vars
  <2>. QED  BY <1>4, <2>2, UpfHandoverType, HandoverTravels
<1>. QED  BY <1>1, <1>2, <1>3, <1>4, HandoverSteps

\* The whole of it, for every number of handovers.
LEMMA HandoverTypesHold == HoSpec => []HandoverTypesInv
<1>1. HandoverTypesInv /\ [HoNext]_<<vars, hoVars>> => HandoverTypesInv'
  BY HandoverTypesStep
<1>. QED  BY <1>1, HandoverTypesInit, PTL DEF HoSpec

\* What a handover keeps and sends is what the next reader of it expects, and
\* so is what the core does beside it.  That the teid an indirect tunnel gets is
\* one at all rests on whom the AMF asks for: its own context was never told a
\* teid (amf.cpp, setup_indirect_tunnel), so the UPF finds the subscriber of
\* teid 0 or nobody, and the teid it adds one to is that subscriber's.
THEOREM HandoverTypes == HoSpec => [](TypeOK /\ HoTypeOK)
<1>1. HandoverTypesInv => TypeOK /\ HoTypeOK
  BY DEF HandoverTypesInv
<1>. QED  BY <1>1, HandoverTypesHold, PTL

----------------------------------------------------------------------------
(* The sockets of the handlers                                             *)

\* The requests in the queue, one by one.
LEMMA RequestFacts ==
    ASSUME HoTypeOK
    PROVE  /\ hq \in Seq(HoRequests) /\ Len(hq) \in Nat /\ DOMAIN hq = 1 .. Len(hq)
           /\ \A i \in DOMAIN hq : /\ hq[i] \in HoRequests /\ hq[i].w \in 0 .. Nobody
                                   /\ hq[i].typ \in 8 .. 10
<1>1. hq \in Seq(HoRequests)
  BY DEF HoTypeOK
<1>2. \A r \in HoRequests : r.w \in 0 .. Nobody /\ r.typ \in 8 .. 10
  BY DEF HoRequests
<1>. QED  BY <1>1, <1>2

\* A worker that does not wait has its socket in no request.
LEMMA SocketOutside ==
    ASSUME SocketsOK, NEW w \in Workers, hw[w].pc # "wait"
    PROVE  /\ \A i \in DOMAIN hq : hq[i].w # w
           /\ \A t \in UpfThreads : Asks(t) => hu[t].w # w
BY HandoverConstants DEF SocketsOK, WaitsFor

\* It may do what it likes.
LEMMA SocketFree ==
    ASSUME SocketsOK, HoTypeOK, NEW w \in Workers, hw[w].pc # "wait",
           NEW r, hw' = [hw EXCEPT ![w] = r], UNCHANGED <<hq, hu>>
    PROVE  SocketsOK'
<1>1. \A x \in 0 .. Nobody : x # w => hw'[x] = hw[x]
  BY DEF HoTypeOK
<1>2. \A i \in DOMAIN hq : hq[i].w # w /\ hq[i].w \in 0 .. Nobody
  BY SocketOutside, RequestFacts
<1>3. \A t \in UpfThreads : Asks(t) => hu[t].w # w /\ hu[t].w \in 0 .. Nobody
  BY SocketOutside, HandlerRegisters
<1>4. \A i \in DOMAIN hq' : WaitsFor(hq[i])'
  BY <1>1, <1>2 DEF SocketsOK, WaitsFor
<1>5. \A t \in UpfThreads : Asks(t)' => WaitsFor(hu[t])'
  BY <1>1, <1>3 DEF SocketsOK, WaitsFor, Asks
<1>6. UNCHANGED <<hq, hu>> /\ \A t \in UpfThreads : Asks(t)' <=> Asks(t)
  BY DEF Asks
<1>. QED  BY <1>4, <1>5, <1>6 DEF SocketsOK

\* The request of a handler joins the queue with a socket that is in no other.
LEMMA SocketAsks ==
    ASSUME SocketsOK, HoTypeOK, NEW w \in Workers, HoAsk(w)
    PROVE  SocketsOK'
<1>0. hw[w].pc = "ask" /\ UNCHANGED hu
  BY DEF HoAsk, HwAt, hwFrame
<1>a. hw' = [hw EXCEPT ![w] = [hw[w] EXCEPT !.pc = "wait"]]
  BY DEF HoAsk, HwGoto
<1>1. CASE ~N4PortsMatch
  <2>1. UNCHANGED <<hq, hu>>
    BY <1>0, <1>1 DEF HoAsk
  <2>. QED  BY <1>0, <1>a, <2>1, SocketFree
<1>2. CASE N4PortsMatch
  <2> DEFINE m == [typ |-> hw[w].typ, w |-> w, teid |-> AmfCteidUpf, arg |-> hw[w].arg]
             last == Len(hq) + 1
  <2>0. m.typ = hw[w].typ /\ m.w = w
    OBVIOUS
  <2>1. hq' = Append(hq, m)
    BY <1>2 DEF HoAsk
  <2> HIDE DEF m
  <2>2. /\ DOMAIN hq' = 1 .. last /\ hq'[last] = m /\ last \in Nat
        /\ \A i \in DOMAIN hq : hq'[i] = hq[i] /\ i # last
        /\ \A i \in DOMAIN hq' : i = last \/ i \in DOMAIN hq
    BY <2>1, RequestFacts
  <2> HIDE DEF last
  <2>3. \A i \in DOMAIN hq : hq[i].w # w /\ hq[i].w \in 0 .. Nobody
    BY <1>0, SocketOutside, RequestFacts
  <2>4. \A t \in UpfThreads : Asks(t) => hu[t].w # w /\ hu[t].w \in 0 .. Nobody
    BY <1>0, SocketOutside, HandlerRegisters
  <2>5. /\ \A x \in 0 .. Nobody : x # w => hw'[x] = hw[x]
        /\ hw'[w].pc = "wait" /\ hw'[w].typ = hw[w].typ
    <3>1. hw \in [Workers -> HwStates] /\ hw[w] \in HwStates
      BY DEF HoTypeOK
    <3>. QED  BY <1>a, <3>1 DEF HwStates
  <2>6. \A t \in UpfThreads : hu'[t] = hu[t] /\ (Asks(t)' <=> Asks(t))
    BY <1>0 DEF Asks
  <2>7. \A i \in DOMAIN hq' : WaitsFor(hq[i])'
    <3> SUFFICES ASSUME NEW i \in DOMAIN hq' PROVE WaitsFor(hq[i])'
      OBVIOUS
    <3>1. CASE i = last
      BY <2>0, <2>2, <2>5, <3>1 DEF WaitsFor
    <3>2. CASE i \in DOMAIN hq
      BY <2>2, <2>3, <2>5, <3>2 DEF WaitsFor, SocketsOK
    <3>. QED  BY <2>2, <3>1, <3>2
  <2>8. \A t \in UpfThreads : Asks(t)' => WaitsFor(hu[t])'
    BY <2>4, <2>5, <2>6 DEF WaitsFor, SocketsOK
  <2>9. \A i, j \in DOMAIN hq' : hq'[i].w = hq'[j].w /\ hq'[i].w # Nobody => i = j
    <3> SUFFICES ASSUME NEW i \in DOMAIN hq', NEW j \in DOMAIN hq',
                        hq'[i].w = hq'[j].w, hq'[i].w # Nobody
                 PROVE  i = j
      BY Zenon
    <3>1. CASE i \in DOMAIN hq /\ j \in DOMAIN hq
      BY <2>2, <3>1 DEF SocketsOK
    <3>2. CASE i = last \/ j = last
      BY <2>0, <2>2, <2>3, <3>2
    <3>. QED  BY <2>2, <3>1, <3>2
  <2>10. \A s, t \in UpfThreads :
            Asks(s)' /\ Asks(t)' /\ hu'[s].w = hu'[t].w /\ hu'[s].w # Nobody => s = t
    BY <2>6 DEF SocketsOK
  <2>11. \A i \in DOMAIN hq', t \in UpfThreads :
            Asks(t)' /\ hq'[i].w = hu'[t].w => hq'[i].w = Nobody
    <3> SUFFICES ASSUME NEW i \in DOMAIN hq', NEW t \in UpfThreads,
                        Asks(t)', hq'[i].w = hu'[t].w
                 PROVE  hq'[i].w = Nobody
      BY Zenon
    <3>1. CASE i = last
      BY <2>0, <2>2, <2>4, <2>6, <3>1
    <3>2. CASE i \in DOMAIN hq
      BY <2>2, <2>6, <3>2 DEF SocketsOK
    <3>. QED  BY <2>2, <3>1, <3>2
  <2>. QED  BY <2>7, <2>8, <2>9, <2>10, <2>11 DEF SocketsOK
<1>. QED  BY <1>1, <1>2

\* A handler that gives up is in no request any more.
LEMMA SocketGone ==
    ASSUME SocketsOK, HoTypeOK, NEW w \in Workers, HoTimeout(w)
    PROVE  SocketsOK'
<1>1. /\ hq' = [i \in DOMAIN hq |-> Unsocket(hq[i], w)]
      /\ hu' = [t \in UpfThreads |-> Unsocket(hu[t], w)]
      /\ \E r : hw' = [hw EXCEPT ![w] = r]
  BY Zenon DEF HoTimeout, HwReturn, HwGoto
<1>a. \A r \in HoRequests \cup HuStates :
         /\ Unsocket(r, w).typ = r.typ
         /\ Unsocket(r, w).w \in {r.w, Nobody} /\ Unsocket(r, w).w # w
  <2>1. w # Nobody
    BY HandoverConstants
  <2>2. \A r \in HoRequests : /\ Unsocket(r, w).typ = r.typ
                              /\ Unsocket(r, w).w \in {r.w, Nobody}
                              /\ Unsocket(r, w).w # w
    BY <2>1 DEF Unsocket, HoRequests
  <2>3. \A r \in HuStates : /\ Unsocket(r, w).typ = r.typ
                            /\ Unsocket(r, w).w \in {r.w, Nobody}
                            /\ Unsocket(r, w).w # w
    BY <2>1 DEF Unsocket, HuStates
  <2>. QED  BY <2>2, <2>3
<1>b. \A r \in HuStates : Unsocket(r, w).pc = r.pc
  BY DEF Unsocket, HuStates
<1>2. /\ DOMAIN hq' = DOMAIN hq
      /\ \A i \in DOMAIN hq : /\ hq'[i].typ = hq[i].typ
                              /\ hq'[i].w \in {hq[i].w, Nobody} /\ hq'[i].w # w
                              /\ hq[i].w \in 0 .. Nobody
  BY <1>1, <1>a, RequestFacts
<1>3. \A t \in UpfThreads : /\ hu'[t].typ = hu[t].typ /\ (Asks(t)' <=> Asks(t))
                            /\ hu'[t].w \in {hu[t].w, Nobody} /\ hu'[t].w # w
                            /\ hu[t].w \in 0 .. Nobody
  BY <1>1, <1>a, <1>b, HandlerRegisters DEF Asks
<1>4. \A x \in 0 .. Nobody : x # w => hw'[x] = hw[x]
  BY <1>1 DEF HoTypeOK
<1>5. \A i \in DOMAIN hq' : WaitsFor(hq[i])'
  BY <1>2, <1>4 DEF SocketsOK, WaitsFor
<1>6. \A t \in UpfThreads : Asks(t)' => WaitsFor(hu[t])'
  BY <1>3, <1>4 DEF SocketsOK, WaitsFor
<1>7. \A i, j \in DOMAIN hq' : hq'[i].w = hq'[j].w /\ hq'[i].w # Nobody => i = j
  BY <1>2 DEF SocketsOK
<1>8. \A s, t \in UpfThreads :
         Asks(s)' /\ Asks(t)' /\ hu'[s].w = hu'[t].w /\ hu'[s].w # Nobody => s = t
  BY <1>3 DEF SocketsOK
<1>9. \A i \in DOMAIN hq', t \in UpfThreads :
         Asks(t)' /\ hq'[i].w = hu'[t].w => hq'[i].w = Nobody
  BY <1>2, <1>3 DEF SocketsOK
<1>. QED  BY <1>5, <1>6, <1>7, <1>8, <1>9 DEF SocketsOK

\* The UPF takes the oldest request with its socket.
LEMMA SocketTaken ==
    ASSUME SocketsOK, HoTypeOK, NEW t \in UpfThreads, HoUpfReceive(t)
    PROVE  SocketsOK'
<1>1. hq # <<>> /\ hq' = Tail(hq) /\ UNCHANGED hw /\ ~Asks(t)
  BY DEF HoUpfReceive, HuAt, Asks
<1>2. /\ Len(hq) > 0 /\ Head(hq) = hq[1] /\ 1 \in DOMAIN hq
      /\ DOMAIN hq' = 1 .. (Len(hq) - 1)
      /\ \A i \in DOMAIN hq' : /\ hq'[i] = hq[i + 1] /\ i + 1 \in DOMAIN hq
                               /\ i + 1 # 1
      /\ \A i, j \in DOMAIN hq' : i + 1 = j + 1 => i = j
  BY <1>1, RequestFacts, EmptySeq, HeadTailProperties
<1>3. /\ hu'[t].w = hq[1].w /\ hu'[t].typ = hq[1].typ /\ Asks(t)'
      /\ \A s \in UpfThreads : s # t => hu'[s] = hu[s] /\ (Asks(s)' <=> Asks(s))
  BY <1>2 DEF HoUpfReceive, HoTypeOK, Asks
<1>4. \A i \in DOMAIN hq' : WaitsFor(hq[i])'
  BY <1>1, <1>2 DEF SocketsOK, WaitsFor
<1>5. \A s \in UpfThreads : Asks(s)' => WaitsFor(hu[s])'
  BY <1>1, <1>2, <1>3 DEF SocketsOK, WaitsFor
<1>6. \A i, j \in DOMAIN hq' : hq'[i].w = hq'[j].w /\ hq'[i].w # Nobody => i = j
  BY <1>2 DEF SocketsOK
<1>7. \A r, s \in UpfThreads :
         Asks(r)' /\ Asks(s)' /\ hu'[r].w = hu'[s].w /\ hu'[r].w # Nobody => r = s
  BY <1>2, <1>3 DEF SocketsOK
<1>8. \A i \in DOMAIN hq', s \in UpfThreads :
         Asks(s)' /\ hq'[i].w = hu'[s].w => hq'[i].w = Nobody
  BY <1>2, <1>3 DEF SocketsOK
<1>. QED  BY <1>4, <1>5, <1>6, <1>7, <1>8 DEF SocketsOK

\* A thread that works on a request keeps its socket and its type.
LEMMA SocketKept ==
    ASSUME SocketsOK, HoTypeOK, NEW t \in UpfThreads, Asks(t),
           NEW r, hu' = [hu EXCEPT ![t] = r], r.pc # "idle", r.w = hu[t].w,
           r.typ = hu[t].typ, UNCHANGED <<hw, hq>>
    PROVE  SocketsOK'
<1>1. \A s \in UpfThreads : /\ hu'[s].w = hu[s].w /\ hu'[s].typ = hu[s].typ
                            /\ Asks(s)' <=> Asks(s)
  BY DEF HoTypeOK, Asks
<1>2. UNCHANGED <<hw, hq>>
  OBVIOUS
<1>. QED  BY <1>1, <1>2 DEF SocketsOK, WaitsFor

\* An answer ends the wait of the one handler it goes to.
LEMMA SocketAnswered ==
    ASSUME SocketsOK, HoTypeOK, NEW t \in UpfThreads, HoUpfSend(t)
    PROVE  SocketsOK'
<1>1. /\ Asks(t) /\ UNCHANGED hq
      /\ hu' = [hu EXCEPT ![t] = IdleHu]
      /\ hu[t].w \in 0 .. Nobody
  BY HandlerRegisters DEF HoUpfSend, HuAt, Asks, huFrame
<1>2. /\ ~Asks(t)'
      /\ \A s \in UpfThreads : s # t => hu'[s] = hu[s] /\ (Asks(s)' <=> Asks(s))
  BY <1>1 DEF HoTypeOK, Asks, IdleHu
<1>3. \A x \in 0 .. Nobody : x # hu[t].w \/ x = Nobody => hw'[x] = hw[x]
  BY <1>1, HandoverConstants DEF HoUpfSend, HoTypeOK
<1>4. \A i \in DOMAIN hq' : WaitsFor(hq[i])'
  BY <1>1, <1>3, RequestFacts DEF SocketsOK, WaitsFor
<1>5. \A s \in UpfThreads : Asks(s)' => WaitsFor(hu[s])'
  BY <1>1, <1>2, <1>3, HandlerRegisters DEF SocketsOK, WaitsFor
<1>. QED  BY <1>1, <1>2, <1>4, <1>5 DEF SocketsOK

\* A socket is in one request, and the handler that made it waits for it.
LEMMA SocketsStep ==
    ASSUME HoTypeOK, SocketsOK, [HoNext]_<<vars, hoVars>>
    PROVE  SocketsOK'
<1>a. UNCHANGED <<hw, hq, hu>> => SocketsOK'
  BY DEF SocketsOK, WaitsFor, Asks
<1>1. CASE UNCHANGED hoVars
  BY <1>1, <1>a DEF hoVars
<1>2. ASSUME NEW n \in Ues, HoRan(n) PROVE SocketsOK'
  BY <1>2, <1>a DEF HoRan, InitiateHandover, HandleHandover, IndirectTunnelComplete,
     CompleteHandover, RequestTearDown, ranFrame
<1>3. ASSUME NEW w \in Workers, HoAmf(w) PROVE SocketsOK'
  <2>1. CASE HoAsk(w)
    BY <2>1, SocketAsks
  <2>2. CASE HoTimeout(w)
    BY <2>2, SocketGone
  <2>3. CASE ~HoAsk(w) /\ ~HoTimeout(w)
    <3>1. UNCHANGED <<hq, hu>> /\ hw[w].pc # "wait"
      BY <1>3, <2>3 DEF HoAmf, HoRuns, HoAccepted, HwAt, HoReceive, HoReceiveTarget,
         HoLookup, RequestTarget, HoAnswered, TellTarget, TellSource, TellNothing,
         hwFrame
    <3>2. \E r : hw' = [hw EXCEPT ![w] = r]
      BY <1>3, <2>3, Zenon DEF HoAmf, HoRuns, HoAccepted, HoServe, HwReturn, HwGoto,
         HoReceive, HoReceiveTarget, HoLookup, RequestTarget, HoAnswered, TellTarget,
         TellSource, TellNothing
    <3>. QED  BY <3>1, <3>2, SocketFree
  <2>. QED  BY <2>1, <2>2, <2>3
<1>4. ASSUME NEW t \in UpfThreads, HoUpf(t) PROVE SocketsOK'
  <2>0. hu[t] \in HuStates
    BY HandlerRegisters
  <2>a. ASSUME NEW pc \in {"erase", "remove", "send"}, HuGoto(t, pc), Asks(t),
               UNCHANGED <<hw, hq>>
        PROVE  SocketsOK'
    <3> DEFINE r == [hu[t] EXCEPT !.pc = pc]
    <3>1. r.pc # "idle" /\ r.w = hu[t].w /\ r.typ = hu[t].typ
      BY <2>0 DEF HuStates
    <3>2. hu' = [hu EXCEPT ![t] = r]
      BY <2>a DEF HuGoto
    <3> HIDE DEF r
    <3>. QED  BY <2>a, <3>1, <3>2, SocketKept
  <2>1. CASE HoUpfReceive(t)
    BY <2>1, SocketTaken
  <2>2. CASE HoUpfLookup(t)
    <3> DEFINE r == [hu[t] EXCEPT !.imsi = s11_id[hu[t].teid], !.pc = "ctx"]
    <3>1. r.pc # "idle" /\ r.w = hu[t].w /\ r.typ = hu[t].typ
      BY <2>0 DEF HuStates
    <3>2. hu' = [hu EXCEPT ![t] = r] /\ Asks(t) /\ UNCHANGED <<hw, hq>>
      BY <2>2 DEF HoUpfLookup, HuAt, Asks
    <3> HIDE DEF r
    <3>. QED  BY <3>1, <3>2, SocketKept
  <2>3. CASE SetupContext(t)
    <3> DEFINE r == [hu[t] EXCEPT !.arg = UpfTeidOf(hu[t].imsi) + 1, !.pc = "enter"]
    <3>1. r.pc # "idle" /\ r.w = hu[t].w /\ r.typ = hu[t].typ
      BY <2>0 DEF HuStates
    <3>2. hu' = [hu EXCEPT ![t] = r] /\ Asks(t) /\ UNCHANGED <<hw, hq>>
      BY <2>3 DEF SetupContext, HuAt, Asks
    <3> HIDE DEF r
    <3>. QED  BY <3>1, <3>2, SocketKept
  <2>4. CASE SetupEnter(t)
    BY <2>4, <2>a DEF SetupEnter, HuAt, Asks
  <2>5. CASE CompletionContext(t)
    BY <2>5, <2>a DEF CompletionContext, HuAt, Asks
  <2>6. CASE CompletionErase(t)
    BY <2>6, <2>a DEF CompletionErase, HuAt, Asks
  <2>7. CASE TeardownContext(t)
    BY <2>7, <2>a DEF TeardownContext, HuAt, Asks
  <2>8. CASE TeardownRemove(t)
    BY <2>8, <2>a DEF TeardownRemove, HuAt, Asks
  <2>9. CASE HoUpfSend(t)
    BY <2>9, SocketAnswered
  <2>. QED
    BY <1>4, <2>1, <2>2, <2>3, <2>4, <2>5, <2>6, <2>7, <2>8, <2>9 DEF HoUpf
<1>. QED  BY <1>1, <1>2, <1>3, <1>4, HandoverSteps

----------------------------------------------------------------------------
(* A single subscriber: its setup is in one place                          *)

\* The numbers there are when there is one subscriber.
LEMMA OneSubscriber ==
    ASSUME UeCount = 1
    PROVE  Ues = {0} /\ Imsis = {1} /\ Teids = {0, 1}
BY DEF Ues, Imsis, Teids

\* T has at most one element if S has, and none if S has none.
Within(T, S) == \A x, y \in T : \E u, v \in S : u = v => x = y

\* What moves nowhere stays in one place.
LEMMA PlacesKeep ==
    ASSUME NEW S, NEW T, AtMostOne(S), \A p \in Places : Within(T[p], S[p])
    PROVE  /\ AtMostOne(T)
           /\ (\A p \in Places : S[p] = {}) => \A p \in Places : T[p] = {}
<1>1. \A p \in Places : T[p] # {} => S[p] # {}
  BY DEF Within
<1>2. ASSUME NEW p \in Places, NEW q \in Places, NEW x \in T[p], NEW y \in T[q]
      PROVE  p = q /\ x = y
  <2>1. PICK u \in S[p] : TRUE
    BY <1>1
  <2>2. PICK v \in S[q] : TRUE
    BY <1>1
  <2>3. p = q
    BY <2>1, <2>2 DEF AtMostOne
  <2>4. PICK a \in S[p], b \in S[p] : a = b => x = y
    BY <2>3 DEF Within
  <2>5. a = b
    BY <2>4 DEF AtMostOne
  <2>. QED  BY <2>3, <2>4, <2>5
<1>. QED  BY <1>1, <1>2 DEF AtMostOne

\* What leaves one place for another is in that one alone.
LEMMA PlacesMove ==
    ASSUME NEW S, NEW T, AtMostOne(S), NEW a \in Places, NEW b \in Places,
           S[a] # {}, NEW y, T[a] = {}, T[b] \subseteq {y},
           \A p \in Places \ {a, b} : Within(T[p], S[p])
    PROVE  AtMostOne(T)
<1>1. \A p \in Places \ {a, b} : S[p] = {}
  BY DEF AtMostOne
<1>2. \A p \in Places \ {a, b} : T[p] = {}
  BY <1>1 DEF Within
<1>3. \A p \in Places : p # b => T[p] = {}
  BY <1>2
<1>. QED  BY <1>3 DEF AtMostOne

\* The places, one by one.
LEMMA SetupPlaces ==
    /\ Setups["source"] = OfType(up[0], 7)
    /\ Setups["amf"] = {w \in Workers : HoldsSetup(hw[w])}
    /\ Setups["to_tgt"] = to_tgt[0]
    /\ Setups["target"] = OfType(t_up[0], 8)
    /\ Setups["queue"] = OfType(hq, 8)
    /\ Setups["upf"] = {t \in UpfThreads : Asks(t) /\ hu[t].typ = 8}
    /\ Setups["to_src"] = {m \in to_src[0] : m.typ = 8}
    /\ Setups["known"] = {n \in {0} : ho[n].src = 4}
BY DEF Setups, Places

\* The places after a step.
LEMMA SetupPlacesNext ==
    /\ Setups'["source"] = OfType(up'[0], 7)
    /\ Setups'["amf"] = {w \in Workers : HoldsSetup(hw'[w])}
    /\ Setups'["to_tgt"] = to_tgt'[0]
    /\ Setups'["target"] = OfType(t_up'[0], 8)
    /\ Setups'["queue"] = OfType(hq', 8)
    /\ Setups'["upf"] = {t \in UpfThreads : hu'[t].pc # "idle" /\ hu'[t].typ = 8}
    /\ Setups'["to_src"] = {m \in to_src'[0] : m.typ = 8}
    /\ Setups'["known"] = {n \in {0} : ho'[n].src = 4}
BY DEF Setups, Places, Asks

\* Places a step leaves alone.
LEMMA PlaceFrames ==
    /\ up'[0] = up[0] => Setups'["source"] = Setups["source"]
    /\ UNCHANGED hw => Setups'["amf"] = Setups["amf"]
    /\ UNCHANGED to_tgt => Setups'["to_tgt"] = Setups["to_tgt"]
    /\ UNCHANGED t_up => Setups'["target"] = Setups["target"]
    /\ UNCHANGED hq => Setups'["queue"] = Setups["queue"]
    /\ UNCHANGED hu => Setups'["upf"] = Setups["upf"]
    /\ UNCHANGED to_src => Setups'["to_src"] = Setups["to_src"]
    /\ ho'[0].src = ho[0].src => Setups'["known"] = Setups["known"]
BY SetupPlaces, SetupPlacesNext DEF Asks

\* A set is within itself.
LEMMA WithinSame == \A S : Within(S, S)
BY DEF Within

\* The elements of one type in a queue that shrinks or grows.
LEMMA TailOfType ==
    ASSUME NEW R, NEW q \in Seq(R), q # <<>>, NEW k
    PROVE  /\ Within(OfType(Tail(q), k), OfType(q, k))
           /\ Head(q).typ = k => OfType(q, k) # {}
           /\ \A i \in OfType(Tail(q), k) : i + 1 \in OfType(q, k)
           /\ Head(q).typ = k => 1 \in OfType(q, k)
           /\ \A i \in OfType(Tail(q), k) : i + 1 # 1
<1>1. /\ Len(q) \in Nat /\ Len(q) > 0 /\ Head(q) = q[1] /\ DOMAIN q = 1 .. Len(q)
      /\ DOMAIN Tail(q) = 1 .. (Len(q) - 1)
      /\ \A i \in 1 .. (Len(q) - 1) : Tail(q)[i] = q[i + 1]
  BY EmptySeq, HeadTailProperties
<1>2. \A i \in OfType(Tail(q), k) : i + 1 \in OfType(q, k) /\ i \in Nat /\ i + 1 # 1
  BY <1>1 DEF OfType
<1>3. Head(q).typ = k => 1 \in OfType(q, k)
  BY <1>1 DEF OfType
<1>4. Within(OfType(Tail(q), k), OfType(q, k))
  BY <1>2 DEF Within
<1>. QED  BY <1>2, <1>3, <1>4

\* A message that is appended is one more of its type only.
LEMMA AppendOfType ==
    ASSUME NEW R, NEW q \in Seq(R), NEW m, NEW k
    PROVE  /\ m.typ # k => OfType(Append(q, m), k) = OfType(q, k)
           /\ OfType(q, k) \subseteq OfType(Append(q, m), k)
           /\ OfType(Append(q, m), k) \subseteq OfType(q, k) \cup {Len(q) + 1}
           /\ m.typ = k => Len(q) + 1 \in OfType(Append(q, m), k)
           /\ Append(q, m)[Len(q) + 1] = m
           /\ \A i \in DOMAIN q : Append(q, m)[i] = q[i]
           /\ DOMAIN q \subseteq DOMAIN Append(q, m)
           /\ Len(q) + 1 \in DOMAIN Append(q, m)
           /\ DOMAIN Append(q, m) \subseteq DOMAIN q \cup {Len(q) + 1}
<1> DEFINE last == Len(q) + 1
           p == Append(q, m)
<1>1. /\ Len(q) \in Nat /\ DOMAIN q = 1 .. Len(q)
      /\ DOMAIN p = 1 .. last /\ p[last] = m
      /\ \A i \in DOMAIN q : p[i] = q[i]
  OBVIOUS
<1> HIDE DEF p
<1>2. /\ \A i \in DOMAIN p : i = last \/ i \in DOMAIN q
      /\ last \in DOMAIN p /\ DOMAIN q \subseteq DOMAIN p
  BY <1>1
<1> HIDE DEF last
<1>3. /\ m.typ # k => OfType(p, k) = OfType(q, k)
      /\ OfType(q, k) \subseteq OfType(p, k)
      /\ OfType(p, k) \subseteq OfType(q, k) \cup {last}
      /\ m.typ = k => last \in OfType(p, k)
  BY <1>1, <1>2 DEF OfType
<1>. QED  BY <1>1, <1>2, <1>3 DEF p, last

\* The place of a worker that has changed, and of a thread of the UPF.
LEMMA WorkerPlace ==
    ASSUME HoTypeOK, NEW w \in Workers, NEW r, hw' = [hw EXCEPT ![w] = r]
    PROVE  /\ HoldsSetup(hw[w]) <=> w \in Setups["amf"]
           /\ HoldsSetup(r) => Setups'["amf"] = Setups["amf"] \cup {w}
           /\ ~HoldsSetup(r) => Setups'["amf"] = Setups["amf"] \ {w}
<1>1. hw'[w] = r /\ \A x \in Workers : x # w => hw'[x] = hw[x]
  BY DEF HoTypeOK
<1>. QED  BY <1>1, SetupPlaces, SetupPlacesNext

\* The same of a thread of the UPF.
LEMMA ThreadPlace ==
    ASSUME HoTypeOK, NEW t \in UpfThreads, NEW r, hu' = [hu EXCEPT ![t] = r]
    PROVE  /\ Asks(t) /\ hu[t].typ = 8 <=> t \in Setups["upf"]
           /\ r.pc # "idle" /\ r.typ = 8 => Setups'["upf"] = Setups["upf"] \cup {t}
           /\ ~(r.pc # "idle" /\ r.typ = 8) => Setups'["upf"] = Setups["upf"] \ {t}
<1>1. hu'[t] = r /\ \A x \in UpfThreads : x # t => hu'[x] = hu[x]
  BY DEF HoTypeOK
<1>. QED  BY <1>1, SetupPlaces, SetupPlacesNext DEF Asks

\* A step of the core takes or sends no message of a handover.
LEMMA CoreUplink ==
    ASSUME TypeOK, CoreStep, NEW n \in Ues
    PROVE  \/ up'[n] = up[n]
           \/ /\ up[n] # <<>> /\ Head(up[n]).typ \notin {7, 10}
              /\ up'[n] = Tail(up[n])
           \/ \E m : m.typ \notin {7, 10} /\ up'[n] = Append(up[n], m)
<1>0. up \in [Ues -> Seq(UplinkMessages)] /\ conns \in [Workers -> Seq(Ues)]
  BY DEF TypeOK, ServerTypeOK
<1>1. CASE \E k \in Ues : RanStep(k)
  <2>1. PICK k \in Ues : RanThread(k)
    BY <1>1 DEF RanStep
  <2>2. \/ UNCHANGED up
        \/ \E typ \in 1 .. 5 : \E mme, arg : SendUp(k, typ, mme, arg)
    BY <2>1 DEF RanThread, ConnMme, TimeExceeded, RanInitialAttach, RanAuthenticate,
       SetSecurity, SetEpsSession, RanDetach, DetachAccepted, ConnLost, linkVars
  <2>3. ASSUME NEW typ \in 1 .. 5, NEW mme, NEW arg, SendUp(k, typ, mme, arg)
        PROVE  \/ up'[n] = up[n]
               \/ \E m : m.typ \notin {7, 10} /\ up'[n] = Append(up[n], m)
    <3> DEFINE m == [typ |-> typ, mme |-> mme, arg |-> arg]
    <3>1. m.typ \notin {7, 10}
      OBVIOUS
    <3>2. up' = [up EXCEPT ![k] = Append(up[k], m)]
      BY <2>3 DEF SendUp
    <3> HIDE DEF m
    <3>3. up'[n] = up[n] \/ up'[n] = Append(up[n], m)
      BY <1>0, <3>2
    <3>. QED  BY <3>1, <3>3
  <2>. QED  BY <2>2, <2>3
<1>2. ASSUME NEW w \in Workers, AmfFree(w), AmfWorker(w)
      PROVE  \/ up'[n] = up[n]
             \/ /\ up[n] # <<>> /\ Head(up[n]).typ \notin {7, 10}
                /\ up'[n] = Tail(up[n])
  <2>1. CASE HandleUe(w)
    <3>1. PICK i \in DOMAIN conns[w] :
             /\ IsNext(w, i, conns[w][i]) /\ up[conns[w][i]] # <<>>
             /\ up' = [up EXCEPT ![conns[w][i]] = Tail(@)]
      BY <2>1 DEF HandleUe
    <3>2. ~IsHandover(Head(up[conns[w][i]]))
      BY <1>2, <3>1, Zenon DEF AmfFree, HoPending
    <3>3. conns[w][i] \in Ues
      BY <1>0
    <3>4. Head(up[conns[w][i]]).typ \notin {7, 10}
      BY <3>2 DEF IsHandover
    <3>. QED  BY <1>0, <3>1, <3>3, <3>4
  <2>2. CASE ~HandleUe(w)
    BY <1>2, <2>2
       DEF AmfWorker, AmfSelect, Select, AmfClose, CloseConn, InitialAttach, AttachInit,
           AttachAuth, HandleAutn, SecurityModeCmd, SetIntegrityContext,
           SendSecurityModeCmd, SecurityModeComplete, LocationUpdate,
           LocationDelete, LocationInsert, CreateSessionBegin, CreateSessionEnd,
           AttachComplete, ModifyBearerBegin, ModifyBearerEnd, DetachBegin,
           DetachEnd, RemItfid, RemUectx, localFrame, linkVars
  <2>. QED  BY <2>1, <2>2
<1>3. CASE UNCHANGED up
  BY <1>3
<1>. QED
  BY <1>1, <1>2, <1>3 DEF CoreStep, AcceptStep, Accept, AmfStep, SmfStep, UpfStep,
     AmfCrash, linkVars, vars

\* A part of a set is within it.
LEMMA WithinPart == \A S, T : T \subseteq S => Within(T, S)
BY DEF Within

\* A step that moves no setup.
LEMMA PlacesStay ==
    ASSUME OnePlace, \A p \in Places : Within(Setups'[p], Setups[p]),
           ho'[0].src = 0 => ho[0].src = 0
    PROVE  OnePlace'
BY PlacesKeep DEF OnePlace

\* A step that moves the setup on.
LEMMA PlacesGo ==
    ASSUME OnePlace, NEW a \in Places, NEW b \in Places, Setups[a] # {}, NEW y,
           Setups'[a] = {}, Setups'[b] \subseteq {y},
           \A p \in Places \ {a, b} : Setups'[p] = Setups[p],
           ho'[0].src = 0 => ho[0].src = 0
    PROVE  OnePlace'
<1>1. ho'[0].src # 0
  BY DEF OnePlace
<1>2. \A p \in Places \ {a, b} : Within(Setups'[p], Setups[p])
  BY WithinSame
<1>3. AtMostOne(Setups)
  BY DEF OnePlace
<1>4. AtMostOne(Setups')
  BY <1>2, <1>3, PlacesMove
<1>. QED  BY <1>1, <1>4 DEF OnePlace

\* There is no second setup, here or elsewhere.
LEMMA OnlyOne ==
    ASSUME OnePlace, NEW p \in Places, NEW x \in Setups[p]
    PROVE  /\ \A y \in Setups[p] : y = x
           /\ \A q \in Places : q # p => Setups[q] = {}
           /\ ho[0].src # 0
BY DEF OnePlace, AtMostOne

\* The places of a setup when a RAN takes a step.
LEMMA RanPlaces ==
    ASSUME UeCount = 1, TypeOK, HoTypeOK, OnePlace, HoRan(0)
    PROVE  OnePlace'
<1> USE DEF Places
<1>0. /\ ho[0] \in HoContexts /\ up[0] \in Seq(UplinkMessages)
      /\ t_up[0] \in Seq(TargetMessages)
      /\ ho \in [Ues -> HoContexts] /\ 0 \in Ues
      /\ up \in [Ues -> Seq(UplinkMessages)] /\ t_up \in [Ues -> Seq(TargetMessages)]
      /\ to_tgt \in [Ues -> SUBSET HoToTargets]
      /\ to_src \in [Ues -> SUBSET HoToSources]
  BY OneSubscriber DEF TypeOK, ServerTypeOK, HoTypeOK
<1>1. CASE InitiateHandover(0)
  <2>1. ho[0].src = 0 /\ ho'[0].src = 1
    BY <1>0, <1>1 DEF InitiateHandover, HoContexts
  <2> DEFINE m == [typ |-> 7, mme |-> ran[0].mme_s1ap_ue_id, arg |-> 0]
  <2>2. up' = [up EXCEPT ![0] = Append(up[0], m)]
    BY <1>1 DEF InitiateHandover, SendUp
  <2> HIDE DEF m
  <2>3. up'[0] = Append(up[0], m)
    BY <1>0, <2>2
  <2>4. \A p \in Places : Setups[p] = {}
    BY <2>1 DEF OnePlace
  <2>5. Setups'["source"] \subseteq {Len(up[0]) + 1}
    BY <1>0, <2>3, <2>4, SetupPlaces, SetupPlacesNext, AppendOfType
  <2>6. Setups'["known"] = {}
    BY <2>1, SetupPlacesNext
  <2>7. \A p \in Places : p # "source" => Setups'[p] = {}
    BY <1>1, <2>4, <2>6, PlaceFrames DEF InitiateHandover, ranFrame
  <2>. QED  BY <2>1, <2>5, <2>7 DEF OnePlace, AtMostOne
<1>2. CASE HandleHandover(0)
  <2>1. PICK m \in to_tgt[0] :
          /\ to_tgt' = [to_tgt EXCEPT ![0] = @ \ {m}]
          /\ ho' = [ho EXCEPT ![0] = [@ EXCEPT !.tgt = 3, !.enb = m.enb,
                                               !.mme = m.mme, !.ul = m.ul]]
          /\ t_up' = [t_up EXCEPT ![0] =
                        Append(@, [typ |-> 8, mme |-> m.mme, arg |-> m.enb])]
    BY <1>2 DEF HandleHandover
  <2>2. ho'[0].src = ho[0].src
    BY <1>0, <2>1 DEF HoContexts
  <2>3. m \in Setups["to_tgt"]
    BY <2>1, SetupPlaces
  <2>4. Setups'["to_tgt"] = {}
    BY <1>0, <2>1, <2>3, OnlyOne, SetupPlaces, SetupPlacesNext
  <2>5. Setups["target"] = {}
    BY <2>3, OnlyOne
  <2>6. Setups'["target"] \subseteq {Len(t_up[0]) + 1}
    <3> DEFINE k == [typ |-> 8, mme |-> m.mme, arg |-> m.enb]
    <3>1. t_up'[0] = Append(t_up[0], k)
      BY <1>0, <2>1
    <3> HIDE DEF k
    <3>. QED  BY <1>0, <2>5, <3>1, AppendOfType, SetupPlaces, SetupPlacesNext
  <2>7. \A p \in Places \ {"to_tgt", "target"} : Setups'[p] = Setups[p]
    BY <1>2, <2>2, PlaceFrames DEF HandleHandover, ranFrame
  <2>. QED  BY <2>2, <2>3, <2>4, <2>6, <2>7, PlacesGo
<1>3. CASE IndirectTunnelComplete(0)
  <2>1. PICK m \in to_src[0] :
          /\ m.typ = 8
          /\ to_src' = [to_src EXCEPT ![0] = @ \ {m}]
          /\ ho' = [ho EXCEPT ![0] = [@ EXCEPT !.src = 4, !.ind = m.arg]]
    BY <1>3 DEF IndirectTunnelComplete
  <2>2. ho'[0].src = 4
    BY <1>0, <2>1 DEF HoContexts
  <2>3. m \in Setups["to_src"]
    BY <2>1, SetupPlaces
  <2>4. Setups'["to_src"] = {}
    <3>1. to_src'[0] = to_src[0] \ {m}
      BY <1>0, <2>1
    <3>2. \A x \in to_src[0] : x.typ = 8 => x = m
      BY <2>3, OnlyOne, SetupPlaces
    <3>. QED  BY <3>1, <3>2, SetupPlacesNext
  <2>5. Setups'["known"] \subseteq {0}
    BY SetupPlacesNext
  <2>6. \A p \in Places \ {"to_src", "known"} : Setups'[p] = Setups[p]
    BY <1>3, PlaceFrames DEF IndirectTunnelComplete, ranFrame
  <2>. QED  BY <2>2, <2>3, <2>4, <2>5, <2>6, PlacesGo
<1>4. CASE CompleteHandover(0)
  <2>1. ho'[0].src = ho[0].src
    BY <1>0, <1>4 DEF CompleteHandover, HoContexts
  <2>2. Setups'["target"] = Setups["target"]
    <3> DEFINE k == [typ |-> 9, mme |-> ho[0].mme, arg |-> 0]
    <3>1. t_up'[0] = Append(t_up[0], k) /\ k.typ # 8
      BY <1>0, <1>4 DEF CompleteHandover
    <3> HIDE DEF k
    <3>. QED  BY <1>0, <3>1, AppendOfType, SetupPlaces, SetupPlacesNext
  <2>3. \A p \in Places : Setups'[p] = Setups[p]
    BY <1>4, <2>1, <2>2, PlaceFrames DEF CompleteHandover, ranFrame
  <2>. QED  BY <2>1, <2>3, WithinSame, PlacesStay
<1>5. CASE RequestTearDown(0)
  <2>1. ho'[0].src = ho[0].src
    BY <1>0, <1>5 DEF RequestTearDown, HoContexts
  <2>2. Setups'["source"] = Setups["source"]
    <3> DEFINE k == [typ |-> 10, mme |-> ran[0].mme_s1ap_ue_id, arg |-> ho[0].ind]
    <3>1. up'[0] = Append(up[0], k) /\ k.typ # 7
      BY <1>0, <1>5 DEF RequestTearDown, SendUp
    <3> HIDE DEF k
    <3>. QED  BY <1>0, <3>1, AppendOfType, SetupPlaces, SetupPlacesNext
  <2>3. Setups'["to_src"] \subseteq Setups["to_src"]
    BY <1>0, <1>5, SetupPlaces, SetupPlacesNext DEF RequestTearDown
  <2>4. \A p \in Places \ {"to_src"} : Setups'[p] = Setups[p]
    BY <1>5, <2>1, <2>2, PlaceFrames DEF RequestTearDown, ranFrame
  <2>5. \A p \in Places : Within(Setups'[p], Setups[p])
    BY <2>3, <2>4, WithinPart, WithinSame
  <2>. QED  BY <2>1, <2>5, PlacesStay
<1>. QED  BY <1>1, <1>2, <1>3, <1>4, <1>5 DEF HoRan

\* A handler that gives up changes nothing of the requests but their sockets.
LEMMA TimeoutKeeps ==
    ASSUME HoTypeOK, NEW w \in Workers, HoTimeout(w)
    PROVE  /\ DOMAIN hq' = DOMAIN hq
           /\ \A i \in DOMAIN hq : hq'[i].typ = hq[i].typ /\ hq'[i].arg = hq[i].arg
           /\ \A t \in UpfThreads : /\ hu'[t].pc = hu[t].pc /\ hu'[t].typ = hu[t].typ
                                    /\ hu'[t].arg = hu[t].arg
<1>1. /\ hq' = [i \in DOMAIN hq |-> Unsocket(hq[i], w)]
      /\ hu' = [t \in UpfThreads |-> Unsocket(hu[t], w)]
  BY DEF HoTimeout
<1>2. \A r \in HoRequests : Unsocket(r, w).typ = r.typ /\ Unsocket(r, w).arg = r.arg
  BY DEF Unsocket, HoRequests
<1>3. \A r \in HuStates : /\ Unsocket(r, w).typ = r.typ /\ Unsocket(r, w).arg = r.arg
                          /\ Unsocket(r, w).pc = r.pc
  BY DEF Unsocket, HuStates
<1>4. DOMAIN hq' = DOMAIN hq /\ \A i \in DOMAIN hq : hq'[i] = Unsocket(hq[i], w)
  BY <1>1
<1>5. \A t \in UpfThreads : hu'[t] = Unsocket(hu[t], w)
  BY <1>1
<1>. QED  BY <1>2, <1>3, <1>4, <1>5, RequestFacts, HandlerRegisters

\* The places of a setup when a handler of the AMF takes a step.
LEMMA AmfPlaces ==
    ASSUME UeCount = 1, TypeOK, HoTypeOK, OnePlace, HandlersOK, NEW w \in Workers, HoAmf(w)
    PROVE  OnePlace'
<1> USE DEF Places
<1>0. /\ hw[w] \in HwStates /\ up[0] \in Seq(UplinkMessages) /\ hw[w].ue = 0
      /\ t_up[0] \in Seq(TargetMessages)
      /\ hq \in Seq(HoRequests) /\ 0 \in Ues /\ Ues = {0}
      /\ up \in [Ues -> Seq(UplinkMessages)] /\ t_up \in [Ues -> Seq(TargetMessages)]
      /\ conns \in [Workers -> Seq(Ues)]
      /\ to_tgt \in [Ues -> SUBSET HoToTargets]
      /\ to_src \in [Ues -> SUBSET HoToSources]
  BY OneSubscriber, HandlerRegisters DEF TypeOK, ServerTypeOK, HoTypeOK
<1>a. OnePlace /\ (hw[w].pc \in {"request", "target"} => hw[w].typ = 7)
  BY DEF HandlersOK
<1>b. UNCHANGED ho
  BY DEF HoAmf, HoRuns, HoAccepted, HoReceive, HoReceiveTarget, HoLookup,
     RequestTarget, HoAsk, HoAnswered, HoTimeout, TellTarget, TellSource, TellNothing,
     hwFrame
<1>c. ~HoldsSetup(IdleHw)
  BY DEF HoldsSetup, IdleHw
<1>d. ASSUME NEW p \in Places, Setups'[p] \subseteq Setups[p],
             \A q \in Places \ {p} : Setups'[q] = Setups[q]
      PROVE  OnePlace'
  <2>1. \A q \in Places : Within(Setups'[q], Setups[q])
    BY <1>d, WithinPart, WithinSame
  <2>. QED  BY <1>a, <1>b, <2>1, PlacesStay
<1>e. ASSUME NEW p \in Places, NEW q \in Places, Setups'[p] \subseteq Setups[p],
             Within(Setups'[q], Setups[q]),
             \A r \in Places \ {p, q} : Setups'[r] = Setups[r]
      PROVE  OnePlace'
  <2>1. \A r \in Places : Within(Setups'[r], Setups[r])
    BY <1>e, WithinPart, WithinSame
  <2>. QED  BY <1>a, <1>b, <2>1, PlacesStay
<1>1. CASE HoReceive(w)
  <2>1. PICK i \in DOMAIN conns[w] :
          LET n == conns[w][i]
          IN  /\ IsNext(w, i, n)
              /\ up[n] # <<>> /\ IsHandover(Head(up[n]))
              /\ HoServe(w, n, Head(up[n]))
              /\ up' = [up EXCEPT ![n] = Tail(@)]
              /\ Served(w, n)
    BY <1>1 DEF HoReceive
  <2>2. conns[w][i] = 0
    BY <1>0
  <2> DEFINE m == Head(up[0])
             r == [IdleHw EXCEPT !.pc = "lookup", !.ue = 0, !.typ = m.typ,
                                 !.mme = m.mme, !.arg = m.arg]
  <2>3. /\ up[0] # <<>> /\ up'[0] = Tail(up[0]) /\ hw' = [hw EXCEPT ![w] = r]
        /\ IsHandover(m) /\ m \in UplinkMessages
    BY <1>0, <2>1, <2>2, QueueType DEF HoServe
  <2>4. m.typ \in {7, 10}
    BY <2>3, HandoverMessage
  <2>5. r.typ = m.typ /\ r.pc = "lookup"
    BY DEF IdleHw
  <2>6. \A p \in Places \ {"source", "amf"} : Setups'[p] = Setups[p]
    BY <1>1, <1>b, PlaceFrames DEF HoReceive, hwFrame
  <2> HIDE DEF r, m
  <2>7. CASE m.typ = 7
    <3>1. 1 \in Setups["source"]
      BY <1>0, <2>3, <2>7, TailOfType, SetupPlaces DEF m
    <3>2. Setups'["source"] = {}
      <4>1. \A j \in OfType(Tail(up[0]), 7) : j + 1 \in OfType(up[0], 7) /\ j + 1 # 1
        BY <1>0, <2>3, TailOfType
      <4>2. \A j \in OfType(up[0], 7) : j = 1
        BY <1>a, <3>1, OnlyOne, SetupPlaces
      <4>. QED  BY <2>3, <4>1, <4>2, SetupPlacesNext
    <3>3. Setups["amf"] = {}
      BY <1>a, <3>1, OnlyOne
    <3>4. HoldsSetup(r)
      BY <2>5, <2>7 DEF HoldsSetup
    <3>5. Setups'["amf"] \subseteq {w}
      BY <2>3, <3>3, <3>4, WorkerPlace
    <3>. QED  BY <1>a, <1>b, <2>6, <3>1, <3>2, <3>5, PlacesGo
  <2>8. CASE m.typ = 10
    <3>1. Within(Setups'["source"], Setups["source"])
      BY <1>0, <2>3, TailOfType, SetupPlaces, SetupPlacesNext
    <3>2. ~HoldsSetup(r)
      BY <2>5, <2>8 DEF HoldsSetup
    <3>3. Setups'["amf"] \subseteq Setups["amf"]
      BY <2>3, <3>2, WorkerPlace
    <3>. QED  BY <1>e, <2>6, <3>1, <3>3
  <2>. QED  BY <2>4, <2>7, <2>8
<1>2. CASE HoReceiveTarget(w)
  <2> DEFINE m == Head(t_up[0])
             r == [IdleHw EXCEPT !.pc = "lookup", !.ue = 0, !.typ = m.typ,
                                 !.mme = m.mme, !.arg = m.arg]
  <2>3. /\ t_up[0] # <<>> /\ t_up'[0] = Tail(t_up[0]) /\ hw' = [hw EXCEPT ![w] = r]
        /\ m \in TargetMessages
    BY <1>0, <1>2, QueueType DEF HoReceiveTarget, HoServe
  <2>4. m.typ \in {8, 9}
    BY <2>3 DEF TargetMessages
  <2>5. r.typ = m.typ /\ r.pc = "lookup"
    BY DEF IdleHw
  <2>6. \A p \in Places \ {"target", "amf"} : Setups'[p] = Setups[p]
    BY <1>2, <1>b, PlaceFrames DEF HoReceiveTarget, hwFrame
  <2> HIDE DEF r, m
  <2>7. CASE m.typ = 8
    <3>1. 1 \in Setups["target"]
      BY <1>0, <2>3, <2>7, TailOfType, SetupPlaces DEF m
    <3>2. Setups'["target"] = {}
      <4>1. \A j \in OfType(Tail(t_up[0]), 8) : j + 1 \in OfType(t_up[0], 8) /\ j + 1 # 1
        BY <1>0, <2>3, TailOfType
      <4>2. \A j \in OfType(t_up[0], 8) : j = 1
        BY <1>a, <3>1, OnlyOne, SetupPlaces
      <4>. QED  BY <2>3, <4>1, <4>2, SetupPlacesNext
    <3>3. Setups["amf"] = {}
      BY <1>a, <3>1, OnlyOne
    <3>4. HoldsSetup(r)
      BY <2>5, <2>7 DEF HoldsSetup
    <3>5. Setups'["amf"] \subseteq {w}
      BY <2>3, <3>3, <3>4, WorkerPlace
    <3>. QED  BY <1>a, <1>b, <2>6, <3>1, <3>2, <3>5, PlacesGo
  <2>8. CASE m.typ = 9
    <3>1. Within(Setups'["target"], Setups["target"])
      BY <1>0, <2>3, TailOfType, SetupPlaces, SetupPlacesNext
    <3>2. ~HoldsSetup(r)
      BY <2>5, <2>8 DEF HoldsSetup
    <3>3. Setups'["amf"] \subseteq Setups["amf"]
      BY <2>3, <3>2, WorkerPlace
    <3>. QED  BY <1>e, <2>6, <3>1, <3>3
  <2>. QED  BY <2>4, <2>7, <2>8
<1>3. CASE HoLookup(w)
  <2> DEFINE r == [hw[w] EXCEPT !.guti = s1amf_id[hw[w].mme],
                                !.pc = IF hw[w].typ = 7 THEN "request" ELSE "ask"]
  <2>1. r.typ = hw[w].typ /\ r.pc \in {"request", "ask"} /\ hw[w].pc = "lookup"
    BY <1>0, <1>3 DEF HoLookup, HwAt, HwStates
  <2>2. hw' = [hw EXCEPT ![w] = r]
    BY <1>3 DEF HoLookup
  <2> HIDE DEF r
  <2>3. HoldsSetup(r) <=> HoldsSetup(hw[w])
    BY <2>1 DEF HoldsSetup
  <2>4. Setups'["amf"] \subseteq Setups["amf"]
    BY <2>2, <2>3, WorkerPlace
  <2>5. \A p \in Places \ {"amf"} : Setups'[p] = Setups[p]
    BY <1>3, <1>b, PlaceFrames DEF HoLookup, hwFrame
  <2>. QED  BY <1>d, <2>4, <2>5
<1>4. CASE RequestTarget(w)
  <2> DEFINE r == [hw[w] EXCEPT !.pc = "target"]
  <2>1. /\ hw' = [hw EXCEPT ![w] = r] /\ hw[w].pc = "request" /\ r.pc = "target"
        /\ r.typ = hw[w].typ
    BY <1>0, <1>4 DEF RequestTarget, HwGoto, HwAt, HwStates
  <2> HIDE DEF r
  <2>2. HoldsSetup(r) <=> HoldsSetup(hw[w])
    BY <2>1 DEF HoldsSetup
  <2>3. Setups'["amf"] \subseteq Setups["amf"]
    BY <2>1, <2>2, WorkerPlace
  <2>4. \A p \in Places \ {"amf"} : Setups'[p] = Setups[p]
    BY <1>4, <1>b, PlaceFrames DEF RequestTarget, hwFrame
  <2>. QED  BY <1>d, <2>3, <2>4
<1>5. CASE HoAsk(w)
  <2> DEFINE r == [hw[w] EXCEPT !.pc = "wait"]
             m == [typ |-> hw[w].typ, w |-> w, teid |-> AmfCteidUpf, arg |-> hw[w].arg]
  <2>1. /\ hw' = [hw EXCEPT ![w] = r] /\ hw[w].pc = "ask" /\ r.pc = "wait"
        /\ m.typ = hw[w].typ
    BY <1>0, <1>5 DEF HoAsk, HwGoto, HwAt, HwStates
  <2>2. hq' = IF N4PortsMatch THEN Append(hq, m) ELSE hq
    BY <1>5 DEF HoAsk
  <2> HIDE DEF r, m
  <2>3. ~HoldsSetup(r)
    BY <2>1 DEF HoldsSetup
  <2>4. Setups'["amf"] = Setups["amf"] \ {w}
    BY <2>1, <2>3, WorkerPlace
  <2>5. \A p \in Places \ {"amf", "queue"} : Setups'[p] = Setups[p]
    BY <1>5, <1>b, PlaceFrames DEF HoAsk, hwFrame
  <2>6. CASE hw[w].typ = 8
    <3>1. w \in Setups["amf"]
      BY <2>1, <2>6, WorkerPlace DEF HoldsSetup
    <3>2. Setups'["amf"] = {}
      BY <1>a, <2>4, <3>1, OnlyOne
    <3>3. Setups["queue"] = {}
      BY <1>a, <3>1, OnlyOne
    <3>4. Setups'["queue"] \subseteq {Len(hq) + 1}
      <4>1. CASE N4PortsMatch
        BY <1>0, <2>2, <3>3, <4>1, AppendOfType, SetupPlaces, SetupPlacesNext
      <4>2. CASE ~N4PortsMatch
        BY <2>2, <3>3, <4>2, SetupPlaces, SetupPlacesNext
      <4>. QED  BY <4>1, <4>2
    <3>. QED  BY <1>a, <1>b, <2>5, <3>1, <3>2, <3>4, PlacesGo
  <2>7. CASE hw[w].typ # 8
    <3>1. Setups'["queue"] = Setups["queue"]
      <4>1. CASE N4PortsMatch
        BY <1>0, <2>1, <2>2, <2>7, <4>1, AppendOfType, SetupPlaces, SetupPlacesNext
      <4>2. CASE ~N4PortsMatch
        BY <2>2, <4>2, SetupPlaces, SetupPlacesNext
      <4>. QED  BY <4>1, <4>2
    <3>. QED  BY <1>d, <2>4, <2>5, <3>1
  <2>. QED  BY <2>6, <2>7
<1>6. CASE HoAnswered(w)
  <2>1. Setups'["amf"] \subseteq Setups["amf"]
    BY <1>6, <1>c, WorkerPlace DEF HoAnswered, HwReturn
  <2>2. \A p \in Places \ {"amf"} : Setups'[p] = Setups[p]
    BY <1>6, <1>b, PlaceFrames DEF HoAnswered, hwFrame
  <2>. QED  BY <1>d, <2>1, <2>2
<1>7. CASE HoTimeout(w)
  <2> DEFINE r == [hw[w] EXCEPT !.pc = "gave_up"]
  <2>1. r.pc = "gave_up"
    BY <1>0 DEF HwStates
  <2>2. HwGoto(w, "gave_up") => hw' = [hw EXCEPT ![w] = r]
    BY DEF HwGoto
  <2> HIDE DEF r
  <2>3. ~HoldsSetup(r)
    BY <2>1 DEF HoldsSetup
  <2>4. Setups'["amf"] \subseteq Setups["amf"]
    BY <1>7, <1>c, <2>2, <2>3, WorkerPlace DEF HoTimeout, HwReturn
  <2>5. Setups'["queue"] = Setups["queue"] /\ Setups'["upf"] = Setups["upf"]
    BY <1>7, TimeoutKeeps, SetupPlaces, SetupPlacesNext DEF OfType, Asks
  <2>6. \A p \in Places \ {"amf"} : Setups'[p] = Setups[p]
    BY <1>7, <1>b, <2>5, PlaceFrames DEF HoTimeout
  <2>. QED  BY <1>d, <2>4, <2>6
<1>8. CASE TellTarget(w)
  <2>1. hw[w].pc = "target" /\ hw[w].typ = 7
    BY <1>8, <1>a DEF TellTarget, HwAt
  <2>2. HoldsSetup(hw[w]) /\ hw' = [hw EXCEPT ![w] = IdleHw]
    BY <1>8, <2>1 DEF HoldsSetup, TellTarget, HwReturn
  <2>3. w \in Setups["amf"]
    BY <2>2, WorkerPlace
  <2>4. Setups'["amf"] = {}
    <3>1. Setups'["amf"] = Setups["amf"] \ {w}
      BY <1>c, <2>2, WorkerPlace
    <3>2. \A x \in Setups["amf"] : x = w
      BY <1>a, <2>3, OnlyOne
    <3>. QED  BY <3>1, <3>2
  <2>5. to_tgt[0] = {}
    BY <1>a, <2>3, OnlyOne, SetupPlaces
  <2> DEFINE m == [enb |-> hw[w].arg, mme |-> hw[w].mme, ul |-> AmfUteidUl]
  <2>6. to_tgt' = [to_tgt EXCEPT ![0] = @ \cup {m}]
    BY <1>0, <1>8 DEF TellTarget
  <2> HIDE DEF m
  <2>7. Setups'["to_tgt"] \subseteq {m}
    BY <1>0, <2>5, <2>6, SetupPlacesNext
  <2>8. \A p \in Places \ {"amf", "to_tgt"} : Setups'[p] = Setups[p]
    BY <1>8, <1>b, PlaceFrames DEF TellTarget, hwFrame
  <2>. QED  BY <1>a, <1>b, <2>3, <2>4, <2>7, <2>8, PlacesGo
<1>9. CASE TellSource(w)
  <2>1. hw[w].pc = "answered" /\ hw' = [hw EXCEPT ![w] = IdleHw]
    BY <1>9 DEF TellSource, HwAt, HwReturn
  <2>2. Setups'["amf"] = Setups["amf"] \ {w}
    BY <1>c, <2>1, WorkerPlace
  <2> DEFINE m == [typ |-> hw[w].typ, arg |-> hw[w].arg]
  <2>3. /\ to_src'[0] = to_src[0] \cup {m}
        /\ m.typ = hw[w].typ
    BY <1>0, <1>9 DEF TellSource
  <2> HIDE DEF m
  <2>4. \A p \in Places \ {"amf", "to_src"} : Setups'[p] = Setups[p]
    BY <1>9, <1>b, PlaceFrames DEF TellSource, hwFrame
  <2>5. CASE hw[w].typ = 8
    <3>1. w \in Setups["amf"]
      BY <2>1, <2>5, WorkerPlace DEF HoldsSetup
    <3>2. Setups'["amf"] = {} /\ Setups["to_src"] = {}
      BY <1>a, <2>2, <3>1, OnlyOne
    <3>3. Setups'["to_src"] \subseteq {m}
      BY <2>3, <2>5, <3>2, SetupPlaces, SetupPlacesNext
    <3>. QED  BY <1>a, <1>b, <2>4, <3>1, <3>2, <3>3, PlacesGo
  <2>6. CASE hw[w].typ # 8
    <3>1. Setups'["to_src"] = Setups["to_src"]
      BY <2>3, <2>6, SetupPlaces, SetupPlacesNext
    <3>. QED  BY <1>d, <2>2, <2>4, <3>1
  <2>. QED  BY <2>5, <2>6
<1>10. CASE TellNothing(w)
  <2>1. Setups'["amf"] \subseteq Setups["amf"]
    BY <1>10, <1>c, WorkerPlace DEF TellNothing, HwReturn
  <2>2. \A p \in Places \ {"amf"} : Setups'[p] = Setups[p]
    BY <1>10, <1>b, PlaceFrames DEF TellNothing, hwFrame
  <2>. QED  BY <1>d, <2>1, <2>2
<1>. QED
  BY <1>1, <1>2, <1>3, <1>4, <1>5, <1>6, <1>7, <1>8, <1>9, <1>10
     DEF HoAmf, HoRuns, HoAccepted

\* The places of a setup when a handler of the UPF takes a step.
LEMMA UpfPlaces ==
    ASSUME HoTypeOK, SocketsOK, OnePlace, NEW t \in UpfThreads, HoUpf(t)
    PROVE  OnePlace'
<1> USE DEF Places
<1>0. hu[t] \in HuStates /\ hq \in Seq(HoRequests) /\ hu[t].w \in 0 .. Nobody
  BY HandlerRegisters DEF HoTypeOK
<1>b. UNCHANGED <<ho, to_tgt, to_src, t_up, up>>
  BY DEF HoUpf, HoUpfReceive, HoUpfLookup, SetupContext, SetupEnter,
     CompletionContext, CompletionErase, TeardownContext, TeardownRemove, HoUpfSend,
     huFrame, linkVars
<1>c. \A p \in {"source", "to_tgt", "target", "to_src", "known"} :
         Setups'[p] = Setups[p]
  BY <1>b, PlaceFrames
<1>d. ASSUME NEW p \in Places, Within(Setups'[p], Setups[p]),
             \A q \in Places \ {p} : Setups'[q] = Setups[q]
      PROVE  OnePlace'
  <2>1. \A q \in Places : Within(Setups'[q], Setups[q])
    BY <1>d, WithinSame
  <2>. QED  BY <1>b, <2>1, PlacesStay
<1>e. ASSUME NEW r, hu' = [hu EXCEPT ![t] = r], r.typ = hu[t].typ, r.pc # "idle",
             Asks(t), UNCHANGED <<hw, hq>>
      PROVE  OnePlace'
  <2>1. Setups'["upf"] = Setups["upf"]
    <3>1. CASE r.typ = 8
      <4>1. Setups'["upf"] = Setups["upf"] \cup {t} /\ t \in Setups["upf"]
        BY <1>e, <3>1, ThreadPlace
      <4>. QED  BY <4>1
    <3>2. CASE r.typ # 8
      <4>1. Setups'["upf"] = Setups["upf"] \ {t} /\ t \notin Setups["upf"]
        BY <1>e, <3>2, ThreadPlace
      <4>. QED  BY <4>1
    <3>. QED  BY <3>1, <3>2
  <2>2. \A q \in Places \ {"upf"} : Setups'[q] = Setups[q]
    BY <1>c, <1>e, PlaceFrames
  <2>. QED  BY <1>d, <2>1, <2>2, WithinSame
<1>f. ASSUME NEW pc \in {"erase", "remove", "send"}, HuGoto(t, pc), Asks(t),
             UNCHANGED <<hw, hq>>
      PROVE  OnePlace'
  <2> DEFINE r == [hu[t] EXCEPT !.pc = pc]
  <2>1. r.pc # "idle" /\ r.typ = hu[t].typ
    BY <1>0 DEF HuStates
  <2>2. hu' = [hu EXCEPT ![t] = r]
    BY <1>f DEF HuGoto
  <2> HIDE DEF r
  <2>. QED  BY <1>e, <1>f, <2>1, <2>2
<1>1. CASE HoUpfReceive(t)
  <2> DEFINE m == Head(hq)
             r == [pc |-> "lookup", typ |-> m.typ, w |-> m.w, teid |-> m.teid,
                   arg |-> m.arg, imsi |-> 0]
  <2>1. /\ hq # <<>> /\ hq' = Tail(hq) /\ hu' = [hu EXCEPT ![t] = r] /\ ~Asks(t)
        /\ UNCHANGED hw
    BY <1>1 DEF HoUpfReceive, HuAt, Asks
  <2>2. r.pc = "lookup" /\ r.typ = m.typ
    OBVIOUS
  <2> HIDE DEF r, m
  <2>3. \A p \in Places \ {"queue", "upf"} : Setups'[p] = Setups[p]
    BY <1>c, <2>1, PlaceFrames
  <2>4. CASE m.typ = 8
    <3>1. 1 \in Setups["queue"]
      BY <1>0, <2>1, <2>4, TailOfType, SetupPlaces DEF m
    <3>2. Setups'["queue"] = {}
      <4>1. \A j \in OfType(Tail(hq), 8) : j + 1 \in OfType(hq, 8) /\ j + 1 # 1
        BY <1>0, <2>1, TailOfType
      <4>2. \A j \in OfType(hq, 8) : j = 1
        BY <3>1, OnlyOne, SetupPlaces
      <4>. QED  BY <2>1, <4>1, <4>2, SetupPlacesNext
    <3>3. Setups["upf"] = {}
      BY <3>1, OnlyOne
    <3>4. Setups'["upf"] \subseteq {t}
      BY <2>1, <2>2, <2>4, <3>3, ThreadPlace
    <3>. QED  BY <1>b, <2>3, <3>1, <3>2, <3>4, PlacesGo
  <2>5. CASE m.typ # 8
    <3>1. Within(Setups'["queue"], Setups["queue"])
      BY <1>0, <2>1, TailOfType, SetupPlaces, SetupPlacesNext
    <3>2. Setups'["upf"] = Setups["upf"]
      BY <2>1, <2>2, <2>5, ThreadPlace
    <3>. QED  BY <1>d, <2>3, <3>1, <3>2
  <2>. QED  BY <2>4, <2>5
<1>2. CASE HoUpfLookup(t)
  <2> DEFINE r == [hu[t] EXCEPT !.imsi = s11_id[hu[t].teid], !.pc = "ctx"]
  <2>1. r.pc # "idle" /\ r.typ = hu[t].typ
    BY <1>0 DEF HuStates
  <2>2. hu' = [hu EXCEPT ![t] = r] /\ Asks(t) /\ UNCHANGED <<hw, hq>>
    BY <1>2 DEF HoUpfLookup, HuAt, Asks
  <2> HIDE DEF r
  <2>. QED  BY <1>e, <2>1, <2>2
<1>3. CASE SetupContext(t)
  <2> DEFINE r == [hu[t] EXCEPT !.arg = UpfTeidOf(hu[t].imsi) + 1, !.pc = "enter"]
  <2>1. r.pc # "idle" /\ r.typ = hu[t].typ
    BY <1>0 DEF HuStates
  <2>2. hu' = [hu EXCEPT ![t] = r] /\ Asks(t) /\ UNCHANGED <<hw, hq>>
    BY <1>3 DEF SetupContext, HuAt, Asks
  <2> HIDE DEF r
  <2>. QED  BY <1>e, <2>1, <2>2
<1>4. CASE SetupEnter(t)
  BY <1>4, <1>f DEF SetupEnter, HuAt, Asks
<1>5. CASE CompletionContext(t)
  BY <1>5, <1>f DEF CompletionContext, HuAt, Asks
<1>6. CASE CompletionErase(t)
  BY <1>6, <1>f DEF CompletionErase, HuAt, Asks
<1>7. CASE TeardownContext(t)
  BY <1>7, <1>f DEF TeardownContext, HuAt, Asks
<1>8. CASE TeardownRemove(t)
  BY <1>8, <1>f DEF TeardownRemove, HuAt, Asks
<1>9. CASE HoUpfSend(t)
  <2>1. /\ hu' = [hu EXCEPT ![t] = IdleHu] /\ Asks(t) /\ UNCHANGED hq
    BY <1>9 DEF HoUpfSend, HuAt, Asks, huFrame
  <2>a. IdleHu.pc = "idle"
    BY DEF IdleHu
  <2>2. Setups'["upf"] = Setups["upf"] \ {t}
    BY <2>1, <2>a, ThreadPlace
  <2>3. \A p \in Places \ {"upf", "amf"} : Setups'[p] = Setups[p]
    BY <1>c, <2>1, PlaceFrames
  <2>4. CASE hu[t].w = Nobody
    <3>1. Setups'["amf"] = Setups["amf"]
      BY <1>9, <2>4, PlaceFrames DEF HoUpfSend
    <3>. QED  BY <1>d, <2>2, <2>3, <3>1, WithinPart
  <2>5. CASE hu[t].w # Nobody
    <3> DEFINE x == hu[t].w
               r == [hw[x] EXCEPT !.arg = hu[t].arg, !.pc = "answered"]
    <3>1. x \in Workers /\ hw[x].pc = "wait" /\ hw[x].typ = hu[t].typ
      BY <1>0, <2>1, <2>5, HandoverConstants DEF SocketsOK, WaitsFor
    <3>2. r.pc = "answered" /\ r.typ = hu[t].typ
      BY <3>1, HandlerRegisters DEF HwStates
    <3>3. hw' = [hw EXCEPT ![x] = r]
      BY <1>9, <2>5 DEF HoUpfSend
    <3> HIDE DEF r, x
    <3>4. CASE hu[t].typ = 8
      <4>1. t \in Setups["upf"]
        BY <2>1, <3>4, ThreadPlace
      <4>2. Setups'["upf"] = {} /\ Setups["amf"] = {}
        BY <2>2, <4>1, OnlyOne
      <4>3. Setups'["amf"] \subseteq {x}
        BY <3>1, <3>2, <3>3, <3>4, <4>2, WorkerPlace DEF HoldsSetup
      <4>. QED  BY <1>b, <2>3, <4>1, <4>2, <4>3, PlacesGo
    <3>5. CASE hu[t].typ # 8
      <4>1. ~HoldsSetup(r)
        BY <1>0, <3>2, <3>5 DEF HoldsSetup, HuStates
      <4>2. Setups'["amf"] \subseteq Setups["amf"]
        BY <3>1, <3>3, <4>1, WorkerPlace
      <4>3. \A p \in Places : Setups'[p] \subseteq Setups[p]
        BY <2>2, <2>3, <4>2
      <4>. QED  BY <1>b, <4>3, WithinPart, PlacesStay
    <3>. QED  BY <3>4, <3>5
  <2>. QED  BY <2>4, <2>5
<1>. QED
  BY <1>1, <1>2, <1>3, <1>4, <1>5, <1>6, <1>7, <1>8, <1>9 DEF HoUpf

\* The core moves no setup.
LEMMA CorePlaces ==
    ASSUME TypeOK, OnePlace, CoreStep, UNCHANGED hoVars
    PROVE  OnePlace'
<1> USE DEF Places
<1>0. 0 \in Ues /\ up[0] \in Seq(UplinkMessages)
  BY HandoverConstants DEF TypeOK, ServerTypeOK
<1>1. Within(Setups'["source"], Setups["source"])
  <2>1. CASE up'[0] = up[0]
    BY <2>1, PlaceFrames, WithinSame
  <2>2. CASE up[0] # <<>> /\ up'[0] = Tail(up[0])
    BY <1>0, <2>2, TailOfType, SetupPlaces, SetupPlacesNext
  <2>3. CASE \E m : m.typ \notin {7, 10} /\ up'[0] = Append(up[0], m)
    BY <1>0, <2>3, AppendOfType, SetupPlaces, SetupPlacesNext, WithinSame
  <2>. QED  BY <1>0, <2>1, <2>2, <2>3, CoreUplink
<1>2. \A p \in Places \ {"source"} : Setups'[p] = Setups[p]
  BY PlaceFrames DEF hoVars
<1>3. \A p \in Places : Within(Setups'[p], Setups[p])
  BY <1>1, <1>2, WithinSame
<1>. QED  BY <1>3, PlacesStay DEF hoVars

----------------------------------------------------------------------------
(* A single subscriber: the tunnel that is torn down                       *)

\* What a step of a worker of the AMF does to what the tunnel's invariant
\* reads.  It takes a message of one of the RANs,
TakesSource(w, r) ==
    /\ hw[w].pc = "idle" /\ r.pc = "lookup"
    /\ up[0] # <<>> /\ up'[0] = Tail(up[0])
    /\ r.typ = Head(up[0]).typ /\ r.arg = Head(up[0]).arg /\ r.typ \in {7, 10}
    /\ UNCHANGED <<t_up, to_src, hq, hu>>
TakesTarget(w, r) ==
    /\ hw[w].pc = "idle" /\ r.pc = "lookup"
    /\ t_up[0] # <<>> /\ t_up'[0] = Tail(t_up[0])
    /\ r.typ = Head(t_up[0]).typ /\ r.typ \in {8, 9}
    /\ UNCHANGED <<up, to_src, hq, hu>>
\* looks the subscriber up,
LooksUp(w, r) ==
    /\ hw[w].pc = "lookup"
    /\ r.typ = hw[w].typ /\ r.arg = hw[w].arg
    /\ r.pc = IF r.typ = 7 THEN "request" ELSE "ask"
    /\ UNCHANGED <<up, t_up, to_src, hq, hu>>
\* goes on to connect to the target, or returns with nothing for the source,
MovesOn(w, r) ==
    /\ \/ hw[w].pc = "request" /\ r.pc = "target" /\ r.typ = hw[w].typ
       \/ hw[w].pc \in {"target", "answered", "gave_up"} /\ r.pc = "idle"
    /\ UNCHANGED <<up, t_up, to_src, hq, hu>>
\* tells the source and returns,
TellsSource(w, r) ==
    /\ hw[w].pc = "answered" /\ r.pc = "idle"
    /\ \A m \in to_src'[0] :
          m \in to_src[0] \/ (m.typ = hw[w].typ /\ m.arg = hw[w].arg)
    /\ UNCHANGED <<up, t_up, hq, hu>>
\* asks the UPF, if its port is the right one,
AsksUpf(w, r) ==
    /\ hw[w].pc = "ask" /\ r.pc = "wait" /\ r.typ = hw[w].typ
    /\ \/ ~N4PortsMatch /\ hq' = hq
       \/ /\ N4PortsMatch
          /\ \E m : /\ m.typ = hw[w].typ /\ m.arg = hw[w].arg
                    /\ hq' = Append(hq, m)
    /\ UNCHANGED <<up, t_up, to_src, hu>>
\* or gives up.
GivesUp(w, r) ==
    /\ hw[w].pc = "wait"
    /\ r.pc = "idle" \/ (r.pc = "gave_up" /\ r.typ = hw[w].typ)
    /\ HoTimeout(w)
    /\ UNCHANGED <<up, t_up, to_src>>

\* The steps of a worker are these.
LEMMA WorkerSteps ==
    ASSUME UeCount = 1, TypeOK, HoTypeOK, NEW w \in Workers, HoAmf(w)
    PROVE  /\ UNCHANGED <<ho, s1_id>>
           /\ \E r : /\ hw' = [hw EXCEPT ![w] = r]
                     /\ hw'[w] = r /\ \A x \in Workers : x # w => hw'[x] = hw[x]
                     /\ \/ TakesSource(w, r) \/ TakesTarget(w, r) \/ LooksUp(w, r)
                        \/ MovesOn(w, r) \/ TellsSource(w, r) \/ AsksUpf(w, r)
                        \/ GivesUp(w, r)
<1>0. /\ hw[w] \in HwStates /\ up[0] \in Seq(UplinkMessages) /\ hw[w].ue = 0
      /\ t_up[0] \in Seq(TargetMessages) /\ 0 \in Ues /\ Ues = {0}
      /\ up \in [Ues -> Seq(UplinkMessages)] /\ t_up \in [Ues -> Seq(TargetMessages)]
      /\ conns \in [Workers -> Seq(Ues)]
      /\ to_src \in [Ues -> SUBSET HoToSources] /\ hw \in [Workers -> HwStates]
  BY OneSubscriber, HandlerRegisters DEF TypeOK, ServerTypeOK, HoTypeOK
<1>a. UNCHANGED <<ho, s1_id>>
  BY DEF HoAmf, HoRuns, HoAccepted, HoReceive, HoReceiveTarget, HoLookup,
     RequestTarget, HoAsk, HoAnswered, HoTimeout, TellTarget, TellSource, TellNothing,
     hwFrame, upfVars
<1>b. ASSUME NEW r, hw' = [hw EXCEPT ![w] = r]
      PROVE  hw'[w] = r /\ \A x \in Workers : x # w => hw'[x] = hw[x]
  BY <1>0, <1>b
<1>c. IdleHw.pc = "idle"
  BY DEF IdleHw
<1>1. CASE HoReceive(w)
  <2>1. PICK i \in DOMAIN conns[w] :
          LET n == conns[w][i]
          IN  /\ up[n] # <<>> /\ IsHandover(Head(up[n]))
              /\ HoServe(w, n, Head(up[n]))
              /\ up' = [up EXCEPT ![n] = Tail(@)]
    BY <1>1 DEF HoReceive
  <2>2. conns[w][i] = 0
    BY <1>0
  <2> DEFINE m == Head(up[0])
             r == [IdleHw EXCEPT !.pc = "lookup", !.ue = 0, !.typ = m.typ,
                                 !.mme = m.mme, !.arg = m.arg]
  <2>3. /\ up[0] # <<>> /\ up'[0] = Tail(up[0]) /\ hw' = [hw EXCEPT ![w] = r]
        /\ IsHandover(m) /\ m \in UplinkMessages
    BY <1>0, <2>1, <2>2, QueueType DEF HoServe
  <2>4. m.typ \in {7, 10}
    BY <2>3, HandoverMessage
  <2>5. r.typ = m.typ /\ r.pc = "lookup" /\ r.arg = m.arg
    BY DEF IdleHw
  <2>6. hw[w].pc = "idle" /\ UNCHANGED <<t_up, to_src, hq, hu>>
    BY <1>1 DEF HoReceive, HwAt, hwFrame
  <2> HIDE DEF r
  <2>7. TakesSource(w, r)
    BY <2>3, <2>4, <2>5, <2>6 DEF TakesSource
  <2>. QED  BY <1>a, <1>b, <2>3, <2>7
<1>2. CASE HoReceiveTarget(w)
  <2> DEFINE m == Head(t_up[0])
             r == [IdleHw EXCEPT !.pc = "lookup", !.ue = 0, !.typ = m.typ,
                                 !.mme = m.mme, !.arg = m.arg]
  <2>3. /\ t_up[0] # <<>> /\ t_up'[0] = Tail(t_up[0]) /\ hw' = [hw EXCEPT ![w] = r]
        /\ m \in TargetMessages
    BY <1>0, <1>2, QueueType DEF HoReceiveTarget, HoServe
  <2>4. m.typ \in {8, 9}
    BY <2>3 DEF TargetMessages
  <2>5. r.typ = m.typ /\ r.pc = "lookup"
    BY DEF IdleHw
  <2>6. hw[w].pc = "idle" /\ UNCHANGED <<up, to_src, hq, hu>>
    BY <1>2 DEF HoReceiveTarget, HwAt, hwFrame
  <2> HIDE DEF r
  <2>7. TakesTarget(w, r)
    BY <2>3, <2>4, <2>5, <2>6 DEF TakesTarget
  <2>. QED  BY <1>a, <1>b, <2>3, <2>7
<1>3. CASE HoLookup(w)
  <2> DEFINE r == [hw[w] EXCEPT !.guti = s1amf_id[hw[w].mme],
                                !.pc = IF hw[w].typ = 7 THEN "request" ELSE "ask"]
  <2>1. /\ r.typ = hw[w].typ /\ r.arg = hw[w].arg
        /\ r.pc = IF r.typ = 7 THEN "request" ELSE "ask"
    BY <1>0 DEF HwStates
  <2>2. /\ hw' = [hw EXCEPT ![w] = r] /\ hw[w].pc = "lookup"
        /\ UNCHANGED <<up, t_up, to_src, hq, hu>>
    BY <1>3 DEF HoLookup, HwAt, hwFrame
  <2> HIDE DEF r
  <2>3. LooksUp(w, r)
    BY <2>1, <2>2 DEF LooksUp
  <2>. QED  BY <1>a, <1>b, <2>2, <2>3
<1>4. CASE RequestTarget(w)
  <2> DEFINE r == [hw[w] EXCEPT !.pc = "target"]
  <2>1. /\ hw' = [hw EXCEPT ![w] = r] /\ hw[w].pc = "request"
        /\ UNCHANGED <<up, t_up, to_src, hq, hu>>
    BY <1>4 DEF RequestTarget, HwAt, HwGoto, hwFrame
  <2>2. r.pc = "target" /\ r.typ = hw[w].typ
    BY <1>0 DEF HwStates
  <2> HIDE DEF r
  <2>3. MovesOn(w, r)
    BY <2>1, <2>2 DEF MovesOn
  <2>. QED  BY <1>a, <1>b, <2>1, <2>3
<1>5. CASE HoAsk(w)
  <2> DEFINE r == [hw[w] EXCEPT !.pc = "wait"]
             m == [typ |-> hw[w].typ, w |-> w, teid |-> AmfCteidUpf, arg |-> hw[w].arg]
  <2>1. /\ hw' = [hw EXCEPT ![w] = r] /\ hw[w].pc = "ask"
        /\ UNCHANGED <<up, t_up, to_src, hu>>
    BY <1>5 DEF HoAsk, HwGoto, HwAt, hwFrame
  <2>2. /\ r.pc = "wait" /\ r.typ = hw[w].typ /\ m.typ = hw[w].typ
        /\ m.arg = hw[w].arg
    BY <1>0 DEF HwStates
  <2>3. hq' = IF N4PortsMatch THEN Append(hq, m) ELSE hq
    BY <1>5 DEF HoAsk
  <2> HIDE DEF r, m
  <2>4. AsksUpf(w, r)
    BY <2>1, <2>2, <2>3 DEF AsksUpf
  <2>. QED  BY <1>a, <1>b, <2>1, <2>4
<1>6. CASE HoAnswered(w)
  <2>1. hw' = [hw EXCEPT ![w] = IdleHw] /\ MovesOn(w, IdleHw)
    BY <1>6, <1>c DEF HoAnswered, HwAt, HwReturn, hwFrame, MovesOn
  <2>. QED  BY <1>a, <1>b, <2>1
<1>7. CASE HoTimeout(w)
  <2>1. CASE HwReturn(w)
    <3>1. hw' = [hw EXCEPT ![w] = IdleHw] /\ GivesUp(w, IdleHw)
      BY <1>7, <1>c, <2>1 DEF HoTimeout, HwAt, HwReturn, GivesUp
    <3>. QED  BY <1>a, <1>b, <3>1
  <2>2. CASE HwGoto(w, "gave_up")
    <3> DEFINE r == [hw[w] EXCEPT !.pc = "gave_up"]
    <3>1. hw' = [hw EXCEPT ![w] = r]
      BY <2>2 DEF HwGoto
    <3>2. r.pc = "gave_up" /\ r.typ = hw[w].typ
      BY <1>0 DEF HwStates
    <3> HIDE DEF r
    <3>3. GivesUp(w, r)
      BY <1>7, <3>2 DEF HoTimeout, HwAt, GivesUp
    <3>. QED  BY <1>a, <1>b, <3>1, <3>3
  <2>. QED  BY <1>7, <2>1, <2>2 DEF HoTimeout
<1>8. CASE TellTarget(w)
  <2>1. hw' = [hw EXCEPT ![w] = IdleHw] /\ MovesOn(w, IdleHw)
    BY <1>8, <1>c DEF TellTarget, HwAt, HwReturn, hwFrame, MovesOn
  <2>. QED  BY <1>a, <1>b, <2>1
<1>9. CASE TellSource(w)
  <2>1. /\ hw' = [hw EXCEPT ![w] = IdleHw] /\ hw[w].pc = "answered"
        /\ UNCHANGED <<up, t_up, hq, hu>>
    BY <1>9 DEF TellSource, HwAt, HwReturn, hwFrame
  <2>2. to_src' = [to_src EXCEPT ![0] =
                      @ \cup {[typ |-> hw[w].typ, arg |-> hw[w].arg]}]
    BY <1>0, <1>9 DEF TellSource
  <2>3. \A m \in to_src'[0] :
           m \in to_src[0] \/ (m.typ = hw[w].typ /\ m.arg = hw[w].arg)
    BY <1>0, <2>2
  <2>4. TellsSource(w, IdleHw)
    BY <1>c, <2>1, <2>3 DEF TellsSource
  <2>. QED  BY <1>a, <1>b, <2>1, <2>4
<1>10. CASE TellNothing(w)
  <2>1. hw' = [hw EXCEPT ![w] = IdleHw] /\ MovesOn(w, IdleHw)
    BY <1>10, <1>c DEF TellNothing, HwAt, HwReturn, hwFrame, MovesOn
  <2>. QED  BY <1>a, <1>b, <2>1
<1>. QED
  BY <1>1, <1>2, <1>3, <1>4, <1>5, <1>6, <1>7, <1>8, <1>9, <1>10
     DEF HoAmf, HoRuns, HoAccepted

\* What a step of a thread of the UPF does to the same.  It takes a request,
TakesRequest(t, r) ==
    /\ ~Asks(t) /\ r.pc = "lookup"
    /\ hq # <<>> /\ hq' = Tail(hq) /\ r.typ = Head(hq).typ /\ r.arg = Head(hq).arg
    /\ UNCHANGED <<hw, s1_id>>
\* goes through its handler,
GoesOn(t, r) ==
    /\ r.typ = hu[t].typ
    /\ \/ hu[t].pc = "lookup" /\ r.pc = "ctx" /\ r.arg = hu[t].arg
       \/ hu[t].pc = "ctx" /\ r.pc = "enter" /\ r.typ = 8 /\ r.arg = 1
       \/ hu[t].pc = "ctx" /\ r.pc = "erase" /\ r.typ = 9
       \/ hu[t].pc = "ctx" /\ r.pc = "remove" /\ r.typ = 10 /\ r.arg = hu[t].arg
       \/ hu[t].pc = "erase" /\ r.pc = "send"
    /\ UNCHANGED <<hw, hq, s1_id>>
\* writes the teid of the tunnel,
WritesTeid(t, r) ==
    /\ r.typ = hu[t].typ /\ r.arg = hu[t].arg /\ r.pc = "send"
    /\ \/ hu[t].pc = "enter"
       \/ hu[t].pc = "remove" /\ s1_id' = [s1_id EXCEPT ![hu[t].arg] = 0]
    /\ UNCHANGED <<hw, hq>>
\* or answers.
Answers(t, r) ==
    /\ hu[t].pc = "send" /\ r.pc = "idle"
    /\ \A x \in Workers :
          \/ hw'[x] = hw[x]
          \/ /\ hw[x].pc = "wait" /\ hw'[x].pc = "answered"
             /\ hw'[x].typ = hw[x].typ
             /\ hw'[x].typ = hu[t].typ /\ hw'[x].arg = hu[t].arg
    /\ UNCHANGED <<hq, s1_id>>

\* The steps of a thread are these.
LEMMA ThreadSteps ==
    ASSUME TypeOK, HoTypeOK, SessionTeidsOwned, SocketsOK,
           NEW t \in UpfThreads, HoUpf(t)
    PROVE  /\ UNCHANGED <<ho, to_src, t_up, up>>
           /\ \E r : /\ hu' = [hu EXCEPT ![t] = r]
                     /\ hu'[t] = r /\ \A x \in UpfThreads : x # t => hu'[x] = hu[x]
                     /\ \/ TakesRequest(t, r)
                        \/ GoesOn(t, r)
                        \/ WritesTeid(t, r)
                        \/ Answers(t, r)
<1>0. hu[t] \in HuStates /\ hu \in [UpfThreads -> HuStates]
  BY HandlerRegisters DEF HoTypeOK
<1>a. UNCHANGED <<ho, to_src, t_up, up>>
  BY DEF HoUpf, HoUpfReceive, HoUpfLookup, SetupContext, SetupEnter,
     CompletionContext, CompletionErase, TeardownContext, TeardownRemove, HoUpfSend,
     huFrame, linkVars
<1>b. ASSUME NEW r, hu' = [hu EXCEPT ![t] = r]
      PROVE  hu'[t] = r /\ \A x \in UpfThreads : x # t => hu'[x] = hu[x]
  BY <1>0, <1>b
<1>c. ASSUME NEW pc, HuGoto(t, pc)
      PROVE  /\ hu' = [hu EXCEPT ![t] = [hu[t] EXCEPT !.pc = pc]]
             /\ [hu[t] EXCEPT !.pc = pc].typ = hu[t].typ
             /\ [hu[t] EXCEPT !.pc = pc].arg = hu[t].arg
             /\ [hu[t] EXCEPT !.pc = pc].pc = pc
  BY <1>0, <1>c DEF HuGoto, HuStates
<1>1. CASE HoUpfReceive(t)
  <2> DEFINE m == Head(hq)
             r == [pc |-> "lookup", typ |-> m.typ, w |-> m.w, teid |-> m.teid,
                   arg |-> m.arg, imsi |-> 0]
  <2>1. /\ hq # <<>> /\ hq' = Tail(hq) /\ hu' = [hu EXCEPT ![t] = r] /\ ~Asks(t)
        /\ UNCHANGED <<hw, s1_id>>
    BY <1>1 DEF HoUpfReceive, HuAt, Asks
  <2>2. r.pc = "lookup" /\ r.typ = m.typ /\ r.arg = m.arg
    OBVIOUS
  <2> HIDE DEF r
  <2>3. TakesRequest(t, r)
    BY <2>1, <2>2 DEF TakesRequest
  <2>. QED  BY <1>a, <1>b, <2>1, <2>3
<1>2. CASE HoUpfLookup(t)
  <2> DEFINE r == [hu[t] EXCEPT !.imsi = s11_id[hu[t].teid], !.pc = "ctx"]
  <2>1. r.pc = "ctx" /\ r.typ = hu[t].typ /\ r.arg = hu[t].arg
    BY <1>0 DEF HuStates
  <2>2. /\ hu' = [hu EXCEPT ![t] = r] /\ hu[t].pc = "lookup"
        /\ UNCHANGED <<hw, hq, s1_id>>
    BY <1>2 DEF HoUpfLookup, HuAt
  <2> HIDE DEF r
  <2>3. GoesOn(t, r)
    BY <2>1, <2>2 DEF GoesOn
  <2>. QED  BY <1>a, <1>b, <2>2, <2>3
<1>3. CASE SetupContext(t)
  <2> DEFINE r == [hu[t] EXCEPT !.arg = UpfTeidOf(hu[t].imsi) + 1, !.pc = "enter"]
  <2>0. UpfTeidOf(hu[t].imsi) = 0
    BY AskedForFirst, HandlerRegisters
  <2>1. r.pc = "enter" /\ r.typ = hu[t].typ /\ r.arg = 1
    BY <1>0, <2>0 DEF HuStates
  <2>2. /\ hu' = [hu EXCEPT ![t] = r] /\ hu[t].pc = "ctx" /\ hu[t].typ = 8
        /\ UNCHANGED <<hw, hq, s1_id>>
    BY <1>3 DEF SetupContext, HuAt
  <2> HIDE DEF r
  <2>3. GoesOn(t, r)
    BY <2>1, <2>2 DEF GoesOn
  <2>. QED  BY <1>a, <1>b, <2>2, <2>3
<1>4. CASE SetupEnter(t)
  <2> DEFINE r == [hu[t] EXCEPT !.pc = "send"]
  <2>1. hu' = [hu EXCEPT ![t] = r]
    BY <1>4, <1>c DEF SetupEnter
  <2>2. WritesTeid(t, r)
    BY <1>4, <1>c DEF SetupEnter, HuAt, WritesTeid
  <2> HIDE DEF r
  <2>. QED  BY <1>a, <1>b, <2>1, <2>2
<1>5. CASE CompletionContext(t)
  <2> DEFINE r == [hu[t] EXCEPT !.pc = "erase"]
  <2>1. hu' = [hu EXCEPT ![t] = r]
    BY <1>5, <1>c DEF CompletionContext
  <2>2. GoesOn(t, r)
    BY <1>5, <1>c DEF CompletionContext, HuAt, GoesOn
  <2> HIDE DEF r
  <2>. QED  BY <1>a, <1>b, <2>1, <2>2
<1>6. CASE CompletionErase(t)
  <2> DEFINE r == [hu[t] EXCEPT !.pc = "send"]
  <2>1. hu' = [hu EXCEPT ![t] = r]
    BY <1>6, <1>c DEF CompletionErase
  <2>2. GoesOn(t, r)
    BY <1>6, <1>c DEF CompletionErase, HuAt, GoesOn
  <2> HIDE DEF r
  <2>. QED  BY <1>a, <1>b, <2>1, <2>2
<1>7. CASE TeardownContext(t)
  <2> DEFINE r == [hu[t] EXCEPT !.pc = "remove"]
  <2>1. hu' = [hu EXCEPT ![t] = r]
    BY <1>7, <1>c DEF TeardownContext
  <2>2. GoesOn(t, r)
    BY <1>7, <1>c DEF TeardownContext, HuAt, GoesOn
  <2> HIDE DEF r
  <2>. QED  BY <1>a, <1>b, <2>1, <2>2
<1>8. CASE TeardownRemove(t)
  <2> DEFINE r == [hu[t] EXCEPT !.pc = "send"]
  <2>1. hu' = [hu EXCEPT ![t] = r]
    BY <1>8, <1>c DEF TeardownRemove
  <2>2. WritesTeid(t, r)
    BY <1>8, <1>c DEF TeardownRemove, HuAt, WritesTeid
  <2> HIDE DEF r
  <2>. QED  BY <1>a, <1>b, <2>1, <2>2
<1>9. CASE HoUpfSend(t)
  <2>1. /\ hu' = [hu EXCEPT ![t] = IdleHu] /\ hu[t].pc = "send" /\ Asks(t)
        /\ UNCHANGED <<hq, s1_id>>
    BY <1>9 DEF HoUpfSend, HuAt, Asks, huFrame
  <2>2. IdleHu.pc = "idle"
    BY DEF IdleHu
  <2>3. CASE hu[t].w = Nobody
    <3>1. UNCHANGED hw
      BY <1>9, <2>3 DEF HoUpfSend
    <3>2. Answers(t, IdleHu)
      BY <2>1, <2>2, <3>1 DEF Answers
    <3>. QED  BY <1>a, <1>b, <2>1, <3>2
  <2>4. CASE hu[t].w # Nobody
    <3> DEFINE y == hu[t].w
               r == [hw[y] EXCEPT !.arg = hu[t].arg, !.pc = "answered"]
    <3>1. y \in Workers /\ hw[y].pc = "wait" /\ hw[y].typ = hu[t].typ
      BY <1>0, <2>1, <2>4, HandoverConstants, HandlerRegisters DEF SocketsOK, WaitsFor
    <3>2. r.pc = "answered" /\ r.typ = hw[y].typ /\ r.arg = hu[t].arg
      BY <3>1, HandlerRegisters DEF HwStates
    <3>3. hw' = [hw EXCEPT ![y] = r]
      BY <1>9, <2>4 DEF HoUpfSend
    <3> HIDE DEF r, y
    <3>4. hw'[y] = r /\ \A x \in Workers : x # y => hw'[x] = hw[x]
      BY <3>1, <3>3 DEF HoTypeOK
    <3>5. Answers(t, IdleHu)
      BY <2>1, <2>2, <3>1, <3>2, <3>4 DEF Answers
    <3>. QED  BY <1>a, <1>b, <2>1, <3>5
  <2>. QED  BY <2>3, <2>4
<1>. QED
  BY <1>1, <1>2, <1>3, <1>4, <1>5, <1>6, <1>7, <1>8, <1>9 DEF HoUpf

\* The invariant of the tunnel when a RAN takes a step.
LEMMA RanTunnel ==
    ASSUME UeCount = 1, TypeOK, HoTypeOK, TunnelInv, HoRan(0)
    PROVE  TunnelInv'
<1>0. /\ ho \in [Ues -> HoContexts] /\ ho[0] \in HoContexts /\ 0 \in Ues
      /\ up \in [Ues -> Seq(UplinkMessages)] /\ up[0] \in Seq(UplinkMessages)
      /\ t_up \in [Ues -> Seq(TargetMessages)] /\ t_up[0] \in Seq(TargetMessages)
      /\ to_src \in [Ues -> SUBSET HoToSources]
  BY OneSubscriber DEF TypeOK, ServerTypeOK, HoTypeOK
<1>a. UNCHANGED <<hw, hq, hu, s1_id>>
  BY DEF HoRan, InitiateHandover, HandleHandover, IndirectTunnelComplete,
     CompleteHandover, RequestTearDown, ranFrame, upfVars
<1>b. OnePlace'
  BY RanPlaces DEF TunnelInv
<1>c. HandlersOK'
  BY <1>a DEF TunnelInv, HandlersOK
<1>d. /\ SetupTeid /\ CompletionOK /\ PortsOK /\ TeardownOK
  BY DEF TunnelInv
<1>e. ASSUME NEW m, up' = [up EXCEPT ![0] = Append(up[0], m)]
      PROVE  \E i \in DOMAIN up'[0] : up'[0][i] = m
  <2> DEFINE last == Len(up[0]) + 1
  <2>1. up'[0] = Append(up[0], m)
    BY <1>0, <1>e
  <2>2. last \in DOMAIN Append(up[0], m) /\ Append(up[0], m)[last] = m
    BY <1>0
  <2> HIDE DEF last
  <2>. QED  BY <2>1, <2>2
<1>1. CASE InitiateHandover(0)
  <2>1. /\ ho'[0].src = 1 /\ ho'[0].last = ho[0].last /\ ho'[0].ind = ho[0].ind
        /\ ho[0].src = 0
    BY <1>0, <1>1 DEF InitiateHandover, HoContexts
  <2>2. UNCHANGED <<t_up, to_src>>
    BY <1>1 DEF InitiateHandover
  <2>3. SetupTeid'
    BY <1>a, <1>d, <2>1, <2>2 DEF SetupTeid
  <2>4. CompletionOK'
    BY <1>a, <1>d, <2>1, <2>2 DEF CompletionOK, Asks
  <2>5. PortsOK'
    BY <1>a, <1>d, <2>1, <2>2 DEF PortsOK, Asks
  <2>6. ho'[0].last = "none"
    BY <1>d, <2>1 DEF CompletionOK
  <2>7. TeardownOK'
    BY <2>6 DEF TeardownOK
  <2>. QED  BY <1>b, <1>c, <2>3, <2>4, <2>5, <2>7 DEF TunnelInv
<1>2. CASE HandleHandover(0)
  <2>1. PICK m \in to_tgt[0] :
          /\ ho' = [ho EXCEPT ![0] = [@ EXCEPT !.tgt = 3, !.enb = m.enb,
                                               !.mme = m.mme, !.ul = m.ul]]
          /\ t_up' = [t_up EXCEPT ![0] =
                        Append(@, [typ |-> 8, mme |-> m.mme, arg |-> m.enb])]
    BY <1>2 DEF HandleHandover
  <2>2. /\ ho'[0].src = ho[0].src /\ ho'[0].last = ho[0].last
        /\ ho'[0].ind = ho[0].ind
    BY <1>0, <2>1 DEF HoContexts
  <2>3. OfType(t_up'[0], 9) = OfType(t_up[0], 9)
    <3> DEFINE k == [typ |-> 8, mme |-> m.mme, arg |-> m.enb]
    <3>1. t_up'[0] = Append(t_up[0], k) /\ k.typ # 9
      BY <1>0, <2>1
    <3> HIDE DEF k
    <3>. QED  BY <1>0, <3>1, AppendOfType
  <2>4. UNCHANGED <<up, to_src>>
    BY <1>2 DEF HandleHandover
  <2>5. SetupTeid'
    BY <1>a, <1>d, <2>2, <2>4 DEF SetupTeid
  <2>6. CompletionOK'
    BY <1>a, <1>d, <2>2, <2>3, <2>4 DEF CompletionOK, Asks
  <2>7. PortsOK'
    BY <1>a, <1>d, <2>2, <2>4 DEF PortsOK, Asks
  <2>8. TeardownOK'
    BY <1>a, <1>d, <2>2, <2>4 DEF TeardownOK, TeardownUnderWay
  <2>. QED  BY <1>b, <1>c, <2>5, <2>6, <2>7, <2>8 DEF TunnelInv
<1>3. CASE IndirectTunnelComplete(0)
  <2>1. PICK m \in to_src[0] :
          /\ m.typ = 8
          /\ to_src' = [to_src EXCEPT ![0] = @ \ {m}]
          /\ ho' = [ho EXCEPT ![0] = [@ EXCEPT !.src = 4, !.ind = m.arg]]
    BY <1>3 DEF IndirectTunnelComplete
  <2>2. ho'[0].src = 4 /\ ho'[0].last = ho[0].last /\ ho'[0].ind = m.arg
    BY <1>0, <2>1 DEF HoContexts
  <2>3. m.arg = 1
    BY <1>d, <2>1 DEF SetupTeid
  <2>4. to_src'[0] = to_src[0] \ {m}
    BY <1>0, <2>1
  <2>5. UNCHANGED <<up, t_up>>
    BY <1>3 DEF IndirectTunnelComplete
  <2>6. SetupTeid'
    BY <1>a, <1>d, <2>2, <2>3, <2>4 DEF SetupTeid
  <2>7. CompletionOK'
    BY <2>2 DEF CompletionOK
  <2>8. PortsOK'
    BY <1>d, <2>1 DEF PortsOK
  <2>9. TeardownOK'
    BY <1>a, <1>d, <2>2, <2>5 DEF TeardownOK, TeardownUnderWay
  <2>. QED  BY <1>b, <1>c, <2>6, <2>7, <2>8, <2>9 DEF TunnelInv
<1>4. CASE CompleteHandover(0)
  <2>1. /\ ho'[0].src = ho[0].src /\ ho[0].src = 4 /\ ho'[0].last = "complete"
        /\ ho'[0].ind = ho[0].ind
    BY <1>0, <1>4 DEF CompleteHandover, HoContexts
  <2>2. UNCHANGED to_src
    BY <1>4 DEF CompleteHandover
  <2>3. SetupTeid'
    BY <1>a, <1>d, <2>1, <2>2 DEF SetupTeid
  <2>4. CompletionOK'
    BY <2>1 DEF CompletionOK
  <2>5. PortsOK'
    BY <1>d, <2>1 DEF PortsOK
  <2>6. TeardownOK'
    BY <2>1 DEF TeardownOK
  <2>. QED  BY <1>b, <1>c, <2>3, <2>4, <2>5, <2>6 DEF TunnelInv
<1>5. CASE RequestTearDown(0)
  <2>1. /\ ho'[0].src = ho[0].src /\ ho'[0].last = "teardown"
        /\ ho'[0].ind = ho[0].ind
    BY <1>0, <1>5 DEF RequestTearDown, HoContexts
  <2>2. PICK m \in to_src[0] : m.typ = 9 /\ to_src' = [to_src EXCEPT ![0] = @ \ {m}]
    BY <1>5 DEF RequestTearDown
  <2>3. to_src'[0] = to_src[0] \ {m}
    BY <1>0, <2>2
  <2>4. ho[0].src = 4 /\ ho[0].ind = 1
    BY <1>d, <2>2 DEF CompletionOK, SetupTeid
  <2> DEFINE k == [typ |-> 10, mme |-> ran[0].mme_s1ap_ue_id, arg |-> ho[0].ind]
  <2>5. up' = [up EXCEPT ![0] = Append(up[0], k)] /\ k.typ = 10 /\ k.arg = 1
    BY <1>5, <2>4 DEF RequestTearDown, SendUp
  <2> HIDE DEF k
  <2>6. SetupTeid'
    BY <1>a, <1>d, <2>1, <2>3 DEF SetupTeid
  <2>7. CompletionOK'
    BY <2>1, <2>4 DEF CompletionOK
  <2>8. PortsOK'
    BY <1>d, <2>4 DEF PortsOK
  <2>9. TeardownUnderWay'
    <3>1. PICK i \in DOMAIN up'[0] : up'[0][i] = k
      BY <1>e, <2>5
    <3>. QED  BY <2>5, <3>1 DEF TeardownUnderWay
  <2>. QED  BY <1>b, <1>c, <2>6, <2>7, <2>8, <2>9 DEF TunnelInv, TeardownOK
<1>. QED  BY <1>1, <1>2, <1>3, <1>4, <1>5 DEF HoRan

\* That of the core.
LEMMA CoreTunnel ==
    ASSUME UeCount = 1, TypeOK, HoTypeOK, ImsiTravels, TunnelInv, CoreStep,
           [Next]_vars, UNCHANGED hoVars
    PROVE  TunnelInv'
<1>0. /\ 0 \in Ues /\ up[0] \in Seq(UplinkMessages) /\ s1_id \in [Teids -> {0} \cup Imsis]
      /\ Teids = {0, 1} /\ Imsis = {1}
  BY OneSubscriber DEF TypeOK, ServerTypeOK, UpfTypeOK
<1>1. OnePlace'
  BY CorePlaces DEF TunnelInv
<1>2. HandlersOK' /\ SetupTeid' /\ CompletionOK' /\ PortsOK'
  BY DEF TunnelInv, HandlersOK, SetupTeid, CompletionOK, PortsOK, Asks, hoVars
<1>3. s1_id'[1] \in {s1_id[1], 0}
  <2>1. ASSUME NEW t \in UpfThreads, UpfThread(t) PROVE s1_id'[1] \in {s1_id[1], 0}
    <3>1. CASE CreateS1(t)
      <4>1. upf[t].imsi \in {0, 1} /\ upf[t].teid \in {0, 1}
        BY <1>0 DEF TypeOK, UpfTypeOK, UpfThreadStates
      <4>2. OwnTeid(upf[t].imsi, upf[t].teid)
        BY <3>1 DEF CreateS1, ImsiTravels, UpfEntersOwn, CreatePcs
      <4>3. upf[t].imsi # 0 => upf[t].teid # 1
        BY <4>1, <4>2, HandoverConstants DEF OwnTeid
      <4>. QED  BY <1>0, <3>1, <4>1, <4>3 DEF CreateS1
    <3>2. CASE DetachS1(t)
      BY <1>0, <3>2 DEF DetachS1
    <3>3. CASE UNCHANGED s1_id
      BY <3>3
    <3>. QED
      BY <2>1, <3>1, <3>2, <3>3 DEF UpfThread, UpfReceive, UpfSend, upfTables,
         CreateS11, CreateSgi, CreateContext, UpfLookup, ModifyContext, DetachContext,
         DetachS11, DetachSgi, RemUpfContext
  <2>2. CASE \E t \in UpfThreads : UpfStep(t)
    BY <2>1, <2>2 DEF UpfStep
  <2>3. CASE ~\E t \in UpfThreads : UpfStep(t)
    BY <2>3, TableSteps DEF upfTables
  <2>. QED  BY <2>2, <2>3
<1>4. ASSUME NEW i \in DOMAIN up[0], up[0][i].typ = 10, up[0][i].arg = 1
      PROVE  \E j \in DOMAIN up'[0] : up'[0][j].typ = 10 /\ up'[0][j].arg = 1
  <2>1. CASE up'[0] = up[0]
    BY <1>4, <2>1
  <2>2. CASE up[0] # <<>> /\ Head(up[0]).typ \notin {7, 10} /\ up'[0] = Tail(up[0])
    <3>1. /\ Len(up[0]) \in Nat /\ DOMAIN up[0] = 1 .. Len(up[0])
          /\ Head(up[0]) = up[0][1]
          /\ DOMAIN Tail(up[0]) = 1 .. (Len(up[0]) - 1)
          /\ \A k \in 1 .. (Len(up[0]) - 1) : Tail(up[0])[k] = up[0][k + 1]
      BY <1>0, <2>2, EmptySeq, HeadTailProperties
    <3>2. i # 1
      BY <1>4, <2>2, <3>1
    <3>3. i - 1 \in 1 .. (Len(up[0]) - 1) /\ (i - 1) + 1 = i
      BY <3>1, <3>2
    <3>. QED  BY <1>4, <2>2, <3>1, <3>3
  <2>3. CASE \E m : m.typ \notin {7, 10} /\ up'[0] = Append(up[0], m)
    BY <1>0, <1>4, <2>3, AppendOfType
  <2>. QED  BY <1>0, <2>1, <2>2, <2>3, CoreUplink
<1>5. TeardownUnderWay => TeardownUnderWay'
  BY <1>4 DEF TeardownUnderWay, hoVars
<1>6. TeardownOK'
  BY <1>3, <1>5 DEF TunnelInv, TeardownOK, hoVars
<1>. QED  BY <1>1, <1>2, <1>6 DEF TunnelInv

\* An element of a queue is still there when another is taken.
LEMMA TailKeeps ==
    ASSUME NEW R, NEW q \in Seq(R), q # <<>>, NEW i \in DOMAIN q
    PROVE  \/ q[i] = Head(q)
           \/ \E j \in DOMAIN Tail(q) : Tail(q)[j] = q[i]
<1>1. /\ Len(q) \in Nat /\ DOMAIN q = 1 .. Len(q) /\ Head(q) = q[1]
      /\ DOMAIN Tail(q) = 1 .. (Len(q) - 1)
      /\ \A k \in 1 .. (Len(q) - 1) : Tail(q)[k] = q[k + 1]
  BY EmptySeq, HeadTailProperties
<1>2. CASE i = 1
  BY <1>1, <1>2
<1>3. CASE i # 1
  <2>1. i - 1 \in 1 .. (Len(q) - 1) /\ (i - 1) + 1 = i
    BY <1>1, <1>3
  <2>. QED  BY <1>1, <2>1
<1>. QED  BY <1>2, <1>3

\* It is there too when another has been appended, and so is that.
LEMMA AppendKeeps ==
    ASSUME NEW R, NEW q \in Seq(R), NEW m
    PROVE  /\ \A i \in DOMAIN q : /\ i \in DOMAIN Append(q, m)
                                  /\ Append(q, m)[i] = q[i]
           /\ \E i \in DOMAIN Append(q, m) : Append(q, m)[i] = m
<1> DEFINE last == Len(q) + 1
<1>1. \A i \in DOMAIN q : i \in DOMAIN Append(q, m) /\ Append(q, m)[i] = q[i]
  OBVIOUS
<1>2. last \in DOMAIN Append(q, m) /\ Append(q, m)[last] = m
  OBVIOUS
<1> HIDE DEF last
<1>. QED  BY <1>1, <1>2

\* A handler of the AMF leaves a teardown under way where it was or moves it on.
LEMMA WorkerTeardown ==
    ASSUME TypeOK, HoTypeOK, UeCount = 1, N4PortsMatch, TeardownUnderWay,
           NEW w \in Workers, NEW r, hw'[w] = r,
           \A x \in Workers : x # w => hw'[x] = hw[x],
           \/ TakesSource(w, r) \/ TakesTarget(w, r) \/ LooksUp(w, r)
           \/ MovesOn(w, r) \/ TellsSource(w, r) \/ AsksUpf(w, r)
           \/ GivesUp(w, r)
    PROVE  TeardownUnderWay'
<1>0. up[0] \in Seq(UplinkMessages) /\ hq \in Seq(HoRequests)
  BY HandoverConstants DEF TypeOK, ServerTypeOK, HoTypeOK
<1>1. ASSUME NEW i \in DOMAIN up[0], up[0][i].typ = 10, up[0][i].arg = 1
      PROVE  TeardownUnderWay'
  <2>1. CASE TakesSource(w, r)
    <3>1. up[0] # <<>> /\ up'[0] = Tail(up[0])
      BY <2>1 DEF TakesSource
    <3>2. CASE up[0][i] = Head(up[0])
      <4>1. r.pc = "lookup" /\ r.typ = 10 /\ r.arg = 1
        BY <1>1, <2>1, <3>2 DEF TakesSource
      <4>. QED  BY <4>1 DEF TeardownUnderWay
    <3>3. CASE \E j \in DOMAIN Tail(up[0]) : Tail(up[0])[j] = up[0][i]
      <4>1. PICK j \in DOMAIN up'[0] : up'[0][j] = up[0][i]
        BY <3>1, <3>3
      <4>. QED  BY <1>1, <4>1 DEF TeardownUnderWay
    <3>. QED  BY <1>0, <3>1, <3>2, <3>3, TailKeeps
  <2>2. CASE ~TakesSource(w, r)
    <3>1. UNCHANGED up
      BY <2>2 DEF TakesTarget, LooksUp, MovesOn, TellsSource, AsksUpf, GivesUp
    <3>. QED  BY <1>1, <3>1 DEF TeardownUnderWay
  <2>. QED  BY <2>1, <2>2
<1>2. ASSUME NEW x \in Workers, hw[x].pc \in {"lookup", "ask"}, hw[x].typ = 10,
             hw[x].arg = 1
      PROVE  TeardownUnderWay'
  <2>1. CASE x # w
    BY <1>2, <2>1 DEF TeardownUnderWay
  <2>2. CASE x = w /\ LooksUp(w, r)
    <3>1. hw'[w].pc = "ask" /\ hw'[w].typ = 10 /\ hw'[w].arg = 1
      BY <1>2, <2>2 DEF LooksUp
    <3>. QED  BY <3>1 DEF TeardownUnderWay
  <2>3. CASE x = w /\ AsksUpf(w, r)
    <3>1. PICK m : m.typ = 10 /\ m.arg = 1 /\ hq' = Append(hq, m)
      BY <1>2, <2>3 DEF AsksUpf
    <3>2. PICK i \in DOMAIN Append(hq, m) : Append(hq, m)[i] = m
      BY <1>0, AppendKeeps
    <3>3. i \in DOMAIN hq' /\ hq'[i].typ = 10 /\ hq'[i].arg = 1
      BY <3>1, <3>2
    <3>. QED  BY <3>3 DEF TeardownUnderWay
  <2>4. CASE x = w /\ ~LooksUp(w, r) /\ ~AsksUpf(w, r)
    BY <1>2, <2>4 DEF TakesSource, TakesTarget, MovesOn, TellsSource, GivesUp
  <2>. QED  BY <2>1, <2>2, <2>3, <2>4
<1>3. ASSUME NEW i \in DOMAIN hq, hq[i].typ = 10, hq[i].arg = 1
      PROVE  TeardownUnderWay'
  <2>1. CASE AsksUpf(w, r)
    <3>1. PICK m : hq' = Append(hq, m)
      BY <2>1 DEF AsksUpf
    <3>2. i \in DOMAIN hq' /\ hq'[i] = hq[i]
      BY <1>0, <3>1, AppendKeeps
    <3>. QED  BY <1>3, <3>2 DEF TeardownUnderWay
  <2>2. CASE GivesUp(w, r)
    <3>1. i \in DOMAIN hq' /\ hq'[i].typ = 10 /\ hq'[i].arg = 1
      BY <1>3, <2>2, TimeoutKeeps DEF GivesUp
    <3>. QED  BY <3>1 DEF TeardownUnderWay
  <2>3. CASE ~AsksUpf(w, r) /\ ~GivesUp(w, r)
    <3>1. UNCHANGED hq
      BY <2>3 DEF TakesSource, TakesTarget, LooksUp, MovesOn, TellsSource
    <3>. QED  BY <1>3, <3>1 DEF TeardownUnderWay
  <2>. QED  BY <2>1, <2>2, <2>3
<1>4. ASSUME NEW t \in UpfThreads, hu[t].pc \in {"lookup", "ctx", "remove"},
             hu[t].typ = 10, hu[t].arg = 1
      PROVE  TeardownUnderWay'
  <2>1. hu'[t].pc = hu[t].pc /\ hu'[t].typ = hu[t].typ /\ hu'[t].arg = hu[t].arg
    BY TimeoutKeeps DEF TakesSource, TakesTarget, LooksUp, MovesOn, TellsSource,
       AsksUpf, GivesUp
  <2>. QED  BY <1>4, <2>1 DEF TeardownUnderWay
<1>. QED  BY <1>1, <1>2, <1>3, <1>4 DEF TeardownUnderWay

\* The invariant of the tunnel when a handler of the AMF takes a step.
LEMMA AmfTunnel ==
    ASSUME UeCount = 1, TypeOK, HoTypeOK, HoTypeOK', TunnelInv,
           NEW w \in Workers, HoAmf(w)
    PROVE  TunnelInv'
<1>0. /\ SetupTeid /\ CompletionOK /\ PortsOK /\ TeardownOK /\ HandlersOK
      /\ hq \in Seq(HoRequests) /\ hq' \in Seq(HoRequests)
      /\ t_up[0] \in Seq(TargetMessages)
  BY HandoverConstants DEF TunnelInv, HoTypeOK
<1>1. OnePlace'
  BY AmfPlaces DEF TunnelInv
<1>2. UNCHANGED <<ho, s1_id>>
  BY WorkerSteps
<1>3. PICK r : /\ hw'[w] = r /\ \A x \in Workers : x # w => hw'[x] = hw[x]
               /\ \/ TakesSource(w, r) \/ TakesTarget(w, r) \/ LooksUp(w, r)
                  \/ MovesOn(w, r) \/ TellsSource(w, r) \/ AsksUpf(w, r)
                  \/ GivesUp(w, r)
  BY WorkerSteps
<1>4. \A t \in UpfThreads : /\ hu'[t].pc = hu[t].pc /\ hu'[t].typ = hu[t].typ
                            /\ hu'[t].arg = hu[t].arg
  BY <1>3, TimeoutKeeps DEF TakesSource, TakesTarget, LooksUp, MovesOn, TellsSource,
     AsksUpf, GivesUp
<1>5. HandlersOK'
  <2>1. r.pc \in {"request", "target"} => r.typ = 7
    BY <1>0, <1>3 DEF HandlersOK, TakesSource, TakesTarget, LooksUp, MovesOn, TellsSource, AsksUpf,
       GivesUp
  <2>. QED  BY <1>0, <1>3, <1>4, <2>1 DEF HandlersOK
<1>6. SetupTeid'
  <2>1. r.pc # "answered"
    BY <1>3 DEF TakesSource, TakesTarget, LooksUp, MovesOn, TellsSource, AsksUpf,
       GivesUp
  <2>2. \A m \in to_src'[0] : m.typ = 8 => m.arg = 1
    <3>1. CASE TellsSource(w, r)
      BY <1>0, <3>1 DEF TellsSource, SetupTeid
    <3>2. CASE ~TellsSource(w, r)
      <4>1. UNCHANGED to_src
        BY <1>3, <3>2 DEF TakesSource, TakesTarget, LooksUp, MovesOn, AsksUpf, GivesUp
      <4>. QED  BY <1>0, <4>1 DEF SetupTeid
    <3>. QED  BY <3>1, <3>2
  <2>. QED  BY <1>0, <1>2, <1>3, <1>4, <2>1, <2>2 DEF SetupTeid
<1>7. CompletionOK'
  <2>1. CASE ho[0].src = 4
    BY <1>2, <2>1 DEF CompletionOK
  <2>2. CASE ho[0].src # 4
    <3>0. /\ ho[0].last = "none" /\ OfType(t_up[0], 9) = {}
          /\ hw[w].pc # "idle" => hw[w].typ # 9
          /\ OfType(hq, 9) = {}
          /\ \A t \in UpfThreads : Asks(t) => hu[t].typ # 9
          /\ \A m \in to_src[0] : m.typ # 9
      BY <1>0, <2>2 DEF CompletionOK
    <3>1. OfType(t_up'[0], 9) = {} /\ (r.pc # "idle" => r.typ # 9)
      <4>1. CASE TakesTarget(w, r)
        <5>1. OfType(Tail(t_up[0]), 9) = {} /\ Head(t_up[0]).typ # 9
          <6>1. t_up[0] # <<>>
            BY <4>1 DEF TakesTarget
          <6>. QED  BY <1>0, <3>0, <6>1, TailOfType
        <5>. QED  BY <4>1, <5>1 DEF TakesTarget
      <4>2. CASE ~TakesTarget(w, r)
        <5>1. UNCHANGED t_up
          BY <1>3, <4>2 DEF TakesSource, LooksUp, MovesOn, TellsSource, AsksUpf,
             GivesUp
        <5>2. r.pc # "idle" => r.typ # 9
          BY <1>3, <3>0, <4>2 DEF TakesSource, LooksUp, MovesOn, TellsSource, AsksUpf,
             GivesUp
        <5>. QED  BY <3>0, <5>1, <5>2
      <4>. QED  BY <4>1, <4>2
    <3>2. OfType(hq', 9) = {}
      <4>1. CASE AsksUpf(w, r)
        <5>1. \/ hq' = hq
              \/ \E m : m.typ # 9 /\ hq' = Append(hq, m)
          BY <3>0, <4>1 DEF AsksUpf
        <5>2. ASSUME NEW m, m.typ # 9, hq' = Append(hq, m)
              PROVE  OfType(hq', 9) = {}
          BY <1>0, <3>0, <5>2, AppendOfType
        <5>. QED  BY <3>0, <5>1, <5>2
      <4>2. CASE GivesUp(w, r)
        BY <3>0, <4>2, TimeoutKeeps DEF GivesUp, OfType
      <4>3. CASE ~AsksUpf(w, r) /\ ~GivesUp(w, r)
        <5>1. UNCHANGED hq
          BY <1>3, <4>3 DEF TakesSource, TakesTarget, LooksUp, MovesOn, TellsSource
        <5>. QED  BY <3>0, <5>1
      <4>. QED  BY <4>1, <4>2, <4>3
    <3>3. \A m \in to_src'[0] : m.typ # 9
      <4>1. CASE TellsSource(w, r)
        BY <3>0, <4>1 DEF TellsSource
      <4>2. CASE ~TellsSource(w, r)
        <5>1. UNCHANGED to_src
          BY <1>3, <4>2
             DEF TakesSource, TakesTarget, LooksUp, MovesOn, AsksUpf, GivesUp
        <5>. QED  BY <3>0, <5>1
      <4>. QED  BY <4>1, <4>2
    <3>4. \A x \in Workers : hw'[x].pc # "idle" => hw'[x].typ # 9
      BY <1>0, <1>3, <2>2, <3>1 DEF CompletionOK
    <3>5. \A t \in UpfThreads : Asks(t)' => hu'[t].typ # 9
      BY <1>4, <3>0 DEF Asks
    <3>. QED  BY <1>2, <3>0, <3>1, <3>2, <3>3, <3>4, <3>5 DEF CompletionOK
  <2>. QED  BY <2>1, <2>2
<1>8. PortsOK'
  <2>1. CASE N4PortsMatch
    BY <2>1 DEF PortsOK
  <2>2. CASE ~N4PortsMatch
    <3>0. /\ hq = <<>> /\ \A t \in UpfThreads : ~Asks(t)
          /\ \A x \in Workers : hw[x].pc # "answered"
          /\ to_src[0] = {} /\ ho[0].src # 4
      BY <1>0, <2>2 DEF PortsOK
    <3>1. r.pc # "answered" /\ UNCHANGED to_src
      BY <1>3, <3>0 DEF TakesSource, TakesTarget, LooksUp, MovesOn, TellsSource,
         AsksUpf, GivesUp
    <3>2. hq' = <<>>
      <4>1. CASE GivesUp(w, r)
        <5>1. DOMAIN hq' = {}
          BY <3>0, <4>1, TimeoutKeeps DEF GivesUp
        <5>2. Len(hq') \in Nat /\ DOMAIN hq' = 1 .. Len(hq')
          BY <1>0
        <5>3. Len(hq') = 0
          BY <5>1, <5>2
        <5>. QED  BY <1>0, <5>3, EmptySeq
      <4>2. CASE ~GivesUp(w, r)
        BY <1>3, <2>2, <3>0, <4>2
           DEF TakesSource, TakesTarget, LooksUp, MovesOn, TellsSource, AsksUpf
      <4>. QED  BY <4>1, <4>2
    <3>. QED  BY <1>2, <1>3, <1>4, <3>0, <3>1, <3>2 DEF PortsOK, Asks
  <2>. QED  BY <2>1, <2>2
<1>9. TeardownOK'
  <2> SUFFICES ASSUME ho[0].last = "teardown" PROVE s1_id[1] = 0 \/ TeardownUnderWay'
    BY <1>2 DEF TeardownOK
  <2>1. s1_id[1] = 0 \/ TeardownUnderWay
    BY <1>0 DEF TeardownOK
  <2>2. N4PortsMatch
    BY <1>0 DEF CompletionOK, PortsOK
  <2>. QED  BY <1>3, <2>1, <2>2, WorkerTeardown
<1>. QED  BY <1>1, <1>5, <1>6, <1>7, <1>8, <1>9 DEF TunnelInv

\* That of the threads of the UPF.
LEMMA UpfTunnel ==
    ASSUME UeCount = 1, TypeOK, HoTypeOK, SessionTeidsOwned, SocketsOK, TunnelInv,
           NEW t \in UpfThreads, HoUpf(t)
    PROVE  TunnelInv'
<1>0. /\ SetupTeid /\ CompletionOK /\ PortsOK /\ TeardownOK /\ HandlersOK /\ OnePlace
      /\ hq \in Seq(HoRequests) /\ s1_id \in [Teids -> {0} \cup Imsis]
      /\ 1 \in Teids
  BY OneSubscriber DEF TunnelInv, HoTypeOK, TypeOK, UpfTypeOK
<1>1. OnePlace'
  BY <1>0, UpfPlaces
<1>2. UNCHANGED <<ho, to_src, t_up, up>>
  BY ThreadSteps
<1>3. PICK r : /\ hu'[t] = r /\ \A x \in UpfThreads : x # t => hu'[x] = hu[x]
               /\ \/ TakesRequest(t, r) \/ GoesOn(t, r) \/ WritesTeid(t, r)
                  \/ Answers(t, r)
  BY ThreadSteps
<1>4. \A x \in Workers :
         \/ hw'[x] = hw[x]
         \/ /\ Answers(t, r) /\ hw[x].pc = "wait" /\ hw'[x].pc = "answered"
            /\ hw'[x].typ = hw[x].typ
            /\ hw'[x].typ = hu[t].typ /\ hw'[x].arg = hu[t].arg
  BY <1>3 DEF TakesRequest, GoesOn, WritesTeid, Answers
<1>5. HandlersOK'
  <2>1. /\ r.pc = "enter" => r.typ = 8
        /\ r.pc = "erase" => r.typ = 9
        /\ r.pc = "remove" => r.typ = 10
    BY <1>3 DEF TakesRequest, GoesOn, WritesTeid, Answers
  <2>2. \A x \in Workers : hw'[x].pc \in {"request", "target"} => hw'[x].typ = 7
    BY <1>0, <1>4 DEF HandlersOK
  <2>. QED  BY <1>0, <1>3, <2>1, <2>2 DEF HandlersOK
<1>6. SetupTeid'
  <2>1. r.pc \in {"enter", "send"} /\ r.typ = 8 => r.arg = 1
    BY <1>0, <1>3 DEF TakesRequest, GoesOn, WritesTeid, Answers, HandlersOK, SetupTeid
  <2>2. \A x \in Workers : hw'[x].pc = "answered" /\ hw'[x].typ = 8 => hw'[x].arg = 1
    BY <1>0, <1>4 DEF Answers, SetupTeid
  <2>. QED  BY <1>0, <1>2, <1>3, <2>1, <2>2 DEF SetupTeid
<1>7. CompletionOK'
  <2>1. CASE ho[0].src = 4
    BY <1>2, <2>1 DEF CompletionOK
  <2>2. CASE ho[0].src # 4
    <3>0. /\ ho[0].last = "none" /\ OfType(t_up[0], 9) = {}
          /\ \A x \in Workers : hw[x].pc # "idle" => hw[x].typ # 9
          /\ OfType(hq, 9) = {}
          /\ \A x \in UpfThreads : Asks(x) => hu[x].typ # 9
          /\ \A m \in to_src[0] : m.typ # 9
      BY <1>0, <2>2 DEF CompletionOK
    <3>1. OfType(hq', 9) = {} /\ (r.pc # "idle" => r.typ # 9)
      <4>1. CASE TakesRequest(t, r)
        <5>1. hq # <<>> /\ hq' = Tail(hq) /\ r.typ = Head(hq).typ
          BY <4>1 DEF TakesRequest
        <5>2. OfType(Tail(hq), 9) = {} /\ Head(hq).typ # 9
          BY <1>0, <3>0, <5>1, TailOfType
        <5>. QED  BY <5>1, <5>2
      <4>2. CASE ~TakesRequest(t, r)
        <5>1. UNCHANGED hq
          BY <1>3, <4>2 DEF GoesOn, WritesTeid, Answers
        <5>2. CASE Answers(t, r)
          BY <3>0, <5>1, <5>2 DEF Answers
        <5>3. CASE GoesOn(t, r) \/ WritesTeid(t, r)
          <6>1. r.typ = hu[t].typ /\ hu[t].pc # "idle"
            BY <5>3 DEF GoesOn, WritesTeid
          <6>. QED  BY <3>0, <5>1, <6>1 DEF Asks
        <5>. QED  BY <1>3, <4>2, <5>2, <5>3
      <4>. QED  BY <4>1, <4>2
    <3>2. \A x \in Workers : hw'[x].pc # "idle" => hw'[x].typ # 9
      BY <1>4, <3>0
    <3>3. \A x \in UpfThreads : Asks(x)' => hu'[x].typ # 9
      BY <1>3, <3>0, <3>1 DEF Asks
    <3>. QED  BY <1>2, <3>0, <3>1, <3>2, <3>3 DEF CompletionOK
  <2>. QED  BY <2>1, <2>2
<1>8. PortsOK'
  <2>1. CASE N4PortsMatch
    BY <2>1 DEF PortsOK
  <2>2. CASE ~N4PortsMatch
    BY <1>0, <1>3, <2>2 DEF PortsOK, Asks, TakesRequest, GoesOn, WritesTeid, Answers
  <2>. QED  BY <2>1, <2>2
<1>9. TeardownOK'
  <2> SUFFICES ASSUME ho[0].last = "teardown" PROVE s1_id'[1] = 0 \/ TeardownUnderWay'
    BY <1>2 DEF TeardownOK
  <2>1. ho[0].src = 4
    BY <1>0 DEF CompletionOK
  <2>2. hu[t].pc # "enter"
    <3>1. 0 \in Setups["known"]
      BY <2>1, SetupPlaces
    <3>2. Setups["upf"] = {}
      BY <1>0, <3>1, OnlyOne DEF Places
    <3>. QED  BY <1>0, <3>2, SetupPlaces DEF HandlersOK, Asks
  <2>3. s1_id'[1] \in {s1_id[1], 0}
    BY <1>0, <1>3, <2>2 DEF TakesRequest, GoesOn, WritesTeid, Answers
  <2>4. ASSUME TeardownUnderWay PROVE s1_id'[1] = 0 \/ TeardownUnderWay'
    <3>1. ASSUME NEW i \in DOMAIN up[0], up[0][i].typ = 10, up[0][i].arg = 1
          PROVE  TeardownUnderWay'
      BY <1>2, <3>1 DEF TeardownUnderWay
    <3>2. ASSUME NEW x \in Workers, hw[x].pc \in {"lookup", "ask"}, hw[x].typ = 10,
                 hw[x].arg = 1
          PROVE  TeardownUnderWay'
      <4>1. hw'[x] = hw[x]
        BY <1>4, <3>2
      <4>. QED  BY <3>2, <4>1 DEF TeardownUnderWay
    <3>3. ASSUME NEW i \in DOMAIN hq, hq[i].typ = 10, hq[i].arg = 1
          PROVE  TeardownUnderWay'
      <4>1. CASE TakesRequest(t, r)
        <5>1. hq # <<>> /\ hq' = Tail(hq)
          BY <4>1 DEF TakesRequest
        <5>2. CASE hq[i] = Head(hq)
          <6>1. r.pc = "lookup" /\ r.typ = 10 /\ r.arg = 1
            BY <3>3, <4>1, <5>2 DEF TakesRequest
          <6>. QED  BY <1>3, <6>1 DEF TeardownUnderWay
        <5>3. CASE \E j \in DOMAIN Tail(hq) : Tail(hq)[j] = hq[i]
          <6>1. PICK j \in DOMAIN hq' : hq'[j] = hq[i]
            BY <5>1, <5>3
          <6>. QED  BY <3>3, <6>1 DEF TeardownUnderWay
        <5>. QED  BY <1>0, <5>1, <5>2, <5>3, TailKeeps
      <4>2. CASE ~TakesRequest(t, r)
        <5>1. UNCHANGED hq
          BY <1>3, <4>2 DEF GoesOn, WritesTeid, Answers
        <5>. QED  BY <3>3, <5>1 DEF TeardownUnderWay
      <4>. QED  BY <4>1, <4>2
    <3>4. ASSUME NEW x \in UpfThreads, hu[x].pc \in {"lookup", "ctx", "remove"},
                 hu[x].typ = 10, hu[x].arg = 1
          PROVE  s1_id'[1] = 0 \/ TeardownUnderWay'
      <4>1. CASE x # t
        BY <1>3, <3>4, <4>1 DEF TeardownUnderWay
      <4>2. CASE x = t /\ GoesOn(t, r)
        <5>1. r.pc \in {"ctx", "remove"} /\ r.typ = 10 /\ r.arg = 1
          BY <3>4, <4>2 DEF GoesOn
        <5>. QED  BY <1>3, <5>1 DEF TeardownUnderWay
      <4>3. CASE x = t /\ WritesTeid(t, r)
        BY <1>0, <3>4, <4>3 DEF WritesTeid
      <4>4. CASE x = t /\ (TakesRequest(t, r) \/ Answers(t, r))
        BY <3>4, <4>4 DEF TakesRequest, Answers, Asks
      <4>. QED  BY <1>3, <4>1, <4>2, <4>3, <4>4
    <3>. QED  BY <2>4, <3>1, <3>2, <3>3, <3>4 DEF TeardownUnderWay
  <2>5. s1_id[1] = 0 \/ TeardownUnderWay
    BY <1>0 DEF TeardownOK
  <2>. QED  BY <2>3, <2>4, <2>5
<1>. QED  BY <1>1, <1>5, <1>6, <1>7, <1>8, <1>9 DEF TunnelInv

\* No handover is under way at the start.
LEMMA TunnelInit == Init /\ HoInit => SocketsOK /\ (UeCount = 1 => TunnelInv)
<1> SUFFICES ASSUME Init, HoInit PROVE SocketsOK /\ (UeCount = 1 => TunnelInv)
  OBVIOUS
<1>0. /\ hq = <<>> /\ hw = [w \in Workers |-> IdleHw]
      /\ hu = [t \in UpfThreads |-> IdleHu]
      /\ IdleHw.pc = "idle" /\ IdleHu.pc = "idle"
      /\ \A i \in DOMAIN hq : FALSE
  BY DEF HoInit, IdleHw, IdleHu
<1>1. SocketsOK
  BY <1>0 DEF SocketsOK, Asks
<1>2. ASSUME UeCount = 1 PROVE TunnelInv
  <2>0. /\ up[0] = <<>> /\ t_up[0] = <<>> /\ to_tgt[0] = {} /\ to_src[0] = {}
        /\ ho[0].src = 0 /\ ho[0].last = "none"
    BY <1>2, OneSubscriber DEF Init, ServerInit, HoInit, NewHo
  <2>1. \A k : OfType(up[0], k) = {} /\ OfType(t_up[0], k) = {} /\ OfType(hq, k) = {}
    BY <1>0, <2>0 DEF OfType
  <2>2. \A p \in Places : Setups[p] = {}
    BY <1>0, <2>0, <2>1, SetupPlaces DEF Places, HoldsSetup, Asks
  <2>3. OnePlace
    BY <2>2 DEF OnePlace, AtMostOne
  <2>4. HandlersOK /\ SetupTeid /\ CompletionOK /\ PortsOK /\ TeardownOK
    BY <1>0, <2>0, <2>1
       DEF HandlersOK, SetupTeid, CompletionOK, PortsOK, TeardownOK, Asks
  <2>. QED  BY <2>3, <2>4 DEF TunnelInv
<1>. QED  BY <1>1, <1>2

\* Every step keeps the invariant of the tunnel of a single subscriber.
LEMMA TunnelStep ==
    ASSUME UeCount = 1, HandoverTypesInv, HandoverTypesInv', SocketsOK, TunnelInv,
           [HoNext]_<<vars, hoVars>>
    PROVE  TunnelInv'
<1>0. TypeOK /\ HoTypeOK /\ HoTypeOK' /\ ImsiTravels /\ SessionTeidsOwned /\ Ues = {0}
  BY OneSubscriber DEF HandoverTypesInv
<1>1. CASE CoreStep /\ [Next]_vars /\ UNCHANGED hoVars
  BY <1>0, <1>1, CoreTunnel
<1>2. CASE \E n \in Ues : HoRan(n)
  BY <1>0, <1>2, RanTunnel
<1>3. CASE \E w \in Workers : HoAmf(w)
  BY <1>0, <1>3, AmfTunnel
<1>4. CASE \E t \in UpfThreads : HoUpf(t)
  BY <1>0, <1>4, UpfTunnel
<1>. QED  BY <1>1, <1>2, <1>3, <1>4, HandoverSteps

\* However many handlers wait, give up or are answered late, the socket of a
\* handler is in one request of the UPF at most, and the handler that made it
\* still waits for an answer of that kind: an answer ends no other wait
\* (amf.cpp:928-1092, upf.cpp: the handlers of types 4 to 6, server.snd).
THEOREM HandoverSockets == HoSpec => []SocketsOK
<1>1. Init /\ HoInit => SocketsOK
  BY TunnelInit
<1>2. HandoverTypesInv /\ SocketsOK /\ [HoNext]_<<vars, hoVars>> => SocketsOK'
  BY SocketsStep DEF HandoverTypesInv
<1>. QED  BY <1>1, <1>2, HandoverTypesHold, PTL DEF HoSpec

\* With one subscriber, whatever teardown a source has asked for and nobody is
\* busy with any more, the UPF has dropped the entry of the indirect tunnel, also
\* when the AMF had given up the wait (ran.cpp:438, upf.cpp,
\* handle_indirect_tunnel_teardown_).  That needs the setup to be over when the
\* teardown is asked for: a second one, or a late one, would enter it again.
THEOREM TornDownTunnelGone ==
    ASSUME UeCount = 1
    PROVE  HoSpec => []TornDownIsGone
<1>1. Init /\ HoInit => TunnelInv
  BY TunnelInit
<1>2. HandoverTypesInv /\ HandoverTypesInv' /\ SocketsOK /\ TunnelInv
         /\ [HoNext]_<<vars, hoVars>> => TunnelInv'
  BY TunnelStep
<1>3. HandoverTypesInv /\ TunnelInv => TornDownIsGone
  <2> SUFFICES ASSUME HandoverTypesInv, TunnelInv, NEW n \in Ues,
                      ho[n].last = "teardown", ~TearingDown(n)
               PROVE  s1_id[ho[n].ind] = 0
    BY DEF TornDownIsGone
  <2>1. n = 0 /\ \A w \in Workers : hw[w].ue = n
    BY OneSubscriber, HandlerRegisters DEF HandoverTypesInv
  <2>2. ~TeardownUnderWay
    BY <2>1 DEF TearingDown, TeardownUnderWay
  <2>3. s1_id[1] = 0
    BY <2>1, <2>2 DEF TunnelInv, TeardownOK
  <2>4. ho[0].ind = 1
    BY <2>1 DEF TunnelInv, CompletionOK, SetupTeid
  <2>. QED  BY <2>1, <2>3, <2>4
<1>. QED  BY <1>1, <1>2, <1>3, HandoverTypesHold, HandoverSockets, PTL DEF HoSpec

----------------------------------------------------------------------------
(* What a handover leaves to the core                                      *)

\* No step of a handover gives or removes an id, or enters an address.
LEMMA HandoverLeaves ==
    ASSUME \/ \E n \in Ues : HoRan(n)
           \/ \E w \in Workers : HoAmf(w)
           \/ \E t \in UpfThreads : HoUpf(t)
    PROVE  UNCHANGED <<ue_count, s1amf_id, sgi_id, s11_id>>
<1>1. ASSUME NEW n \in Ues, HoRan(n)
      PROVE  UNCHANGED <<ue_count, s1amf_id, sgi_id, s11_id>>
  BY <1>1 DEF HoRan, InitiateHandover, HandleHandover, IndirectTunnelComplete,
     CompleteHandover, RequestTearDown, ranFrame, upfVars, amfVars, upfTables
<1>2. ASSUME NEW w \in Workers, HoAmf(w)
      PROVE  UNCHANGED <<ue_count, s1amf_id, sgi_id, s11_id>>
  BY <1>2 DEF HoAmf, HoRuns, HoAccepted, HoReceive, HoReceiveTarget, HoLookup,
     RequestTarget, HoAsk, HoAnswered, HoTimeout, TellTarget, TellSource, TellNothing,
     hwFrame, upfVars, upfTables
<1>3. ASSUME NEW t \in UpfThreads, HoUpf(t)
      PROVE  UNCHANGED <<ue_count, s1amf_id, sgi_id, s11_id>>
  BY <1>3 DEF HoUpf, HoUpfReceive, HoUpfLookup, SetupContext, SetupEnter,
     CompletionContext, CompletionErase, TeardownContext, TeardownRemove, HoUpfSend,
     huFrame, amfVars
<1>. QED  BY <1>1, <1>2, <1>3

\* The ids of later attaches stay free.
LEMMA HandoverFreshIds ==
    ASSUME TypeOK, FreshIds, [HoNext]_<<vars, hoVars>>
    PROVE  FreshIds'
<1>1. CASE CoreStep /\ [Next]_vars /\ UNCHANGED hoVars
  BY <1>1, FreshIdsStep
<1>2. CASE UNCHANGED <<ue_count, s1amf_id>>
  BY <1>2 DEF FreshIds
<1>. QED  BY <1>1, <1>2, HandoverSteps, HandoverLeaves

\* A handover finds its subscriber by the id of the session it is part of, as do
\* the messages of an attach or a detach beside it (amf.cpp, get_guti): as long
\* as the counter has not wrapped, the id is that subscriber's or removed, never
\* another's, at whatever step the handover is.
THEOREM HandoverIds == HoSpec => IdNeverReused
<1>1. TypeOK /\ FreshIds /\ [HoNext]_<<vars, hoVars>> =>
         [ue_count' < IdSpace =>
             \A id \in MmeIds :
                s1amf_id[id] # 0 => s1amf_id'[id] \in {0, s1amf_id[id]}]_vars
  <2> SUFFICES ASSUME TypeOK, FreshIds, [HoNext]_<<vars, hoVars>>,
                      ue_count' < IdSpace, NEW id \in MmeIds, s1amf_id[id] # 0
               PROVE  s1amf_id'[id] \in {0, s1amf_id[id]}
    OBVIOUS
  <2>1. CASE CoreStep /\ [Next]_vars /\ UNCHANGED hoVars
    BY <2>1, IdStep
  <2>2. CASE UNCHANGED s1amf_id
    BY <2>2
  <2>. QED  BY <2>1, <2>2, HandoverSteps, HandoverLeaves
<1>2. HandoverTypesInv => TypeOK
  BY DEF HandoverTypesInv
<1>3. Init /\ HoInit => FreshIds
  BY FreshIdsInit
<1>. QED
  BY <1>1, <1>2, <1>3, HandoverFreshIds, HandoverTypesHold, PTL DEF HoSpec, IdNeverReused

\* An address the SGi lookup holds is that of the subscriber it leads to.
AddressesOwned == \A a \in Addresses : sgi_id[a] # 0 => a = IpAddr(sgi_id[a])

\* One critical section of the UPF enters an address, and it is made of the IMSI.
LEMMA AddressesThread ==
    ASSUME UpfTypeOK, AddressesOwned, NEW t \in UpfThreads, UpfThread(t)
    PROVE  AddressesOwned'
<1>0. sgi_id \in [Addresses -> {0} \cup Imsis]
  BY DEF UpfTypeOK
<1>1. CASE CreateSgi(t)
  BY <1>0, <1>1 DEF CreateSgi, AddressesOwned
<1>2. CASE DetachSgi(t)
  BY <1>0, <1>2 DEF DetachSgi, AddressesOwned
<1>3. CASE UNCHANGED sgi_id
  BY <1>3 DEF AddressesOwned
<1>. QED
  BY <1>1, <1>2, <1>3 DEF UpfThread, UpfReceive, UpfSend, upfTables, CreateS11, CreateS1,
     CreateContext, UpfLookup, ModifyContext, DetachContext, DetachS11, DetachS1,
     RemUpfContext

\* An indirect tunnel takes the uplink teid of the next subscriber, but however
\* many handovers there are, the two other lookups of the UPF and the teid in a
\* context stay each subscriber's own: a request of the SMF or a packet from
\* outside never finds another one (upf.cpp, s11_id, sgi_id and ue_ctx).
THEOREM HandoverLookups == HoSpec => [](SessionTeidsOwned /\ AddressesOwned)
<1>1. Init => AddressesOwned
  BY DEF Init, UpfInit, AddressesOwned
<1>2. HandoverTypesInv /\ AddressesOwned /\ [HoNext]_<<vars, hoVars>> => AddressesOwned'
  <2> SUFFICES ASSUME HandoverTypesInv, AddressesOwned, [HoNext]_<<vars, hoVars>>
               PROVE  AddressesOwned'
    OBVIOUS
  <2>1. CASE \E t \in UpfThreads : UpfStep(t)
    BY <2>1, AddressesThread DEF UpfStep, HandoverTypesInv, TypeOK
  <2>2. CASE ~(\E t \in UpfThreads : UpfStep(t)) /\ [Next]_vars
    <3>1. UNCHANGED upfTables
      BY <2>2, TableSteps DEF HandoverTypesInv
    <3>. QED  BY <3>1 DEF upfTables, AddressesOwned
  <2>3. CASE UNCHANGED sgi_id
    BY <2>3 DEF AddressesOwned
  <2>. QED  BY <2>1, <2>2, <2>3, HandoverSteps, HandoverLeaves
<1>3. HandoverTypesInv => SessionTeidsOwned
  BY DEF HandoverTypesInv
<1>. QED  BY <1>1, <1>2, <1>3, HandoverTypesHold, PTL DEF HoSpec
=============================================================================
