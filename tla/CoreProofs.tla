---------------------------- MODULE CoreProofs ----------------------------
(***************************************************************************)
(* What holds of the core for every number of UEs, workers, UPF threads,   *)
(* cycles, timeouts and losses.                                            *)
(*                                                                         *)
(* Type correctness comes first, one lemma per component and in it one     *)
(* step per action; a component that an action leaves alone keeps its part *)
(* of the invariant because its variables do not change.                   *)
(*                                                                         *)
(* Then two safety properties: an id in use is not given to another        *)
(* subscriber before the counter wraps, and the lookup tables of the UPF   *)
(* never lead to a subscriber other than the owner of the teid or of the   *)
(* address.                                                                *)
(***************************************************************************)
EXTENDS Core, SequenceTheorems, TLAPS

USE UeCountAssumption, WorkerCountAssumption, IdSpaceAssumption

\* What the identities of a subscriber range over.
LEMMA IdentityTypes ==
    /\ 0 \in Teids /\ 1 \in Teids /\ 0 \in Addresses /\ 0 \in Ues
    /\ 0 \in Workers /\ 0 \in MmeIds
    /\ \A i \in Imsis : /\ IpAddr(i) \in Addresses /\ GetGuti(i) \in Imsis
                        /\ GetS11CteidAmf(i) \in Teids /\ DbKey(i) \in Nat
    /\ \A n \in Ues : Imsi(n) \in Imsis /\ n \in Nat
    /\ Teids \subseteq Nat /\ Imsis \subseteq Nat /\ MmeIds \subseteq Nat
    /\ 0 \notin Imsis
BY DEF Teids, Addresses, Ues, Workers, MmeIds, Imsis, IpAddr, GetGuti,
       GetS11CteidAmf, DbKey, Imsi

\* Counters that wrap stay in range.
LEMMA ModType == ASSUME NEW a \in Nat, NEW b \in Nat \ {0}
                 PROVE  a % b \in 0 .. (b - 1)
OBVIOUS

\* Sending to and receiving from a queue of S.
LEMMA QueueType ==
    ASSUME NEW S, NEW q \in Seq(S)
    PROVE  /\ \A e \in S : Append(q, e) \in Seq(S)
           /\ q # <<>> => Head(q) \in S /\ Tail(q) \in Seq(S)
BY AppendProperties, HeadTailProperties

----------------------------------------------------------------------------
(* The UPF                                                                 *)

\* A thread that moves to a pc which is not one of the two that use an IMSI.
LEMMA UpfGotoType ==
    ASSUME UpfTypeOK, NEW t \in UpfThreads,
           NEW pc \in UpfPcs \ {"m_ctx", "d_ctx"}, UpfGoto(t, pc)
    PROVE  /\ upf' \in [UpfThreads -> UpfThreadStates]
           /\ \A x \in UpfThreads :
                 upf'[x].pc \in {"m_ctx", "d_ctx"} => upf'[x].imsi # 0
<1>1. [upf[t] EXCEPT !.pc = pc] \in UpfThreadStates
  BY DEF UpfTypeOK, UpfThreadStates
<1>. QED  BY <1>1 DEF UpfTypeOK, UpfGoto, UpfThreadStates

\* A look at a context that is there finds it, and one at a context that is not
\* leaves all but the uplink teid as it was.
LEMMA LookFinds ==
    ASSUME upf_ctx \in [Imsis -> UpfContexts], NEW i \in Imsis, NEW c \in Looked(i)
    PROVE  /\ c \in UpfContexts
           /\ c.present
           /\ c.ip_addr = upf_ctx[i].ip_addr /\ c.s11_cteid = upf_ctx[i].s11_cteid
           /\ c.enodeb = upf_ctx[i].enodeb
           /\ upf_ctx[i].present => c = upf_ctx[i]
<1>1. CASE upf_ctx[i].present
  BY <1>1 DEF Looked, UpfContexts
<1>2. CASE ~upf_ctx[i].present
  <2>1. PICK ul \in Teids : c = [upf_ctx[i] EXCEPT !.present = TRUE, !.s1_uteid_ul = ul]
    BY <1>2 DEF Looked
  <2>. QED  BY <1>2, <2>1 DEF UpfContexts
<1>. QED  BY <1>1, <1>2

\* Every step of an N4 thread of the UPF (upf.cpp, handle_create_session to
\* handle_detach) keeps the types of the UPF.
LEMMA UpfThreadType ==
    ASSUME PlatformTypeOK, UpfTypeOK, NEW t \in UpfThreads, UpfThread(t)
    PROVE  PlatformTypeOK' /\ UpfTypeOK'
<1> USE DEF UpfTypeOK, PlatformTypeOK
<1>0. /\ upf[t] \in UpfThreadStates
      /\ upf[t].typ \in N4Types /\ upf[t].w \in Workers /\ upf[t].teid \in Teids
      /\ upf[t].imsi \in {0} \cup Imsis /\ upf[t].dl \in Teids
      /\ upf[t].ip \in Addresses
  BY DEF UpfThreadStates
<1>a. IdleThread \in UpfThreadStates /\ NoUpfContext \in UpfContexts
  BY IdentityTypes
     DEF IdleThread, NoUpfContext, UpfThreadStates, UpfContexts, UpfPcs, N4Types
<1>1. CASE UpfReceive(t)
  <2> DEFINE m == Head(n4_req)
             first == [create |-> "c_s11", modify |-> "m_lookup",
                       release |-> "d_lookup"]
  <2>1. m \in N4Requests /\ Tail(n4_req) \in Seq(N4Requests)
    BY <1>1, QueueType DEF UpfReceive
  <2>2. m.typ \in N4Types /\ m.w \in Workers /\ m.teid \in Teids
        /\ m.imsi \in {0} \cup Imsis /\ m.dl \in Teids
    BY <2>1 DEF N4Requests
  <2>3. first[m.typ] \in UpfPcs \ {"m_ctx", "d_ctx"}
    BY <2>2 DEF N4Types, UpfPcs
  <2>4. [pc |-> first[m.typ], typ |-> m.typ, w |-> m.w, teid |-> m.teid,
         imsi |-> m.imsi, dl |-> m.dl, ip |-> 0] \in UpfThreadStates
    BY <2>2, <2>3, IdentityTypes DEF UpfThreadStates
  <2>. QED  BY <1>1, <2>1, <2>3, <2>4 DEF UpfReceive, upfTables
<1>2. CASE UpfSend(t)
  <2>1. [typ |-> upf[t].typ, teid |-> upf[t].teid,
         ip |-> IF upf[t].typ = "create" THEN upf[t].ip ELSE 0] \in N4Replies
    BY <1>0, IdentityTypes DEF N4Replies
  <2>2. n4_rsp' \in [Workers -> Seq(N4Replies)]
    BY <1>0, <1>2, <2>1, QueueType DEF UpfSend
  <2>3. [upf[t] EXCEPT !.pc = "d_s11"] \in UpfThreadStates
    BY <1>0 DEF UpfThreadStates, UpfPcs
  <2>4. upf' \in [UpfThreads -> UpfThreadStates]
    BY <1>a, <1>2, <2>3 DEF UpfSend
  <2>5. \A x \in UpfThreads : upf'[x].pc \in {"m_ctx", "d_ctx"} => upf'[x].imsi # 0
    BY <1>0, <1>2 DEF UpfSend, IdleThread, UpfThreadStates
  <2>. QED  BY <1>2, <2>2, <2>4, <2>5 DEF UpfSend, upfTables
<1>3. CASE CreateS11(t)
  BY <1>0, <1>3, UpfGotoType DEF CreateS11, UpfPcs, n4Vars
<1>4. CASE CreateS1(t)
  BY <1>0, <1>4, UpfGotoType DEF CreateS1, UpfPcs, n4Vars
<1>5. CASE CreateSgi(t)
  <2>1. IpAddr(upf[t].imsi) \in Addresses
    BY <1>0, IdentityTypes DEF IpAddr
  <2>2. [upf[t] EXCEPT !.ip = IpAddr(upf[t].imsi), !.pc = "c_ctx"] \in UpfThreadStates
    BY <1>0, <2>1 DEF UpfThreadStates, UpfPcs
  <2>3. upf' = [upf EXCEPT ![t] = [upf[t] EXCEPT !.ip = IpAddr(upf[t].imsi), !.pc = "c_ctx"]]
    BY <1>0, <1>5 DEF CreateSgi
  <2>. QED  BY <1>0, <1>5, <2>1, <2>2, <2>3 DEF CreateSgi, UpfThreadStates, n4Vars
<1>6. CASE CreateContext(t)
  <2>1. upf_ctx' \in [Imsis -> UpfContexts]
    BY <1>0, <1>6 DEF CreateContext, UpfContexts
  <2>. QED  BY <1>6, <2>1, UpfGotoType DEF CreateContext, UpfPcs, n4Vars
<1>7. CASE UpfLookup(t)
  <2> DEFINE imsi == s11_id[upf[t].teid]
             next == IF upf[t].typ = "modify" THEN "m_ctx" ELSE "d_ctx"
  <2>1. CASE imsi = 0
    BY <1>7, <2>1 DEF UpfLookup, Exit, Processes, upfTables, n4Vars
  <2>2. CASE imsi # 0
    <3>1. [upf[t] EXCEPT !.imsi = imsi, !.pc = next] \in UpfThreadStates
      BY <1>0 DEF UpfThreadStates, UpfPcs
    <3>2. upf' = [upf EXCEPT ![t] = [upf[t] EXCEPT !.imsi = imsi, !.pc = next]]
      BY <1>0, <1>7, <2>2 DEF UpfLookup
    <3>. QED
      BY <1>0, <1>7, <2>2, <3>1, <3>2
         DEF UpfLookup, UpfThreadStates, upfTables, n4Vars
  <2>. QED  BY <2>1, <2>2
<1>8. CASE ModifyContext(t)
  <2>0. upf[t].imsi \in Imsis
    BY <1>0, <1>8 DEF ModifyContext
  <2>1. upf_ctx' \in [Imsis -> UpfContexts]
    <3>1. PICK c \in Looked(upf[t].imsi) :
             upf_ctx' = [upf_ctx EXCEPT ![upf[t].imsi] =
                            [c EXCEPT !.s1_uteid_dl = upf[t].dl, !.enodeb = TRUE]]
      BY <1>8 DEF ModifyContext
    <3>2. c \in UpfContexts /\ upf[t].dl \in Teids
      BY <1>0, <2>0, LookFinds DEF UpfThreadStates
    <3>. QED  BY <1>0, <3>1, <3>2 DEF UpfContexts
  <2> DEFINE r == [upf[t] EXCEPT !.teid = upf_ctx[upf[t].imsi].s11_cteid, !.pc = "send"]
  <2>2. r \in UpfThreadStates
    BY <1>0, <2>0 DEF UpfThreadStates, UpfContexts, UpfPcs
  <2>3. upf' = [upf EXCEPT ![t] = r]
    BY <1>0, <1>8 DEF ModifyContext
  <2>. QED  BY <1>0, <1>8, <2>1, <2>2, <2>3 DEF ModifyContext, UpfThreadStates, n4Vars
<1>9. CASE DetachContext(t)
  <2> DEFINE ctx == upf_ctx[upf[t].imsi]
  <2>0. ctx \in UpfContexts
    BY <1>0, <1>9 DEF DetachContext
  <2>1. CASE ~ctx.present
    BY <1>9, <2>1 DEF DetachContext, Exit, Processes, upfTables, n4Vars
  <2>2. CASE ctx.present
    <3> DEFINE r == [upf[t] EXCEPT !.teid = ctx.s11_cteid, !.dl = ctx.s1_uteid_ul,
                                   !.ip = ctx.ip_addr, !.pc = "send"]
    <3>1. r \in UpfThreadStates
      BY <1>0, <2>0 DEF UpfThreadStates, UpfContexts, UpfPcs
    <3>2. upf' = [upf EXCEPT ![t] = r]
      BY <1>0, <1>9, <2>2 DEF DetachContext
    <3>. QED
      BY <1>0, <1>9, <2>2, <3>1, <3>2
         DEF DetachContext, UpfThreadStates, upfTables, n4Vars
  <2>. QED  BY <2>1, <2>2
<1>10. CASE DetachS11(t)
  BY <1>10, UpfGotoType DEF DetachS11, UpfPcs, n4Vars
<1>11. CASE DetachS1(t)
  BY <1>11, UpfGotoType DEF DetachS1, UpfPcs, n4Vars
<1>12. CASE DetachSgi(t)
  BY <1>12, UpfGotoType DEF DetachSgi, UpfPcs, n4Vars
<1>13. CASE RemUpfContext(t)
  BY <1>a, <1>13 DEF RemUpfContext, IdleThread, n4Vars
<1>. QED
  BY <1>1, <1>2, <1>3, <1>4, <1>5, <1>6, <1>7, <1>8, <1>9, <1>10, <1>11, <1>12,
     <1>13 DEF UpfThread

----------------------------------------------------------------------------
(* The SMF                                                                 *)

\* A lost datagram leaves queues of the same type.
LEMMA LoseType ==
    ASSUME UpfTypeOK, LoseRequest \/ \E w \in Workers : LoseReply(w)
    PROVE  UpfTypeOK' /\ UNCHANGED exited
<1> USE DEF UpfTypeOK
<1>1. CASE LoseRequest
  BY <1>1, QueueType, MaxLossesAssumption DEF LoseRequest, upfTables
<1>2. CASE \E w \in Workers : LoseReply(w)
  <2>1. PICK w \in Workers : LoseReply(w)
    BY <1>2
  <2>2. n4_rsp' \in [Workers -> Seq(N4Replies)]
    BY <2>1, QueueType DEF LoseReply
  <2>. QED  BY <2>1, <2>2, MaxLossesAssumption DEF LoseReply, upfTables
<1>. QED  BY <1>1, <1>2

\* A well-formed request makes a well-formed queue (smf.cpp, the three sends).
LEMMA SendN4Type ==
    ASSUME UpfTypeOK, NEW w \in Workers, NEW typ \in N4Types, NEW teid \in Teids,
           NEW imsi \in {0} \cup Imsis, NEW dl \in Teids,
           SendN4(w, typ, teid, imsi, dl), UNCHANGED <<upfTables, upf, n4_rsp, losses>>
    PROVE  UpfTypeOK'
<1>1. [typ |-> typ, w |-> w, teid |-> teid, imsi |-> imsi, dl |-> dl] \in N4Requests
  BY DEF N4Requests
<1>. QED  BY <1>1, QueueType DEF SendN4, UpfTypeOK, upfTables

\* What the handlers of the UDM write into a context keeps it a context.
LEMMA UdmUpdateTypes ==
    ASSUME NEW d \in UdmContexts
    PROVE  /\ \A i \in {0} \cup Imsis, m \in MmeIds :
                [d EXCEPT !.imsi = i, !.mme_s1ap_ue_id = m] \in UdmContexts
           /\ \A x \in Nat, y \in Nat :
                [d EXCEPT !.xres = x, !.k_asme = y] \in UdmContexts
           /\ \A x \in Nat : [d EXCEPT !.k_nas_enc = x] \in UdmContexts
           /\ \A x \in Nat : [d EXCEPT !.k_nas_int = x] \in UdmContexts
           /\ \A t \in Teids : [d EXCEPT !.s11_cteid_amf = t] \in UdmContexts
           /\ \A t \in Teids, a \in Addresses, u \in Teids, x \in Nat :
                [d EXCEPT !.s11_cteid_upf = t, !.ip_addr = a,
                          !.s1_uteid_ul = u, !.tau_timer = x] \in UdmContexts
           /\ \A t \in Teids :
                [d EXCEPT !.s1_uteid_dl = t, !.emm_state = 1] \in UdmContexts
           /\ [d EXCEPT !.ecm_state = 1] \in UdmContexts
           /\ \A i \in {0} \cup Imsis, t \in Teids :
                [d EXCEPT !.imsi = i, !.s11_cteid_mme = t] \in UdmContexts
           /\ \A t \in Teids, a \in Addresses, u \in Teids, x \in Nat :
                [d EXCEPT !.s11_cteid_sgw = t, !.ip_addr = a,
                          !.s1_uteid_ul = u, !.tau_timer = x] \in UdmContexts
BY ZenonT(60) DEF UdmContexts

\* How a handler of the UDM leaves its contexts.
LEMMA UdmHandlerType ==
    ASSUME UdmTypeOK, NEW g, NEW c,
           g \in Imsis => c \in UdmContexts,
           udm_ctx' = [udm_ctx EXCEPT ![g] = c], UNCHANGED loc_info
    PROVE  UdmTypeOK'
BY DEF UdmTypeOK

\* Whatever a reply is read as, the SMF worker stays in its type.
LEMMA TakeAnswerType ==
    ASSUME SmfTypeOK, NEW w \in Workers, smf[w].pc = "wait",
           NEW c \in [teid : Teids, ip : Addresses, ul : Teids],
           NEW b \in BOOLEAN, TakeAnswer(w, c, b)
    PROVE  /\ smf' \in [Workers -> SmfStates]
           /\ \A x \in Workers : smf'[x].pc \in {"wait", "update"} => smf'[x].guti # 0
<1> USE DEF SmfTypeOK
<1>0. smf[w] \in SmfStates
  OBVIOUS
<1>1. CASE smf[w].typ = "create"
  <2> DEFINE r == [smf[w] EXCEPT !.pc = "update", !.teid = c.teid, !.ip = c.ip,
                                 !.ul = c.ul]
  <2>1. r \in SmfStates /\ r.guti = smf[w].guti
    BY <1>0, <1>1 DEF SmfStates, SmfPcs
  <2>2. smf' = [smf EXCEPT ![w] = r]
    BY <1>1 DEF TakeAnswer
  <2>. QED  BY <2>1, <2>2
<1>2. CASE smf[w].typ # "create"
  <2>1. smf[w].typ \in {"modify", "release"}
    BY <1>0, <1>2 DEF SmfStates, N4Types
  <2>2. PICK d \in BOOLEAN : smf' = [smf EXCEPT ![w] =
                                       [smf[w] EXCEPT !.pc = "done", !.res = d]]
    BY <2>1 DEF TakeAnswer
  <2>3. [smf[w] EXCEPT !.pc = "done", !.res = d] \in SmfStates
    BY <1>0 DEF SmfStates, SmfPcs
  <2>. QED  BY <1>0, <2>2, <2>3 DEF SmfStates
<1>. QED  BY <1>1, <1>2

\* Every step of an SMF worker (smf.cpp) keeps the types it can touch.
LEMMA SmfWorkerType ==
    ASSUME PlatformTypeOK, UdmTypeOK, UpfTypeOK, SmfTypeOK,
           NEW w \in Workers, SmfWorker(w)
    PROVE  PlatformTypeOK' /\ UdmTypeOK' /\ UpfTypeOK' /\ SmfTypeOK'
<1> DEFINE SmfOK == /\ smf' \in [Workers -> SmfStates]
                    /\ \A x \in Workers :
                          smf'[x].pc \in {"wait", "update"} => smf'[x].guti # 0
<1>0. /\ smf[w] \in SmfStates /\ smf[w].guti \in {0} \cup Imsis
      /\ smf[w].imsi \in {0} \cup Imsis /\ smf[w].asked \in Teids
      /\ smf[w].teid \in Teids /\ smf[w].ip \in Addresses /\ smf[w].ul \in Teids
  BY DEF SmfTypeOK, SmfStates
<1>a. \A g \in Imsis : /\ udm_ctx[g] \in UdmContexts
                       /\ udm_ctx[g].s11_cteid_sgw \in Teids
                       /\ udm_ctx[g].s1_uteid_dl \in Teids
  BY DEF UdmTypeOK, UdmContexts
<1>b. ASSUME Exit("smf") \/ UNCHANGED exited PROVE PlatformTypeOK'
  BY <1>b DEF Exit, PlatformTypeOK, Processes
<1>c. ASSUME NEW r, r \in SmfStates, smf' = [smf EXCEPT ![w] = r],
             r.pc \in {"wait", "update"} => r.guti # 0
      PROVE  SmfOK
  BY <1>c DEF SmfTypeOK
<1>d. ASSUME UNCHANGED <<upfTables, upf, n4_req, n4_rsp, losses>>
      PROVE  UpfTypeOK'
  BY <1>d DEF UpfTypeOK, upfTables
<1>e. ASSUME UNCHANGED udmVars PROVE UdmTypeOK'
  BY <1>e DEF UdmTypeOK, udmVars
<1>f. ASSUME UNCHANGED smf PROVE SmfOK
  BY <1>f DEF SmfTypeOK
<1>1. CASE RequestCreate(w)
  <2>1. CASE smf[w].guti = 0
    BY <1>1, <1>b, <1>d, <1>e, <1>f, <2>1 DEF RequestCreate, SmfTypeOK
  <2>2. CASE smf[w].guti # 0
    <3> DEFINE c == [udm_ctx[smf[w].guti] EXCEPT !.imsi = smf[w].imsi,
                                                 !.s11_cteid_mme = smf[w].asked]
    <3>1. smf[w].guti \in Imsis => c \in UdmContexts
      BY <1>0, <1>a, UdmUpdateTypes
    <3>a. udm_ctx' = [udm_ctx EXCEPT ![smf[w].guti] = c] /\ UNCHANGED loc_info
      BY <1>1, <2>2 DEF RequestCreate, RequestSmfCreateSession
    <3>2. UdmTypeOK'
      BY <3>1, <3>a, UdmHandlerType
    <3>3. UpfTypeOK'
      BY <1>0, <1>1, <2>2, SendN4Type, IdentityTypes DEF RequestCreate, N4Types
    <3>4. [smf[w] EXCEPT !.pc = "wait"] \in SmfStates
      BY <1>0 DEF SmfStates, SmfPcs
    <3>5. SmfOK
      BY <1>0, <1>1, <1>c, <2>2, <3>4 DEF RequestCreate, SmfStates
    <3>. QED  BY <1>1, <1>b, <2>2, <3>2, <3>3, <3>5 DEF RequestCreate, SmfTypeOK
  <2>. QED  BY <2>1, <2>2
<1>2. CASE RequestModify(w) \/ RequestRelease(w)
  <2>1. CASE smf[w].guti = 0
    BY <1>2, <1>b, <1>d, <1>e, <1>f, <2>1
       DEF RequestModify, RequestRelease, SmfTypeOK
  <2>2. CASE smf[w].guti # 0
    <3> DEFINE sgw == udm_ctx[smf[w].guti].s11_cteid_sgw
               r == [smf[w] EXCEPT !.pc = "wait", !.asked = sgw]
    <3>1. /\ sgw \in Teids /\ udm_ctx[smf[w].guti].s1_uteid_dl \in Teids
          /\ 0 \in Teids
      BY <1>0, <1>a, <2>2, IdentityTypes
    <3>2. UpfTypeOK'
      BY <1>2, <2>2, <3>1, SendN4Type DEF RequestModify, RequestRelease, N4Types
    <3>3. r \in SmfStates /\ r.guti # 0
      BY <1>0, <2>2, <3>1 DEF SmfStates, SmfPcs
    <3>4. smf' = [smf EXCEPT ![w] = r]
      BY <1>2, <2>2 DEF RequestModify, RequestRelease
    <3>5. SmfOK
      BY <1>c, <3>3, <3>4
    <3>. QED
      BY <1>2, <1>b, <1>e, <2>2, <3>2, <3>5
         DEF RequestModify, RequestRelease, SmfTypeOK
  <2>. QED  BY <2>1, <2>2
<1>3. CASE RcvAnswer(w)
  <2> DEFINE m == Head(n4_rsp[w])
  <2>1. m \in N4Replies /\ Tail(n4_rsp[w]) \in Seq(N4Replies)
    BY <1>3, QueueType DEF RcvAnswer, UpfTypeOK
  <2>2. ReadAsCreate(m) \in [teid : Teids, ip : Addresses, ul : Teids]
    BY <2>1, IdentityTypes DEF ReadAsCreate, N4Replies
  <2>3. ReadAsResult(m) \in BOOLEAN
    BY DEF ReadAsResult
  <2>4. SmfOK
    BY <1>3, <2>2, <2>3, TakeAnswerType DEF RcvAnswer
  <2>5. UpfTypeOK'
    BY <1>3, <2>1 DEF RcvAnswer, UpfTypeOK, upfTables
  <2>. QED  BY <1>3, <1>b, <1>e, <2>4, <2>5 DEF RcvAnswer, SmfTypeOK
<1>4. CASE RcvTimeout(w)
  <2>1. EmptyCreate \in [teid : Teids, ip : Addresses, ul : Teids]
    BY IdentityTypes DEF EmptyCreate
  <2>2. SmfOK
    BY <1>4, <2>1, TakeAnswerType DEF RcvTimeout
  <2>3. timeouts' \in 0 .. MaxTimeouts
    BY <1>4, MaxTimeoutsAssumption DEF RcvTimeout, SmfTypeOK
  <2>. QED  BY <1>4, <1>b, <1>d, <1>e, <2>2, <2>3 DEF RcvTimeout, SmfTypeOK, n4Vars
<1>5. CASE UpdateCreate(w)
  <2>1. smf[w].guti \in Imsis
    BY <1>0, <1>5 DEF UpdateCreate, SmfTypeOK
  <2> DEFINE q == [guti |-> smf[w].guti, ue_ip_addr |-> smf[w].ip,
                   s11_cteid_sgw |-> smf[w].teid, s1_uteid_ul |-> smf[w].ul,
                   g_timer |-> GTimer]
             c == [udm_ctx[q.guti] EXCEPT
                     !.s11_cteid_sgw = JsonMember(q, "s11_cteid_sgw"),
                     !.ip_addr = JsonMember(q, "ue_ip_addr"),
                     !.s1_uteid_ul = JsonMember(q, "s1_uteid_ul"),
                     !.tau_timer = JsonMember(q, "tau_timer")]
  <2>2. /\ JsonMember(q, "s11_cteid_sgw") \in Teids
        /\ JsonMember(q, "ue_ip_addr") \in Addresses
        /\ JsonMember(q, "s1_uteid_ul") \in Teids
        /\ JsonMember(q, "tau_timer") \in Nat
    BY <1>0 DEF JsonMember
  <2>3. c \in UdmContexts
    BY <1>a, <2>1, <2>2, UdmUpdateTypes
  <2>4. udm_ctx' = [udm_ctx EXCEPT ![smf[w].guti] = c] /\ UNCHANGED loc_info
    BY <1>5 DEF UpdateCreate, UpdateSmfCreateSession
  <2>5. UdmTypeOK'
    BY <2>3, <2>4, UdmHandlerType
  <2>6. udm_ctx'[smf[w].guti].tau_timer \in Nat
    BY <2>1, <2>5 DEF UdmTypeOK, UdmContexts
  <2> DEFINE r == [smf[w] EXCEPT !.pc = "done", !.res = TRUE,
                                 !.teid = smf[w].asked,
                                 !.tau_timer = udm_ctx'[smf[w].guti].tau_timer]
  <2>7. r \in SmfStates /\ r.pc = "done"
    BY <1>0, <2>6 DEF SmfStates, SmfPcs
  <2>8. SmfOK
    BY <1>5, <1>c, <2>7 DEF UpdateCreate
  <2>. QED  BY <1>5, <1>b, <1>d, <2>5, <2>8 DEF UpdateCreate, SmfTypeOK, n4Vars
<1>. QED  BY <1>1, <1>2, <1>3, <1>4, <1>5 DEF SmfWorker

----------------------------------------------------------------------------
(* The server of the AMF                                                   *)

\* A queue without one of its elements is a queue of the same kind.
LEMMA RemoveAtType ==
    ASSUME NEW S, NEW q \in Seq(S), NEW i \in DOMAIN q
    PROVE  RemoveAt(q, i) \in Seq(S)
<1>1. i \in 1 .. Len(q) /\ Len(q) \in Nat
  OBVIOUS
<1>2. SubSeq(q, 1, i - 1) \in Seq(S) /\ SubSeq(q, i + 1, Len(q)) \in Seq(S)
  BY <1>1, SubSeqProperties
<1>. QED  BY <1>2, ConcatProperties DEF RemoveAt

\* Taking a connection from the backlog (sctp_server.cpp) keeps the types.
LEMMA AcceptType ==
    ASSUME ServerTypeOK, Accept
    PROVE  ServerTypeOK'
<1> USE DEF ServerTypeOK
<1>1. Head(backlog) \in Ues /\ Tail(backlog) \in Seq(Ues)
  BY QueueType DEF Accept
<1>2. pipe' \in [Workers -> Seq(Ues)]
  BY <1>1, QueueType DEF Accept
<1>3. turn' \in Workers
  <2>1. turn + 1 \in Nat
    BY DEF Workers
  <2>2. (turn + 1) % WorkerCount \in Workers
    BY <2>1, ModType DEF Workers
  <2>. QED  BY <2>2 DEF Accept
<1>. QED  BY <1>1, <1>2, <1>3 DEF Accept, linkVars

\* A return of select (sctp_server.cpp) keeps the types.
LEMMA SelectType ==
    ASSUME ServerTypeOK, NEW w \in Workers, Select(w)
    PROVE  ServerTypeOK'
<1> USE DEF ServerTypeOK
<1>1. ready' \in [Workers -> SUBSET Ues]
  <2>1. ToSet(conns[w]) \subseteq Ues
    BY DEF ToSet
  <2>. QED  BY <2>1 DEF Select
<1>2. CASE pipe[w] = <<>>
  BY <1>1, <1>2 DEF Select, linkVars
<1>3. CASE pipe[w] # <<>>
  <2>1. Head(pipe[w]) \in Ues /\ Tail(pipe[w]) \in Seq(Ues)
    BY <1>3, QueueType
  <2>2. conns' \in [Workers -> Seq(Ues)]
    <3>1. Append(conns[w], Head(pipe[w])) \in Seq(Ues)
      BY <2>1, QueueType
    <3>. QED  BY <1>3, <3>1 DEF Select
  <2>3. pipe' \in [Workers -> Seq(Ues)]
    BY <1>3, <2>1 DEF Select
  <2>. QED  BY <1>1, <2>2, <2>3 DEF Select, linkVars
<1>. QED  BY <1>2, <1>3

\* Closing a connection (sctp_server.cpp) keeps the types.
LEMMA CloseConnType ==
    ASSUME ServerTypeOK, NEW w \in Workers, NEW i \in DOMAIN conns[w], NEW n,
           CloseConn(w, i, n)
    PROVE  ServerTypeOK'
<1> USE DEF ServerTypeOK
<1>1. RemoveAt(conns[w], i) \in Seq(Ues)
  BY RemoveAtType
<1>2. conns' \in [Workers -> Seq(Ues)]
  BY <1>1 DEF CloseConn
<1>3. ready' \in [Workers -> SUBSET Ues]
  BY DEF CloseConn, Served
<1>. QED  BY <1>2, <1>3 DEF CloseConn, linkVars

----------------------------------------------------------------------------
(* The AMF                                                                 *)

\* What AmfTypeOK says of the state r of one worker.
FitsPc(r) ==
    /\ r \in AmfStates
    /\ r.pc = "attach" => r.arg \in Imsis
    /\ r.pc \in {"attach_init", "attach_auth"} => r.imsi # 0
    /\ r.pc = "attach_complete" => r.arg \in Teids
    /\ r.pc = "detach" => r.arg \in {0} \cup Imsis

OpenPcs == AmfPcs \ {"attach", "attach_init", "attach_auth", "attach_complete",
                     "detach"}

\* What a handler of the AMF has in hand has its type.
LEMMA AmfStateType ==
    ASSUME AmfTypeOK, NEW w \in Workers
    PROVE  /\ amf[w] \in AmfStates /\ FitsPc(amf[w])
           /\ amf[w].ue \in Ues /\ amf[w].id \in MmeIds /\ amf[w].arg \in Nat
           /\ amf[w].guti \in {0} \cup Imsis /\ amf[w].imsi \in {0} \cup Imsis
           /\ GutiOf(w) \in {0} \cup Imsis
           /\ FitsPc(IdleAmf)
           /\ \A pc \in OpenPcs, g \in {0} \cup Imsis, i \in {0} \cup Imsis :
                 /\ FitsPc([amf[w] EXCEPT !.pc = pc])
                 /\ FitsPc([amf[w] EXCEPT !.guti = g, !.pc = pc])
                 /\ FitsPc([amf[w] EXCEPT !.guti = g, !.imsi = i, !.pc = pc])
<1>1. amf[w] \in AmfStates
  BY DEF AmfTypeOK
<1>2. /\ amf[w].ue \in Ues /\ amf[w].id \in MmeIds /\ amf[w].arg \in Nat
      /\ amf[w].guti \in {0} \cup Imsis /\ amf[w].imsi \in {0} \cup Imsis
  BY <1>1 DEF AmfStates
<1>3. FitsPc(amf[w])
  BY <1>1 DEF AmfTypeOK, FitsPc
<1>4. GutiOf(w) \in {0} \cup Imsis
  BY <1>2 DEF AmfTypeOK, GutiOf
<1>5. FitsPc(IdleAmf)
  BY IdentityTypes DEF FitsPc, IdleAmf, AmfStates, AmfPcs
<1>6. ASSUME NEW pc \in OpenPcs, NEW g \in {0} \cup Imsis, NEW i \in {0} \cup Imsis
      PROVE  /\ FitsPc([amf[w] EXCEPT !.pc = pc])
             /\ FitsPc([amf[w] EXCEPT !.guti = g, !.pc = pc])
             /\ FitsPc([amf[w] EXCEPT !.guti = g, !.imsi = i, !.pc = pc])
  <2>1. /\ [amf[w] EXCEPT !.pc = pc] \in AmfStates
        /\ [amf[w] EXCEPT !.guti = g, !.pc = pc] \in AmfStates
        /\ [amf[w] EXCEPT !.guti = g, !.imsi = i, !.pc = pc] \in AmfStates
    BY <1>1 DEF AmfStates, OpenPcs
  <2>. QED  BY <1>1, <2>1 DEF FitsPc, OpenPcs, AmfStates
<1>. QED  BY <1>1, <1>2, <1>3, <1>4, <1>5, <1>6

\* A new state of one AMF worker, if it fits its own program counter, keeps the
\* AMF's types.
LEMMA AmfUpdateType ==
    ASSUME AmfTypeOK, NEW w \in Workers, NEW r, FitsPc(r),
           amf' = [amf EXCEPT ![w] = r],
           ue_count' \in Nat, s1amf_id' \in [MmeIds -> {0} \cup Imsis],
           amf_ctx' \in [Imsis -> AmfContexts]
    PROVE  AmfTypeOK'
<1>1. amf' \in [Workers -> AmfStates]
  BY DEF AmfTypeOK, FitsPc
<1>2. \A x \in Workers : FitsPc(amf'[x])
  BY DEF AmfTypeOK, FitsPc
<1>. QED  BY <1>1, <1>2 DEF AmfTypeOK, FitsPc

\* The writes of the handlers to a local context keep its type.
LEMMA AmfContextTypes ==
    ASSUME AmfTypeOK, NEW g
    PROVE  /\ \A c \in AmfContexts : [amf_ctx EXCEPT ![g] = c] \in [Imsis -> AmfContexts]
           /\ g \in Imsis =>
                /\ [amf_ctx[g] EXCEPT !.present = TRUE] \in AmfContexts
                /\ [amf_ctx[g] EXCEPT !.present = TRUE, !.apn_in_use = 1] \in AmfContexts
                /\ [amf_ctx[g] EXCEPT !.present = TRUE, !.ecm_state = 1] \in AmfContexts
                /\ \A t \in Teids : [amf_ctx[g] EXCEPT !.present = TRUE,
                                        !.s11_cteid_amf = t] \in AmfContexts
           /\ NoAmfContext \in AmfContexts
<1>1. g \in Imsis => amf_ctx[g] \in AmfContexts
  BY DEF AmfTypeOK
<1>2. NoAmfContext \in AmfContexts
  BY IdentityTypes DEF NoAmfContext, AmfContexts
<1>. QED  BY <1>1, <1>2 DEF AmfTypeOK, AmfContexts

AmfParts ==
    /\ PlatformTypeOK /\ UdmTypeOK /\ UpfTypeOK /\ SmfTypeOK /\ ServerTypeOK
    /\ AmfTypeOK

\* The actions that neither call the SMF nor take a message off a stream.
LEMMA AmfLocalType ==
    ASSUME AmfParts, NEW w \in Workers,
           \/ InitialAttach(w) \/ AttachInit(w) \/ HandleAutn(w)
           \/ SecurityModeCmd(w) \/ SetIntegrityContext(w)
           \/ SecurityModeComplete(w) \/ LocationUpdate(w) \/ LocationDelete(w)
           \/ LocationInsert(w) \/ AttachComplete(w) \/ RemItfid(w) \/ RemUectx(w)
    PROVE  AmfParts'
<1> USE DEF AmfParts
<1>0. /\ amf[w].id \in MmeIds /\ amf[w].arg \in Nat
      /\ amf[w].guti \in {0} \cup Imsis /\ amf[w].imsi \in {0} \cup Imsis
      /\ GutiOf(w) \in {0} \cup Imsis
  BY AmfStateType
<1>a. \A g \in Imsis : udm_ctx[g] \in UdmContexts
  BY DEF UdmTypeOK
<1>b. \A g \in Imsis : amf_ctx[g] \in AmfContexts
  BY DEF AmfTypeOK
<1>c. /\ ue_count \in Nat /\ s1amf_id \in [MmeIds -> {0} \cup Imsis]
      /\ amf_ctx \in [Imsis -> AmfContexts]
  BY DEF AmfTypeOK
<1>d. ASSUME UNCHANGED <<localFrame, smfVars, down>>, Exit("amf") \/ UNCHANGED exited,
             UdmTypeOK', AmfTypeOK'
      PROVE  AmfParts'
  <2>1. PlatformTypeOK'
    BY <1>d DEF PlatformTypeOK, Exit, Processes
  <2>2. UpfTypeOK'
    BY <1>d DEF UpfTypeOK, localFrame, unusedByAmf, upfVars
  <2>3. SmfTypeOK'
    BY <1>d DEF SmfTypeOK, smfVars
  <2>4. ServerTypeOK'
    BY <1>d DEF ServerTypeOK, localFrame, unusedByAmf
  <2>. QED  BY <1>d, <2>1, <2>2, <2>3, <2>4
<1>e. ASSUME UNCHANGED udmVars PROVE UdmTypeOK'
  BY <1>e DEF UdmTypeOK, udmVars
<1>f. ASSUME UNCHANGED <<amf, ue_count, s1amf_id, amf_ctx>> PROVE AmfTypeOK'
  BY <1>f DEF AmfTypeOK
<1>1. CASE InitialAttach(w)
  <2> DEFINE id == (ue_count + 1) % IdSpace
             guti == GetGuti(amf[w].arg)
             r == [amf[w] EXCEPT !.id = id, !.guti = guti, !.imsi = amf[w].arg,
                                 !.pc = "attach_init"]
  <2>1. amf[w].arg \in Imsis
    BY <1>1 DEF InitialAttach, AmfAt, AmfTypeOK
  <2>2. guti \in Imsis
    BY <2>1, IdentityTypes
  <2>3. id \in MmeIds
    <3>1. ue_count + 1 \in Nat
      BY <1>c
    <3>. QED  BY <3>1, ModType DEF MmeIds
  <2>4. r \in AmfStates
    BY <2>1, <2>2, <2>3, AmfStateType DEF AmfStates, AmfPcs
  <2>5. FitsPc(r)
    BY <2>1, <2>4, IdentityTypes, AmfStateType DEF FitsPc, AmfStates
  <2>6. amf' = [amf EXCEPT ![w] = r] /\ UNCHANGED amf_ctx
    BY <1>1 DEF InitialAttach
  <2>7. ue_count' \in Nat
    BY <1>1, <1>c DEF InitialAttach
  <2>8. s1amf_id' \in [MmeIds -> {0} \cup Imsis]
    <3> HIDE DEF id, guti
    <3>1. s1amf_id' = [s1amf_id EXCEPT ![id] = guti]
      BY <1>1 DEF InitialAttach, id, guti
    <3>. QED  BY <1>c, <2>2, <3>1
  <2>9. AmfTypeOK'
    BY <1>c, <2>5, <2>6, <2>7, <2>8, AmfUpdateType
  <2>. QED  BY <1>1, <1>d, <1>e, <2>9 DEF InitialAttach
<1>2. CASE AttachInit(w)
  <2>1. UdmTypeOK'
    <3> DEFINE g == amf[w].guti
               c == [udm_ctx[g] EXCEPT !.imsi = amf[w].imsi,
                                       !.mme_s1ap_ue_id = amf[w].id]
    <3>1. g \in Imsis => c \in UdmContexts
      BY <1>0, <1>a, UdmUpdateTypes
    <3>2. udm_ctx' = [udm_ctx EXCEPT ![g] = c] /\ UNCHANGED loc_info
      BY <1>2 DEF AttachInit, UpdateInitialAttachInit
    <3>. QED  BY <3>1, <3>2, UdmHandlerType
  <2>2. amf_ctx' \in [Imsis -> AmfContexts]
    <3>1. amf[w].guti \in Imsis =>
             [amf_ctx[amf[w].guti] EXCEPT !.present = TRUE] \in AmfContexts
      BY AmfContextTypes
    <3>. QED  BY <1>2, <1>c, <3>1 DEF AttachInit
  <2> DEFINE r == [amf[w] EXCEPT !.pc = "attach_auth"]
  <2>3. r \in AmfStates
    BY AmfStateType DEF AmfStates, AmfPcs
  <2>4. r.imsi # 0 /\ r.pc = "attach_auth"
    BY <1>2, AmfStateType DEF AttachInit, AmfAt, AmfTypeOK, AmfStates
  <2>5. FitsPc(r)
    BY <2>3, <2>4 DEF FitsPc
  <2>6. AmfTypeOK'
    BY <1>2, <1>c, <2>2, <2>5, AmfUpdateType DEF AttachInit, AmfGoto
  <2>. QED  BY <1>2, <1>d, <2>1, <2>6 DEF AttachInit
<1>3. CASE HandleAutn(w)
  <2>1. CASE GutiOf(w) = 0
    BY <1>3, <1>d, <1>e, <1>f, <2>1 DEF HandleAutn, IfKnown
  <2>2. CASE GutiOf(w) # 0 /\ udm_ctx[GutiOf(w)].xres = amf[w].arg
    <3>1. AmfTypeOK'
      BY <1>3, <1>c, <2>2, AmfStateType, AmfUpdateType
         DEF HandleAutn, IfKnown, AmfGoto, OpenPcs, AmfPcs
    <3>. QED  BY <1>3, <1>d, <1>e, <2>2, <3>1 DEF HandleAutn, IfKnown
  <2>3. CASE GutiOf(w) # 0 /\ udm_ctx[GutiOf(w)].xres # amf[w].arg
    <3>1. /\ s1amf_id' \in [MmeIds -> {0} \cup Imsis]
          /\ amf_ctx' \in [Imsis -> AmfContexts]
      BY <1>3, <1>c, <2>3, AmfContextTypes DEF HandleAutn, IfKnown
    <3>2. AmfTypeOK'
      BY <1>3, <1>c, <2>3, <3>1, AmfStateType, AmfUpdateType
         DEF HandleAutn, IfKnown, AmfReturn
    <3>. QED  BY <1>3, <1>d, <1>e, <2>3, <3>2 DEF HandleAutn, IfKnown
  <2>. QED  BY <2>1, <2>2, <2>3
<1>4. CASE SecurityModeCmd(w)
  <2>1. CASE GutiOf(w) = 0
    BY <1>4, <1>d, <1>e, <1>f, <2>1 DEF SecurityModeCmd, IfKnown
  <2>2. CASE GutiOf(w) # 0
    <3> DEFINE g == GutiOf(w)
               c == [udm_ctx[g] EXCEPT !.k_nas_enc = NasKey(udm_ctx[g])]
    <3>1. NasKey(udm_ctx[g]) \in Nat
      BY <1>0, <1>a, <2>2 DEF NasKey, UdmContexts, CtxCount, CtxDir
    <3>2. c \in UdmContexts
      BY <1>0, <1>a, <2>2, <3>1, UdmUpdateTypes
    <3>3. udm_ctx' = [udm_ctx EXCEPT ![g] = c] /\ UNCHANGED loc_info
      BY <1>4, <2>2 DEF SecurityModeCmd, IfKnown, SetCrypt
    <3>4. UdmTypeOK'
      BY <3>2, <3>3, UdmHandlerType
    <3>5. "integrity" \in OpenPcs
      BY DEF OpenPcs, AmfPcs
    <3>6. AmfTypeOK'
      BY <1>0, <1>4, <1>c, <2>2, <3>5, AmfStateType, AmfUpdateType
         DEF SecurityModeCmd, IfKnown
    <3>. QED  BY <1>4, <1>d, <2>2, <3>4, <3>6 DEF SecurityModeCmd, IfKnown
  <2>. QED  BY <2>1, <2>2
<1>5. CASE SetIntegrityContext(w)
  <2> DEFINE g == amf[w].guti
             c == [udm_ctx[g] EXCEPT !.k_nas_int = NasKey(udm_ctx[g])]
  <2>1. g \in Imsis => NasKey(udm_ctx[g]) \in Nat
    BY <1>a DEF NasKey, UdmContexts, CtxCount, CtxDir
  <2>2. g \in Imsis => c \in UdmContexts
    BY <1>a, <2>1, UdmUpdateTypes
  <2>3. udm_ctx' = [udm_ctx EXCEPT ![g] = c] /\ UNCHANGED loc_info
    BY <1>5 DEF SetIntegrityContext, SetIntegrity
  <2>4. UdmTypeOK'
    BY <2>2, <2>3, UdmHandlerType
  <2>5. amf_ctx' \in [Imsis -> AmfContexts]
    BY <1>5, <1>b, <1>c DEF SetIntegrityContext, AmfContexts
  <2>6. "security_send" \in OpenPcs
    BY DEF OpenPcs, AmfPcs
  <2>7. AmfTypeOK'
    BY <1>5, <1>c, <2>5, <2>6, <1>0, AmfStateType, AmfUpdateType
       DEF SetIntegrityContext, AmfGoto
  <2>. QED  BY <1>5, <1>d, <2>4, <2>7 DEF SetIntegrityContext
<1>6. CASE SecurityModeComplete(w)
  <2>1. "location" \in OpenPcs
    BY DEF OpenPcs, AmfPcs
  <2>2. AmfTypeOK'
    BY <1>0, <1>6, <1>c, <1>f, <2>1, AmfStateType, AmfUpdateType
       DEF SecurityModeComplete, IfKnown, AmfGoto, AmfReturn
  <2>. QED  BY <1>6, <1>d, <1>e, <2>2 DEF SecurityModeComplete, IfKnown
<1>7. CASE LocationUpdate(w)
  <2>1. CASE GutiOf(w) = 0
    BY <1>7, <1>d, <1>e, <1>f, <2>1 DEF LocationUpdate, IfKnown
  <2>2. CASE GutiOf(w) # 0
    <3>1. GutiOf(w) \in Imsis /\ udm_ctx[GutiOf(w)].imsi \in {0} \cup Imsis
      BY <1>0, <1>a, <2>2 DEF UdmContexts
    <3>2. "loc_delete" \in OpenPcs
      BY DEF OpenPcs, AmfPcs
    <3>3. AmfTypeOK'
      BY <1>7, <1>c, <2>2, <3>1, <3>2, AmfStateType, AmfUpdateType
         DEF LocationUpdate, IfKnown
    <3>. QED  BY <1>7, <1>d, <1>e, <2>2, <3>3 DEF LocationUpdate, IfKnown
  <2>. QED  BY <2>1, <2>2
<1>8. CASE LocationDelete(w)
  <2>1. UdmTypeOK'
    BY <1>8 DEF LocationDelete, DeleteLocInfo, UdmTypeOK
  <2>2. "loc_insert" \in OpenPcs
    BY DEF OpenPcs, AmfPcs
  <2>3. AmfTypeOK'
    BY <1>0, <1>8, <1>c, <2>2, AmfStateType, AmfUpdateType DEF LocationDelete, AmfGoto
  <2>. QED  BY <1>8, <1>d, <2>1, <2>3 DEF LocationDelete
<1>9. CASE LocationInsert(w)
  <2>1. UdmTypeOK'
    <3> DEFINE i == amf[w].imsi
    <3>1. /\ loc_info' = [loc_info EXCEPT ![i] = loc_info[i] + 1]
          /\ UNCHANGED udm_ctx
      BY <1>9 DEF LocationInsert, InsertLocInfo
    <3>2. i \in Imsis => loc_info[i] + 1 \in Nat
      BY DEF UdmTypeOK
    <3> HIDE DEF i
    <3>. QED  BY <3>1, <3>2 DEF UdmTypeOK
  <2>2. "session" \in OpenPcs
    BY DEF OpenPcs, AmfPcs
  <2>3. amf_ctx' \in [Imsis -> AmfContexts]
    <3>1. amf[w].guti \in Imsis =>
             [amf_ctx[amf[w].guti] EXCEPT !.present = TRUE, !.apn_in_use = 1]
                \in AmfContexts
      BY AmfContextTypes
    <3>. QED  BY <1>9, <1>c, <3>1 DEF LocationInsert
  <2>4. AmfTypeOK'
    BY <1>0, <1>9, <1>c, <2>2, <2>3, AmfStateType, AmfUpdateType
       DEF LocationInsert, AmfGoto
  <2>. QED  BY <1>9, <1>d, <2>1, <2>4 DEF LocationInsert
<1>10. CASE AttachComplete(w)
  <2>1. CASE GutiOf(w) = 0
    BY <1>10, <1>d, <1>e, <1>f, <2>1 DEF AttachComplete, IfKnown
  <2>2. CASE GutiOf(w) # 0
    <3> DEFINE g == GutiOf(w)
               c == [udm_ctx[g] EXCEPT !.s1_uteid_dl = amf[w].arg, !.emm_state = 1]
    <3>1. amf[w].arg \in Teids
      BY <1>10 DEF AttachComplete, AmfAt, AmfTypeOK
    <3>2. c \in UdmContexts
      BY <1>0, <1>a, <2>2, <3>1, UdmUpdateTypes
    <3>3. udm_ctx' = [udm_ctx EXCEPT ![g] = c] /\ UNCHANGED loc_info
      BY <1>10, <2>2 DEF AttachComplete, IfKnown, UpdateAttachComplete
    <3>4. UdmTypeOK'
      BY <3>2, <3>3, UdmHandlerType
    <3>5. "modify" \in OpenPcs
      BY DEF OpenPcs, AmfPcs
    <3>6. AmfTypeOK'
      BY <1>0, <1>10, <1>c, <2>2, <3>5, AmfStateType, AmfUpdateType
         DEF AttachComplete, IfKnown, AmfGoto
    <3>. QED  BY <1>10, <1>d, <2>2, <3>4, <3>6 DEF AttachComplete, IfKnown
  <2>. QED  BY <2>1, <2>2
<1>11. CASE RemItfid(w)
  <2>1. s1amf_id' \in [MmeIds -> {0} \cup Imsis]
    BY <1>11, <1>c DEF RemItfid
  <2>2. "rem_uectx" \in OpenPcs
    BY DEF OpenPcs, AmfPcs
  <2>3. AmfTypeOK'
    BY <1>0, <1>11, <1>c, <2>1, <2>2, AmfStateType, AmfUpdateType
       DEF RemItfid, AmfGoto
  <2>. QED  BY <1>11, <1>d, <1>e, <2>3 DEF RemItfid
<1>12. CASE RemUectx(w)
  <2>1. amf_ctx' \in [Imsis -> AmfContexts]
    BY <1>12, <1>c, AmfContextTypes DEF RemUectx
  <2>2. AmfTypeOK'
    BY <1>12, <1>c, <2>1, AmfStateType, AmfUpdateType DEF RemUectx, AmfReturn
  <2>. QED  BY <1>12, <1>d, <1>e, <2>2 DEF RemUectx
<1>. QED
  BY <1>1, <1>2, <1>3, <1>4, <1>5, <1>6, <1>7, <1>8, <1>9, <1>10, <1>11, <1>12

\* A call to the SMF and the return from it keep the SMF's types.
LEMMA SmfCallType ==
    ASSUME SmfTypeOK, NEW w \in Workers, UNCHANGED timeouts,
           \/ ReturnFromSmf(w)
           \/ \E typ \in N4Types, g \in {0} \cup Imsis, i \in {0} \cup Imsis,
                 t \in Teids : CallSmf(w, typ, g, i, t)
    PROVE  SmfTypeOK'
<1>1. IdleSmf \in SmfStates
  BY IdentityTypes DEF IdleSmf, SmfStates, SmfPcs, N4Types
<1>2. CASE ReturnFromSmf(w)
  BY <1>1, <1>2 DEF ReturnFromSmf, SmfTypeOK, IdleSmf
<1>3. ASSUME NEW typ \in N4Types, NEW g \in {0} \cup Imsis,
             NEW i \in {0} \cup Imsis, NEW t \in Teids, CallSmf(w, typ, g, i, t)
      PROVE  SmfTypeOK'
  <2> DEFINE r == [IdleSmf EXCEPT !.pc = "call", !.typ = typ, !.guti = g,
                                  !.imsi = i, !.asked = t]
  <2>1. r \in SmfStates /\ r.pc = "call"
    BY <1>1 DEF SmfStates, SmfPcs, IdleSmf
  <2>2. smf' = [smf EXCEPT ![w] = r]
    BY <1>3 DEF CallSmf
  <2>. QED  BY <2>1, <2>2 DEF SmfTypeOK
<1>. QED  BY <1>2, <1>3

\* Messages to the simulator.
LEMMA SendDownType ==
    ASSUME ServerTypeOK, AmfTypeOK, NEW w \in Workers,
           NEW m \in DownlinkMessages, SendDown(w, m)
    PROVE  down' \in [Ues -> Seq(DownlinkMessages)]
<1>1. amf[w].ue \in Ues
  BY AmfStateType
<1>2. Append(down[amf[w].ue], m) \in Seq(DownlinkMessages)
  BY <1>1, QueueType DEF ServerTypeOK
<1>. QED  BY <1>1, <1>2 DEF SendDown, ServerTypeOK

\* The messages the AMF sends (amf.cpp) are downlink messages.
LEMMA DownlinkMessageType ==
    ASSUME NEW id \in MmeIds, NEW typ \in {1, 2, 3, 5}
    PROVE  /\ DownlinkMessage(typ, id) \in DownlinkMessages
           /\ \A a \in Nat, r \in Nat :
                 [DownlinkMessage(typ, id) EXCEPT !.autn = a, !.rand_num = r]
                    \in DownlinkMessages
           /\ \A g \in {0} \cup Imsis, t \in Teids, i \in Addresses :
                 [DownlinkMessage(typ, id) EXCEPT !.guti = g, !.ul = t, !.ip = i]
                    \in DownlinkMessages
<1>1. DownlinkMessage(typ, id) \in DownlinkMessages
  BY IdentityTypes DEF DownlinkMessage, DownlinkMessages
<1>. QED  BY <1>1 DEF DownlinkMessages

\* The actions that call the SMF or send to the simulator.
LEMMA AmfCallType ==
    ASSUME AmfParts, NEW w \in Workers,
           \/ AttachAuth(w) \/ SendSecurityModeCmd(w)
           \/ CreateSessionBegin(w) \/ CreateSessionEnd(w)
           \/ ModifyBearerBegin(w) \/ ModifyBearerEnd(w)
           \/ DetachBegin(w) \/ DetachEnd(w)
    PROVE  AmfParts'
<1> USE DEF AmfParts
<1> DEFINE DownOK == down' \in [Ues -> Seq(DownlinkMessages)]
<1>0. /\ amf[w].id \in MmeIds /\ amf[w].arg \in Nat
      /\ amf[w].guti \in {0} \cup Imsis /\ amf[w].imsi \in {0} \cup Imsis
      /\ GutiOf(w) \in {0} \cup Imsis
  BY AmfStateType
<1>a. \A g \in Imsis : udm_ctx[g] \in UdmContexts
  BY DEF UdmTypeOK
<1>c. /\ ue_count \in Nat /\ s1amf_id \in [MmeIds -> {0} \cup Imsis]
      /\ amf_ctx \in [Imsis -> AmfContexts]
  BY DEF AmfTypeOK
<1>d. ASSUME UNCHANGED localFrame, Exit("amf") \/ UNCHANGED exited,
             UdmTypeOK', SmfTypeOK', AmfTypeOK', DownOK
      PROVE  AmfParts'
  <2>1. PlatformTypeOK'
    BY <1>d DEF PlatformTypeOK, Exit, Processes
  <2>2. UpfTypeOK'
    BY <1>d DEF UpfTypeOK, localFrame, unusedByAmf, upfVars
  <2>3. ServerTypeOK'
    BY <1>d DEF ServerTypeOK, localFrame, unusedByAmf
  <2>. QED  BY <1>d, <2>1, <2>2, <2>3
<1>e. ASSUME UNCHANGED udmVars PROVE UdmTypeOK'
  BY <1>e DEF UdmTypeOK, udmVars
<1>f. ASSUME UNCHANGED <<amf, ue_count, s1amf_id, amf_ctx>> PROVE AmfTypeOK'
  BY <1>f DEF AmfTypeOK
<1>g. ASSUME UNCHANGED smfVars PROVE SmfTypeOK'
  BY <1>g DEF SmfTypeOK, smfVars
<1>h. ASSUME UNCHANGED <<smf, timeouts>> PROVE SmfTypeOK'
  BY <1>h DEF SmfTypeOK
<1>i. ASSUME UNCHANGED down PROVE DownOK
  BY <1>i DEF ServerTypeOK
<1>j. /\ "session_end" \in OpenPcs /\ "modify_end" \in OpenPcs
      /\ "detach_end" \in OpenPcs /\ "rem_itfid" \in OpenPcs
  BY DEF OpenPcs, AmfPcs
<1>k. UNCHANGED localFrame => UNCHANGED timeouts
  BY DEF localFrame, unusedByAmf
<1>l. ASSUME AmfReturn(w), UNCHANGED <<ue_count, s1amf_id>>,
             amf_ctx' \in [Imsis -> AmfContexts]
      PROVE  AmfTypeOK'
  BY <1>c, <1>l, AmfStateType, AmfUpdateType DEF AmfReturn
<1>m. /\ smf[w].guti \in {0} \cup Imsis /\ smf[w].teid \in Teids
      /\ smf[w].ip \in Addresses /\ smf[w].ul \in Teids
      /\ smf[w].tau_timer \in Nat
  BY DEF SmfTypeOK, SmfStates
<1>1. CASE AttachAuth(w)
  <2> DEFINE v == AuthVector(amf[w].imsi)
  <2>0. amf[w].imsi \in Imsis
    BY <1>0, <1>1 DEF AttachAuth, AmfAt, AmfTypeOK
  <2>1. v.xres \in Nat /\ v.k_asme \in Nat /\ v.autn_num \in Nat /\ v.rand_num \in Nat
    <3>1. DbKey(amf[w].imsi) \in Nat
      BY <2>0, IdentityTypes
    <3>. QED  BY <3>1 DEF AuthVector, AutnResponse, KAsme, PlmnId
  <2> HIDE DEF v
  <2> DEFINE c == [udm_ctx[amf[w].guti] EXCEPT !.xres = v.xres, !.k_asme = v.k_asme]
  <2>2. amf[w].guti \in Imsis => c \in UdmContexts
    BY <1>a, <2>1, UdmUpdateTypes
  <2>3. udm_ctx' = [udm_ctx EXCEPT ![amf[w].guti] = c] /\ UNCHANGED loc_info
    BY <1>1 DEF AttachAuth, UpdateInitialAttach, v
  <2>4. UdmTypeOK'
    BY <2>2, <2>3, UdmHandlerType
  <2> DEFINE m == [DownlinkMessage(1, amf[w].id) EXCEPT !.autn = v.autn_num,
                                                        !.rand_num = v.rand_num]
  <2>5. m \in DownlinkMessages
    BY <1>0, <2>1, DownlinkMessageType
  <2>6. SendDown(w, m)
    BY <1>1 DEF AttachAuth, v
  <2>7. DownOK
    BY <2>5, <2>6, SendDownType
  <2>. QED  BY <1>1, <1>c, <1>d, <1>g, <1>l, <2>4, <2>7 DEF AttachAuth
<1>2. CASE SendSecurityModeCmd(w)
  <2>1. DownOK
    BY <1>0, <1>2, DownlinkMessageType, SendDownType DEF SendSecurityModeCmd
  <2>. QED  BY <1>2, <1>c, <1>d, <1>e, <1>g, <1>l, <2>1 DEF SendSecurityModeCmd
<1>3. CASE CreateSessionBegin(w)
  <2>1. CASE GutiOf(w) = 0
    BY <1>3, <1>d, <1>e, <1>f, <1>h, <1>i, <2>1 DEF CreateSessionBegin, IfKnown
  <2>2. CASE GutiOf(w) # 0
    <3> DEFINE g == GutiOf(w)
               t == GetS11CteidAmf(g)
               c == [udm_ctx[g] EXCEPT !.s11_cteid_amf = t]
    <3>1. g \in Imsis /\ t \in Teids /\ udm_ctx[g].imsi \in {0} \cup Imsis
      BY <1>0, <1>a, <2>2, IdentityTypes DEF UdmContexts
    <3>2. c \in UdmContexts
      BY <1>a, <3>1, UdmUpdateTypes
    <3>3. udm_ctx' = [udm_ctx EXCEPT ![g] = c] /\ UNCHANGED loc_info
      BY <1>3, <2>2 DEF CreateSessionBegin, IfKnown, HandleCreateSessionBegin
    <3>4. UdmTypeOK'
      BY <3>2, <3>3, UdmHandlerType
    <3>5. SmfTypeOK'
      BY <1>3, <2>2, <3>1, SmfCallType DEF CreateSessionBegin, IfKnown, N4Types
    <3> DEFINE d == [amf_ctx[g] EXCEPT !.present = TRUE, !.s11_cteid_amf = t]
    <3>6. d \in AmfContexts
      BY <3>1, AmfContextTypes
    <3>7. amf_ctx' = [amf_ctx EXCEPT ![g] = d]
      BY <1>3, <2>2 DEF CreateSessionBegin, IfKnown
    <3>8. amf_ctx' \in [Imsis -> AmfContexts]
      BY <1>c, <3>6, <3>7
    <3>9. AmfTypeOK'
      BY <1>0, <1>3, <1>c, <1>j, <2>2, <3>8, AmfStateType, AmfUpdateType
         DEF CreateSessionBegin, IfKnown
    <3>. QED
      BY <1>3, <1>d, <1>i, <2>2, <3>4, <3>5, <3>9 DEF CreateSessionBegin, IfKnown
  <2>. QED  BY <2>1, <2>2
<1>4. CASE CreateSessionEnd(w)
  <2> DEFINE c == [udm_ctx[smf[w].guti] EXCEPT
                     !.s11_cteid_upf = smf[w].teid, !.ip_addr = smf[w].ip,
                     !.s1_uteid_ul = smf[w].ul, !.tau_timer = smf[w].tau_timer]
  <2>1. smf[w].guti \in Imsis => c \in UdmContexts
    BY <1>a, <1>m, UdmUpdateTypes
  <2>2. udm_ctx' = [udm_ctx EXCEPT ![smf[w].guti] = c] /\ UNCHANGED loc_info
    BY <1>4 DEF CreateSessionEnd, HandleCreateSessionEnd
  <2>3. UdmTypeOK'
    BY <2>1, <2>2, UdmHandlerType
  <2>4. SmfTypeOK'
    BY <1>4, SmfCallType DEF CreateSessionEnd
  <2>5. DownOK
    BY <1>0, <1>4, <1>m, DownlinkMessageType, SendDownType DEF CreateSessionEnd
  <2>. QED  BY <1>4, <1>c, <1>d, <1>l, <2>3, <2>4, <2>5 DEF CreateSessionEnd
<1>5. CASE ModifyBearerBegin(w)
  <2>1. CASE GutiOf(w) = 0
    BY <1>5, <1>d, <1>e, <1>f, <1>h, <1>i, <2>1 DEF ModifyBearerBegin, IfKnown
  <2>2. CASE GutiOf(w) # 0
    <3> DEFINE g == GutiOf(w)
               c == [udm_ctx[g] EXCEPT !.ecm_state = 1]
    <3>1. g \in Imsis
      BY <1>0, <2>2
    <3>2. c \in UdmContexts
      BY <1>a, <3>1, UdmUpdateTypes
    <3>3. udm_ctx' = [udm_ctx EXCEPT ![g] = c] /\ UNCHANGED loc_info
      BY <1>5, <2>2 DEF ModifyBearerBegin, IfKnown, HandleModifyBearer
    <3>4. UdmTypeOK'
      BY <3>2, <3>3, UdmHandlerType
    <3>5. SmfTypeOK'
      BY <1>5, <2>2, <3>1, SmfCallType, IdentityTypes
         DEF ModifyBearerBegin, IfKnown, N4Types
    <3>6. AmfTypeOK'
      BY <1>0, <1>5, <1>c, <1>j, <2>2, AmfStateType, AmfUpdateType
         DEF ModifyBearerBegin, IfKnown
    <3>. QED
      BY <1>5, <1>d, <1>i, <2>2, <3>4, <3>5, <3>6 DEF ModifyBearerBegin, IfKnown
  <2>. QED  BY <2>1, <2>2
<1>6. CASE ModifyBearerEnd(w)
  <2>1. SmfTypeOK'
    BY <1>6, SmfCallType DEF ModifyBearerEnd
  <2>2. amf[w].guti \in Imsis =>
           [amf_ctx[amf[w].guti] EXCEPT !.present = TRUE, !.ecm_state = 1]
              \in AmfContexts
    BY AmfContextTypes
  <2>3. amf_ctx' \in [Imsis -> AmfContexts]
    BY <1>6, <1>c, <2>2 DEF ModifyBearerEnd
  <2>. QED  BY <1>6, <1>d, <1>e, <1>i, <1>l, <2>1, <2>3 DEF ModifyBearerEnd
<1>7. CASE DetachBegin(w)
  <2>1. CASE GutiOf(w) = 0
    BY <1>7, <1>d, <1>e, <1>f, <1>h, <1>i, <2>1 DEF DetachBegin, IfKnown
  <2>2. CASE GutiOf(w) # 0
    <3>1. amf[w].arg \in {0} \cup Imsis
      BY <1>7 DEF DetachBegin, AmfAt, AmfTypeOK
    <3>2. SmfTypeOK'
      BY <1>7, <2>2, <3>1, SmfCallType, IdentityTypes
         DEF DetachBegin, IfKnown, N4Types
    <3>3. AmfTypeOK'
      BY <1>7, <1>c, <1>j, <2>2, <3>1, AmfStateType, AmfUpdateType
         DEF DetachBegin, IfKnown
    <3>. QED
      BY <1>7, <1>d, <1>e, <1>i, <2>2, <3>2, <3>3 DEF DetachBegin, IfKnown
  <2>. QED  BY <2>1, <2>2
<1>8. CASE DetachEnd(w)
  <2>1. SmfTypeOK'
    BY <1>8, SmfCallType DEF DetachEnd
  <2>2. DownOK
    BY <1>0, <1>8, <1>i, DownlinkMessageType, SendDownType DEF DetachEnd
  <2>3. AmfTypeOK'
    BY <1>0, <1>8, <1>c, <1>j, <1>l, AmfStateType, AmfUpdateType
       DEF DetachEnd, AmfGoto
  <2>. QED  BY <1>8, <1>d, <1>e, <2>1, <2>2, <2>3 DEF DetachEnd
<1>. QED  BY <1>1, <1>2, <1>3, <1>4, <1>5, <1>6, <1>7, <1>8

\* Every step of an AMF worker (amf.cpp) keeps the types it can touch.
LEMMA AmfWorkerType ==
    ASSUME AmfParts, NEW w \in Workers, AmfWorker(w)
    PROVE  AmfParts'
<1> USE DEF AmfParts
<1>a. ASSUME UNCHANGED <<exited, udmVars, upfVars, smfVars>>, ServerTypeOK', AmfTypeOK'
      PROVE  AmfParts'
  BY <1>a DEF PlatformTypeOK, UdmTypeOK, UpfTypeOK, SmfTypeOK, udmVars, upfVars,
              smfVars
<1>b. ASSUME UNCHANGED amfVars PROVE AmfTypeOK'
  BY <1>b DEF AmfTypeOK, amfVars
<1>1. CASE AmfSelect(w)
  BY <1>1, <1>a, <1>b, SelectType DEF AmfSelect
<1>2. CASE AmfClose(w)
  BY <1>2, <1>a, <1>b, CloseConnType DEF AmfClose
<1>3. CASE HandleUe(w)
  <2>1. PICK i \in DOMAIN conns[w] :
           LET n == conns[w][i]
               m == Head(up[n])
           IN  /\ IsNext(w, i, n)
               /\ up[n] # <<>>
               /\ amf' = [amf EXCEPT ![w] =
                            IF HandlerOf(m) = "idle" THEN IdleAmf
                            ELSE [pc |-> HandlerOf(m), ue |-> n, id |-> m.mme,
                                  arg |-> m.arg, guti |-> 0, imsi |-> 0]]
               /\ up' = [up EXCEPT ![n] = Tail(@)]
               /\ Served(w, n)
    BY <1>3 DEF HandleUe
  <2> DEFINE n == conns[w][i]
             m == Head(up[n])
             r == [pc |-> HandlerOf(m), ue |-> n, id |-> m.mme,
                   arg |-> m.arg, guti |-> 0, imsi |-> 0]
  <2>2. n \in Ues
    BY DEF ServerTypeOK
  <2>3. m \in UplinkMessages /\ Tail(up[n]) \in Seq(UplinkMessages)
    BY <2>1, <2>2, QueueType DEF ServerTypeOK
  <2>4. /\ m.typ \in 1 .. 10 /\ m.mme \in MmeIds /\ m.arg \in Nat
        /\ m.typ = 1 => m.arg \in Imsis
        /\ m.typ = 4 => m.arg \in Teids
        /\ m.typ = 5 => m.arg \in {0} \cup Imsis
    BY <2>3 DEF UplinkMessages, UplinkBody
  <2>5. HandlerOf(m) \in {"idle", "attach", "autn", "security_complete",
                          "attach_complete", "detach"}
    BY <2>4 DEF HandlerOf
  <2>6. /\ HandlerOf(m) = "attach" => m.typ = 1
        /\ HandlerOf(m) = "attach_complete" => m.typ = 4
        /\ HandlerOf(m) = "detach" => m.typ = 5
    BY <2>4 DEF HandlerOf
  <2> HIDE DEF n, m
  <2>7. r \in AmfStates
    BY <2>2, <2>4, <2>5 DEF AmfStates, AmfPcs
  <2>8. FitsPc(r)
    BY <2>4, <2>5, <2>6, <2>7 DEF FitsPc
  <2>9. amf' = [amf EXCEPT ![w] = IF HandlerOf(m) = "idle" THEN IdleAmf ELSE r]
    BY <2>1 DEF n, m
  <2>10. UNCHANGED <<ue_count, s1amf_id, amf_ctx>>
    BY <1>3 DEF HandleUe
  <2>11. AmfTypeOK'
    <3>1. /\ ue_count' \in Nat /\ s1amf_id' \in [MmeIds -> {0} \cup Imsis]
          /\ amf_ctx' \in [Imsis -> AmfContexts]
      BY <2>10 DEF AmfTypeOK
    <3>2. FitsPc(IF HandlerOf(m) = "idle" THEN IdleAmf ELSE r)
      BY <2>8, AmfStateType
    <3> HIDE DEF r
    <3>. QED  BY <2>9, <3>1, <3>2, AmfUpdateType
  <2>12. up' \in [Ues -> Seq(UplinkMessages)]
    BY <2>1, <2>2, <2>3 DEF ServerTypeOK, n
  <2>13. ready' \in [Workers -> SUBSET Ues]
    BY <2>1 DEF ServerTypeOK, Served
  <2>14. ServerTypeOK'
    BY <1>3, <2>12, <2>13 DEF ServerTypeOK, HandleUe
  <2>. QED  BY <1>3, <1>a, <2>11, <2>14 DEF HandleUe
<1>. QED  BY <1>1, <1>2, <1>3, AmfLocalType, AmfCallType DEF AmfWorker

----------------------------------------------------------------------------
(* The simulator                                                           *)

\* A message the simulator sends keeps the type of its stream (ran.cpp).
LEMMA SendUpType ==
    ASSUME ServerTypeOK, NEW n \in Ues, NEW typ \in 1 .. 10, NEW mme \in MmeIds,
           NEW arg \in Nat, arg \in UplinkBody[typ], SendUp(n, typ, mme, arg)
    PROVE  up' \in [Ues -> Seq(UplinkMessages)]
<1>1. [typ |-> typ, mme |-> mme, arg |-> arg] \in UplinkMessages
  BY DEF UplinkMessages
<1>2. Append(up[n], [typ |-> typ, mme |-> mme, arg |-> arg]) \in Seq(UplinkMessages)
  BY <1>1, QueueType DEF ServerTypeOK
<1>. QED  BY <1>2 DEF SendUp, ServerTypeOK

\* What the simulator receives is a message, and the rest of its stream is one.
LEMMA ReceivedType ==
    ASSUME ServerTypeOK, NEW n \in Ues, Received(n)
    PROVE  /\ Head(down[n]) \in DownlinkMessages
           /\ down' \in [Ues -> Seq(DownlinkMessages)]
<1>1. /\ Head(down[n]) \in DownlinkMessages
      /\ Tail(down[n]) \in Seq(DownlinkMessages)
  BY QueueType DEF Received, ServerTypeOK
<1>. QED  BY <1>1 DEF Received, ServerTypeOK

\* Every step of a simulator thread (ran.cpp) keeps the types it can touch.
LEMMA RanThreadType ==
    ASSUME ServerTypeOK, RanTypeOK, NEW n \in Ues, RanThread(n)
    PROVE  ServerTypeOK' /\ RanTypeOK' /\ UNCHANGED exited
<1>0. /\ ran[n] \in RanContexts /\ ran[n].mme_s1ap_ue_id \in MmeIds
      /\ ran[n].guti \in {0} \cup Imsis /\ ran[n].k_asme \in Nat
      /\ ran[n].cycles \in 0 .. MaxCycles
  BY DEF RanTypeOK, RanContexts
<1>a. ASSUME NEW r \in RanContexts, ran' = [ran EXCEPT ![n] = r],
             uplink_info' \in [Addresses -> Teids \cup {NoTeid}]
      PROVE  RanTypeOK'
  BY <1>a DEF RanTypeOK
<1>b. ASSUME NEW pc \in RanPcs, RanGoto(n, pc), UNCHANGED uplink_info
      PROVE  RanTypeOK'
  <2>1. [ran[n] EXCEPT !.pc = pc] \in RanContexts
    BY <1>0 DEF RanContexts
  <2>. QED  BY <1>b, <2>1 DEF RanTypeOK, RanGoto
<1>c. ASSUME UNCHANGED serverVars, up' \in [Ues -> Seq(UplinkMessages)],
             down' \in [Ues -> Seq(DownlinkMessages)],
             closed' = closed \/ closed' = closed \cup {n}
      PROVE  ServerTypeOK'
  BY <1>c DEF ServerTypeOK, serverVars
<1>d. /\ up \in [Ues -> Seq(UplinkMessages)]
      /\ down \in [Ues -> Seq(DownlinkMessages)]
      /\ uplink_info \in [Addresses -> Teids \cup {NoTeid}]
  BY DEF ServerTypeOK, RanTypeOK
<1>1. CASE ConnMme(n)
  <2>1. backlog' \in Seq(Ues)
    BY <1>1, QueueType DEF ConnMme, ServerTypeOK
  <2>. QED
    BY <1>1, <1>b, <2>1 DEF ConnMme, RanPcs, ServerTypeOK, linkVars
<1>2. CASE TimeExceeded(n)
  BY <1>2, <1>b, <1>c, <1>d DEF TimeExceeded, RanPcs
<1>3. CASE RanInitialAttach(n)
  <2>1. Imsi(n) \in Imsis /\ Imsi(n) \in Nat /\ 0 \in MmeIds
    BY IdentityTypes
  <2>2. up' \in [Ues -> Seq(UplinkMessages)]
    BY <1>3, <2>1, SendUpType DEF RanInitialAttach, UplinkBody
  <2>3. [ran[n] EXCEPT !.pc = "autn", !.cycles = ran[n].cycles + 1] \in RanContexts
    <3>1. ran[n].cycles + 1 \in 0 .. MaxCycles
      BY <1>0, <1>3, MaxCyclesAssumption DEF RanInitialAttach
    <3>. QED  BY <1>0, <3>1 DEF RanContexts, RanPcs
  <2>4. ran' = [ran EXCEPT ![n] = [ran[n] EXCEPT !.pc = "autn",
                                                 !.cycles = ran[n].cycles + 1]]
    BY <1>3 DEF RanInitialAttach
  <2>. QED  BY <1>3, <1>a, <1>c, <1>d, <2>2, <2>3, <2>4 DEF RanInitialAttach
<1>4. CASE RanAuthenticate(n)
  <2> DEFINE m == Head(down[n])
             res == AutnResponse(RanKey(n), m.rand_num)
             k == KAsme(res, m.rand_num)
  <2>1. m \in DownlinkMessages /\ down' \in [Ues -> Seq(DownlinkMessages)]
    BY <1>4, ReceivedType DEF RanAuthenticate
  <2>2. m.mme \in MmeIds /\ m.rand_num \in Nat
    BY <2>1 DEF DownlinkMessages
  <2>3. res \in Nat /\ k \in Nat
    BY <2>2, IdentityTypes DEF AutnResponse, KAsme, RanKey, PlmnId
  <2>4. CASE m.autn = res + 1
    <3> HIDE DEF k, res
    <3>1. [ran[n] EXCEPT !.mme_s1ap_ue_id = m.mme, !.k_asme = k, !.pc = "security"]
             \in RanContexts
      BY <1>0, <2>2, <2>3 DEF RanContexts, RanPcs
    <3>2. ran' = [ran EXCEPT ![n] = [ran[n] EXCEPT !.mme_s1ap_ue_id = m.mme,
                                       !.k_asme = k, !.pc = "security"]]
      BY <1>4, <2>4 DEF RanAuthenticate, k, res
    <3>3. res \in UplinkBody[2]
      BY <2>3 DEF UplinkBody
    <3>4. SendUp(n, 2, m.mme, res) /\ UNCHANGED closed
      BY <1>4, <2>4 DEF RanAuthenticate, res
    <3>5. up' \in [Ues -> Seq(UplinkMessages)]
      BY <2>2, <2>3, <3>3, <3>4, SendUpType
    <3>. QED
      BY <1>4, <1>a, <1>c, <1>d, <2>1, <3>1, <3>2, <3>4, <3>5 DEF RanAuthenticate
  <2>5. CASE m.autn # res + 1
    <3>1. [ran[n] EXCEPT !.mme_s1ap_ue_id = m.mme, !.pc = "failed"] \in RanContexts
      BY <1>0, <2>2 DEF RanContexts, RanPcs
    <3>. QED  BY <1>4, <1>a, <1>c, <1>d, <2>1, <2>5, <3>1 DEF RanAuthenticate
  <2>. QED  BY <2>4, <2>5
<1>5. CASE SetSecurity(n)
  <2> DEFINE r == [ran[n] EXCEPT !.k_nas = ran[n].k_asme + RanAlgo + RanCount + 1,
                                 !.pc = "session"]
  <2>1. ran[n].k_asme + RanAlgo + RanCount + 1 \in Nat
    BY <1>0 DEF RanAlgo, RanCount
  <2>2. r \in RanContexts
    BY <1>0, <2>1 DEF RanContexts, RanPcs
  <2>3. ran' = [ran EXCEPT ![n] = r]
    BY <1>5 DEF SetSecurity
  <2>4. up' \in [Ues -> Seq(UplinkMessages)]
    BY <1>0, <1>5, SendUpType DEF SetSecurity, UplinkBody
  <2>5. down' \in [Ues -> Seq(DownlinkMessages)]
    BY <1>5, ReceivedType DEF SetSecurity
  <2>. QED  BY <1>5, <1>a, <1>c, <1>d, <2>2, <2>3, <2>4, <2>5 DEF SetSecurity
<1>6. CASE SetEpsSession(n)
  <2> DEFINE m == Head(down[n])
             r == [ran[n] EXCEPT !.guti = m.guti, !.s1_uteid_ul = m.ul,
                                 !.s1_uteid_dl = m.ul, !.ip_addr = m.ip,
                                 !.pc = "data"]
  <2>1. m \in DownlinkMessages /\ down' \in [Ues -> Seq(DownlinkMessages)]
    BY <1>6, ReceivedType DEF SetEpsSession
  <2>2. m.guti \in {0} \cup Imsis /\ m.ul \in Teids /\ m.ip \in Addresses /\ m.ul \in Nat
    BY <2>1, IdentityTypes DEF DownlinkMessages
  <2>3. r \in RanContexts
    BY <1>0, <2>2 DEF RanContexts, RanPcs
  <2>4. ran' = [ran EXCEPT ![n] = r]
    BY <1>6 DEF SetEpsSession
  <2>5. m.ul \in UplinkBody[4]
    BY <2>2 DEF UplinkBody
  <2>6. up' \in [Ues -> Seq(UplinkMessages)]
    BY <1>0, <1>6, <2>2, <2>5, SendUpType DEF SetEpsSession
  <2>7. uplink_info' \in [Addresses -> Teids \cup {NoTeid}]
    BY <1>6, <1>d, <2>2 DEF SetEpsSession
  <2>. QED  BY <1>6, <1>a, <1>c, <2>1, <2>3, <2>4, <2>6, <2>7 DEF SetEpsSession
<1>7. CASE RanDetach(n)
  <2>1. ran[n].guti \in UplinkBody[5] /\ ran[n].guti \in Nat
    BY <1>0, IdentityTypes DEF UplinkBody
  <2>2. up' \in [Ues -> Seq(UplinkMessages)]
    BY <1>0, <1>7, <2>1, SendUpType DEF RanDetach
  <2>. QED  BY <1>7, <1>b, <1>c, <1>d, <2>2 DEF RanDetach, RanPcs
<1>8. CASE DetachAccepted(n)
  <2>1. down' \in [Ues -> Seq(DownlinkMessages)]
    BY <1>8, ReceivedType DEF DetachAccepted
  <2>. QED  BY <1>8, <1>b, <1>c, <1>d, <2>1 DEF DetachAccepted, RanPcs
<1>9. CASE ConnLost(n)
  BY <1>9, <1>b, <1>c, <1>d DEF ConnLost, RanPcs
<1>. QED
  BY <1>1, <1>2, <1>3, <1>4, <1>5, <1>6, <1>7, <1>8, <1>9 DEF RanThread

----------------------------------------------------------------------------
(* The system                                                              *)

\* The initial state of the core is well typed.
LEMMA InitType == Init => TypeOK
<1> SUFFICES ASSUME Init PROVE TypeOK
  OBVIOUS
<1> USE IdentityTypes DEF Init
<1>0. PlatformTypeOK
  BY DEF PlatformTypeOK
<1>1. UdmTypeOK
  <2>1. NoUdmContext \in UdmContexts
    BY Zenon DEF NoUdmContext, UdmContexts
  <2>. QED  BY <2>1 DEF UdmInit, UdmTypeOK
<1>2. UpfTypeOK
  <2>1. NoUpfContext \in UpfContexts /\ IdleThread \in UpfThreadStates
    BY DEF NoUpfContext, UpfContexts, IdleThread, UpfThreadStates, UpfPcs, N4Types
  <2>. QED  BY <2>1, MaxLossesAssumption DEF UpfInit, UpfTypeOK, IdleThread
<1>3. SmfTypeOK
  <2>1. IdleSmf \in SmfStates
    BY DEF IdleSmf, SmfStates, SmfPcs, N4Types
  <2>. QED  BY <2>1, MaxTimeoutsAssumption DEF SmfInit, SmfTypeOK, IdleSmf
<1>4. ServerTypeOK
  BY DEF ServerInit, ServerTypeOK
<1>5. AmfTypeOK
  <2>1. NoAmfContext \in AmfContexts /\ IdleAmf \in AmfStates
    BY DEF NoAmfContext, AmfContexts, IdleAmf, AmfStates, AmfPcs
  <2>. QED  BY <2>1 DEF AmfInit, AmfTypeOK, IdleAmf
<1>6. RanTypeOK
  <2>1. NewRan \in RanContexts
    BY MaxCyclesAssumption DEF NewRan, RanContexts, RanPcs
  <2>. QED  BY <2>1 DEF RanInit, RanTypeOK
<1>. QED  BY <1>0, <1>1, <1>2, <1>3, <1>4, <1>5, <1>6 DEF TypeOK

\* Every step of the core keeps every type.
LEMMA NextType == TypeOK /\ [Next]_vars => TypeOK'
<1> SUFFICES ASSUME TypeOK, [Next]_vars PROVE TypeOK'
  OBVIOUS
<1> USE DEF TypeOK
<1>a. UNCHANGED udmVars => UdmTypeOK'
  BY DEF UdmTypeOK, udmVars
<1>b. UNCHANGED upfVars => UpfTypeOK'
  BY DEF UpfTypeOK, upfVars
<1>c. UNCHANGED smfVars => SmfTypeOK'
  BY DEF SmfTypeOK, smfVars
<1>d. UNCHANGED <<serverVars, linkVars>> => ServerTypeOK'
  BY DEF ServerTypeOK, serverVars, linkVars
<1>e. UNCHANGED amfVars => AmfTypeOK'
  BY DEF AmfTypeOK, amfVars
<1>f. UNCHANGED ranVars => RanTypeOK'
  BY DEF RanTypeOK, ranVars
<1>g. UNCHANGED exited => PlatformTypeOK'
  BY DEF PlatformTypeOK
<1>1. CASE \E n \in Ues : RanStep(n)
  BY <1>1, <1>a, <1>b, <1>c, <1>e, <1>g, RanThreadType DEF RanStep
<1>2. CASE AcceptStep
  BY <1>2, <1>a, <1>b, <1>c, <1>e, <1>f, <1>g, AcceptType DEF AcceptStep
<1>3. CASE \E w \in Workers : AmfStep(w)
  BY <1>3, <1>f, AmfWorkerType DEF AmfStep, AmfParts
<1>4. CASE \E w \in Workers : SmfStep(w)
  BY <1>4, <1>d, <1>e, <1>f, SmfWorkerType DEF SmfStep
<1>5. CASE \E t \in UpfThreads : UpfStep(t)
  BY <1>5, <1>a, <1>c, <1>d, <1>e, <1>f, UpfThreadType DEF UpfStep
<1>6. CASE Lose
  BY <1>6, <1>a, <1>c, <1>d, <1>e, <1>f, <1>g, LoseType DEF Lose
<1>7. CASE AmfCrash
  <2>1. PlatformTypeOK'
    BY <1>7 DEF AmfCrash, Exit, PlatformTypeOK, Processes
  <2>. QED  BY <1>7, <1>a, <1>b, <1>c, <1>d, <1>e, <1>f, <2>1 DEF AmfCrash
<1>8. CASE UNCHANGED vars
  BY <1>8, <1>a, <1>b, <1>c, <1>d, <1>e, <1>f, <1>g DEF vars
<1>. QED
  BY <1>1, <1>2, <1>3, <1>4, <1>5, <1>6, <1>7, <1>8 DEF Next, Finished

\* Every value a component stores, sends or keeps in a register is one the
\* next reader of it expects, and the locals a handler uses after a lookup are
\* never the zero of a missing entry.
THEOREM TypeCorrect == Spec => []TypeOK
BY InitType, NextType, PTL DEF Spec

----------------------------------------------------------------------------
(* Ids                                                                     *)

\* The only ways a step changes the id table and its counter.
LEMMA IdSteps ==
    ASSUME TypeOK, [Next]_vars
    PROVE  \/ UNCHANGED <<ue_count, s1amf_id>>
           \/ \E id \in MmeIds : /\ s1amf_id' = [s1amf_id EXCEPT ![id] = 0]
                                 /\ UNCHANGED ue_count
           \/ \E w \in Workers : InitialAttach(w)
<1> DEFINE Goal == \/ UNCHANGED <<ue_count, s1amf_id>>
                   \/ \E id \in MmeIds : /\ s1amf_id' = [s1amf_id EXCEPT ![id] = 0]
                                         /\ UNCHANGED ue_count
                   \/ \E w \in Workers : InitialAttach(w)
<1>1. ASSUME NEW w \in Workers, AmfWorker(w) PROVE Goal
  <2>1. amf[w].id \in MmeIds
    BY AmfStateType DEF TypeOK
  <2>2. CASE HandleAutn(w)
    BY <2>1, <2>2 DEF HandleAutn, IfKnown
  <2>3. CASE RemItfid(w)
    BY <2>1, <2>3 DEF RemItfid
  <2>4. CASE AmfSelect(w) \/ AmfClose(w) \/ HandleUe(w)
    BY <2>4 DEF AmfSelect, AmfClose, HandleUe, amfVars
  <2>5. CASE AttachInit(w) \/ AttachAuth(w) \/ SecurityModeCmd(w)
             \/ SetIntegrityContext(w) \/ SendSecurityModeCmd(w)
    BY <2>5 DEF AttachInit, AttachAuth, SecurityModeCmd, SetIntegrityContext,
                SendSecurityModeCmd
  <2>6. CASE SecurityModeComplete(w) \/ LocationUpdate(w) \/ LocationDelete(w)
             \/ LocationInsert(w) \/ CreateSessionBegin(w) \/ CreateSessionEnd(w)
    BY <2>6 DEF SecurityModeComplete, LocationUpdate, LocationDelete,
                LocationInsert, CreateSessionBegin, CreateSessionEnd
  <2>7. CASE AttachComplete(w) \/ ModifyBearerBegin(w) \/ ModifyBearerEnd(w)
             \/ DetachBegin(w) \/ DetachEnd(w) \/ RemUectx(w)
    BY <2>7 DEF AttachComplete, ModifyBearerBegin, ModifyBearerEnd, DetachBegin,
                DetachEnd, RemUectx
  <2>. QED  BY <1>1, <2>2, <2>3, <2>4, <2>5, <2>6, <2>7 DEF AmfWorker
<1>2. ASSUME UNCHANGED amfVars PROVE Goal
  BY <1>2 DEF amfVars
<1>. QED
  BY <1>1, <1>2 DEF Next, RanStep, AcceptStep, AmfStep, SmfStep, UpfStep, Lose,
                    AmfCrash, Finished, vars

\* A remainder of a smaller number is the number.
LEMMA SmallModType == ASSUME NEW b \in Nat \ {0}, NEW a \in 0 .. (b - 1)
                      PROVE  a % b = a
OBVIOUS

\* Before the counter wraps the next id is the successor of the last one.
LEMMA NextId ==
    ASSUME TypeOK, ue_count + 1 < IdSpace
    PROVE  /\ (ue_count + 1) % IdSpace = ue_count + 1
           /\ ue_count + 1 \in MmeIds
<1>1. ue_count + 1 \in 0 .. (IdSpace - 1)
  BY DEF TypeOK, AmfTypeOK
<1>. QED  BY <1>1, SmallModType DEF MmeIds

\* Before the first attach no id is in use.
LEMMA FreshIdsInit == Init => FreshIds
BY DEF Init, AmfInit, FreshIds

\* No step enters an id that the counter has not come to (amf.cpp:163-169).
LEMMA FreshIdsStep ==
    ASSUME TypeOK, FreshIds, [Next]_vars
    PROVE  FreshIds'
<1>0. /\ ue_count \in Nat /\ s1amf_id \in [MmeIds -> {0} \cup Imsis]
      /\ MmeIds \subseteq Nat
  BY IdentityTypes DEF TypeOK, AmfTypeOK
<1>1. CASE UNCHANGED <<ue_count, s1amf_id>>
  BY <1>1 DEF FreshIds
<1>2. ASSUME NEW id \in MmeIds, s1amf_id' = [s1amf_id EXCEPT ![id] = 0],
             UNCHANGED ue_count
      PROVE  FreshIds'
  BY <1>0, <1>2 DEF FreshIds
<1>3. ASSUME NEW w \in Workers, InitialAttach(w)
      PROVE  FreshIds'
  <2>1. SUFFICES ASSUME ue_count' < IdSpace, NEW id \in MmeIds, id > ue_count'
                 PROVE  s1amf_id'[id] = 0
    BY DEF FreshIds
  <2>2. ue_count' = ue_count + 1 /\ ue_count + 1 \in Nat
    BY <1>0, <1>3 DEF InitialAttach
  <2>3. (ue_count + 1) % IdSpace = ue_count + 1
    BY <2>1, <2>2, NextId
  <2>4. s1amf_id' = [s1amf_id EXCEPT ![ue_count + 1] = GetGuti(amf[w].arg)]
    BY <1>3, <2>3 DEF InitialAttach
  <2>5. id # ue_count + 1 /\ id > ue_count
    BY <1>0, <2>1, <2>2
  <2>6. s1amf_id[id] = 0
    BY <1>0, <2>1, <2>2, <2>5 DEF FreshIds
  <2>. QED  BY <1>0, <2>4, <2>5, <2>6
<1>. QED  BY <1>1, <1>2, <1>3, IdSteps

\* One step: an id in use keeps its GUTI or is removed.
LEMMA IdStep ==
    ASSUME TypeOK, FreshIds, [Next]_vars, ue_count' < IdSpace,
           NEW id \in MmeIds, s1amf_id[id] # 0
    PROVE  s1amf_id'[id] \in {0, s1amf_id[id]}
<1>0. /\ ue_count \in Nat /\ s1amf_id \in [MmeIds -> {0} \cup Imsis]
      /\ MmeIds \subseteq Nat
  BY IdentityTypes DEF TypeOK, AmfTypeOK
<1>1. CASE UNCHANGED <<ue_count, s1amf_id>>
  BY <1>1
<1>2. ASSUME NEW i \in MmeIds, s1amf_id' = [s1amf_id EXCEPT ![i] = 0]
      PROVE  s1amf_id'[id] \in {0, s1amf_id[id]}
  BY <1>0, <1>2
<1>3. ASSUME NEW w \in Workers, InitialAttach(w)
      PROVE  s1amf_id'[id] \in {0, s1amf_id[id]}
  <2>1. ue_count' = ue_count + 1
    BY <1>3 DEF InitialAttach
  <2>2. (ue_count + 1) % IdSpace = ue_count + 1 /\ ue_count + 1 \in MmeIds
    BY <2>1, NextId
  <2>3. s1amf_id' = [s1amf_id EXCEPT ![ue_count + 1] = GetGuti(amf[w].arg)]
    BY <1>3, <2>2 DEF InitialAttach
  <2>4. s1amf_id[ue_count + 1] = 0
    BY <1>0, <2>1, <2>2 DEF FreshIds
  <2>. QED  BY <1>0, <2>3, <2>4
<1>. QED  BY <1>1, <1>2, <1>3, IdSteps

\* handle_initial_attach takes the next value of the counter under its mutex:
\* as long as it has not wrapped, no entry of the id table is overwritten.
THEOREM IdsUnique == Spec => IdNeverReused
<1>1. TypeOK /\ FreshIds /\ [Next]_vars =>
         [ue_count' < IdSpace =>
             \A id \in MmeIds :
                s1amf_id[id] # 0 => s1amf_id'[id] \in {0, s1amf_id[id]}]_vars
  BY IdStep
<1>. QED  BY <1>1, TypeCorrect, FreshIdsInit, FreshIdsStep, PTL DEF Spec, IdNeverReused

----------------------------------------------------------------------------
(* Lookups                                                                 *)

\* At the start no table holds anything and nothing is on its way.
LEMMA LookupInit == Init => LookupInv
BY DEF Init, UdmInit, NoUdmContext, UpfInit, IdleThread, SmfInit, IdleSmf, AmfInit,
       IdleAmf, LookupInv, LookupsOwned, ImsiTravels, AmfCarriesOwn, UdmHoldsOwn,
       SmfAsksOwn, N4CarriesOwn, UpfEntersOwn, CreatePcs, OwnGuti

\* Queues: what every element satisfies the rest and a longer queue do too.
LEMMA TailOwn ==
    ASSUME UpfTypeOK, N4CarriesOwn, n4_req # <<>>, n4_req' = Tail(n4_req)
    PROVE  /\ N4CarriesOwn'
           /\ Head(n4_req).typ = "create" =>
                 OwnTeid(Head(n4_req).imsi, Head(n4_req).teid)
<1>1. /\ n4_req \in Seq(N4Requests) /\ Len(n4_req) \in Nat /\ Len(n4_req) > 0
      /\ DOMAIN n4_req = 1 .. Len(n4_req) /\ Head(n4_req) = n4_req[1]
  BY EmptySeq, HeadTailProperties DEF UpfTypeOK
<1>2. /\ DOMAIN n4_req' = 1 .. (Len(n4_req) - 1)
      /\ \A i \in DOMAIN n4_req' : n4_req'[i] = n4_req[i + 1]
                                   /\ i + 1 \in DOMAIN n4_req
  BY <1>1, HeadTailProperties
<1>3. N4CarriesOwn'
  BY <1>2 DEF N4CarriesOwn, OwnTeid
<1>4. 1 \in DOMAIN n4_req
  BY <1>1
<1>. QED  BY <1>1, <1>3, <1>4 DEF N4CarriesOwn

\* A request that carries a subscriber's own teid may join the queue.
LEMMA AppendOwn ==
    ASSUME UpfTypeOK, N4CarriesOwn, NEW m, n4_req' = Append(n4_req, m),
           m.typ = "create" => OwnTeid(m.imsi, m.teid)
    PROVE  N4CarriesOwn'
<1>1. n4_req \in Seq(N4Requests)
  BY DEF UpfTypeOK
<1>2. /\ DOMAIN n4_req = 1 .. Len(n4_req) /\ Len(n4_req) \in Nat
      /\ DOMAIN n4_req' = 1 .. (Len(n4_req) + 1)
  BY <1>1
<1>3. /\ n4_req'[Len(n4_req) + 1] = m
      /\ \A i \in DOMAIN n4_req : n4_req'[i] = n4_req[i]
  BY <1>1
<1>4. \A i \in DOMAIN n4_req' : i = Len(n4_req) + 1 \/ i \in DOMAIN n4_req
  BY <1>2
<1>5. ASSUME NEW i \in DOMAIN n4_req', n4_req'[i].typ = "create"
      PROVE  OwnTeid(n4_req'[i].imsi, n4_req'[i].teid)
  BY <1>3, <1>4, <1>5 DEF N4CarriesOwn
<1>. QED  BY <1>5 DEF N4CarriesOwn, OwnTeid

\* The UPF enters what the request says and nothing else.
LEMMA UpfThreadOwn ==
    ASSUME UpfTypeOK, N4CarriesOwn, UpfEntersOwn,
           NEW t \in UpfThreads, UpfThread(t)
    PROVE  (LookupsOwned => LookupsOwned') /\ N4CarriesOwn' /\ UpfEntersOwn'
<1> USE DEF UpfTypeOK
<1>0. /\ upf[t] \in UpfThreadStates /\ upf[t].imsi \in {0} \cup Imsis
      /\ upf[t].teid \in Teids
  BY DEF UpfThreadStates
<1>a. ASSUME UNCHANGED n4_req PROVE N4CarriesOwn'
  BY <1>a DEF N4CarriesOwn
<1>b. ASSUME UNCHANGED <<s11_id, s1_id, sgi_id>> PROVE LookupsOwned => LookupsOwned'
  BY <1>b DEF LookupsOwned
<1>c. ASSUME NEW r, upf' = [upf EXCEPT ![t] = r],
             r.pc \in CreatePcs => OwnTeid(r.imsi, r.teid)
      PROVE  UpfEntersOwn'
  BY <1>c DEF UpfEntersOwn
<1>d. ASSUME NEW pc, UpfGoto(t, pc),
             pc \in CreatePcs => upf[t].pc \in CreatePcs
      PROVE  UpfEntersOwn'
  BY <1>0, <1>d DEF UpfGoto, UpfEntersOwn, UpfThreadStates
<1>1. CASE UpfReceive(t)
  <2> DEFINE m == Head(n4_req)
             first == [create |-> "c_s11", modify |-> "m_lookup",
                       release |-> "d_lookup"]
             r == [pc |-> first[m.typ], typ |-> m.typ, w |-> m.w,
                   teid |-> m.teid, imsi |-> m.imsi, dl |-> m.dl, ip |-> 0]
  <2>1. /\ N4CarriesOwn'
        /\ m.typ = "create" => OwnTeid(m.imsi, m.teid)
        /\ m.typ \in N4Types
    <3>1. m \in N4Requests
      BY <1>1, QueueType DEF UpfReceive
    <3>. QED  BY <1>1, <3>1, TailOwn DEF UpfReceive, N4Requests
  <2>2. r.pc \in CreatePcs => OwnTeid(r.imsi, r.teid)
    BY <2>1 DEF N4Types, CreatePcs
  <2>3. upf' = [upf EXCEPT ![t] = r]
    BY <1>1 DEF UpfReceive
  <2> HIDE DEF r
  <2>4. UpfEntersOwn'
    BY <1>c, <2>2, <2>3
  <2>. QED  BY <1>1, <1>b, <2>1, <2>4 DEF UpfReceive, upfTables
<1>2. CASE UpfSend(t)
  <2> DEFINE r == IF upf[t].typ = "release" THEN [upf[t] EXCEPT !.pc = "d_s11"]
                                            ELSE IdleThread
  <2>1. r.pc \notin CreatePcs
    BY <1>0 DEF CreatePcs, IdleThread, UpfThreadStates
  <2>2. upf' = [upf EXCEPT ![t] = r]
    BY <1>2 DEF UpfSend
  <2>3. UpfEntersOwn'
    BY <1>c, <2>1, <2>2
  <2>4. UNCHANGED <<n4_req, s11_id, s1_id, sgi_id>>
    BY <1>2 DEF UpfSend, upfTables
  <2>. QED  BY <1>a, <1>b, <2>3, <2>4
<1>3. CASE CreateS11(t) \/ CreateS1(t)
  <2>1. OwnTeid(upf[t].imsi, upf[t].teid)
    BY <1>3 DEF CreateS11, CreateS1, UpfEntersOwn, CreatePcs
  <2>2. ASSUME LookupsOwned PROVE LookupsOwned'
    BY <1>0, <1>3, <2>1, <2>2 DEF CreateS11, CreateS1, LookupsOwned, OwnTeid
  <2>3. UpfEntersOwn'
    BY <1>3, <1>d DEF CreateS11, CreateS1, CreatePcs
  <2>. QED  BY <1>3, <1>a, <2>2, <2>3 DEF CreateS11, CreateS1, n4Vars
<1>4. CASE CreateSgi(t)
  <2>1. OwnTeid(upf[t].imsi, upf[t].teid)
    BY <1>4 DEF CreateSgi, UpfEntersOwn, CreatePcs
  <2>2. LookupsOwned => LookupsOwned'
    BY <1>0, <1>4 DEF CreateSgi, LookupsOwned
  <2> DEFINE r == [upf[t] EXCEPT !.ip = IpAddr(upf[t].imsi), !.pc = "c_ctx"]
  <2>3. r.imsi = upf[t].imsi /\ r.teid = upf[t].teid
    BY <1>0 DEF UpfThreadStates
  <2>4. upf' = [upf EXCEPT ![t] = r]
    BY <1>4 DEF CreateSgi
  <2>5. UpfEntersOwn'
    BY <1>c, <2>1, <2>3, <2>4
  <2>. QED  BY <1>4, <1>a, <2>2, <2>5 DEF CreateSgi, n4Vars
<1>5. CASE CreateContext(t)
  BY <1>5, <1>a, <1>b, <1>d DEF CreateContext, CreatePcs, n4Vars
<1>6. CASE UpfLookup(t)
  <2> DEFINE imsi == s11_id[upf[t].teid]
             next == IF upf[t].typ = "modify" THEN "m_ctx" ELSE "d_ctx"
             r == [upf[t] EXCEPT !.imsi = imsi, !.pc = next]
  <2>1. r.pc \notin CreatePcs
    BY <1>0 DEF CreatePcs, UpfThreadStates
  <2>2. UNCHANGED upf \/ upf' = [upf EXCEPT ![t] = r]
    BY <1>6 DEF UpfLookup
  <2>3. UpfEntersOwn'
    BY <1>c, <2>1, <2>2 DEF UpfEntersOwn
  <2>. QED  BY <1>6, <1>a, <1>b, <2>3 DEF UpfLookup, upfTables, n4Vars
<1>7. CASE ModifyContext(t)
  <2> DEFINE r == [upf[t] EXCEPT !.teid = upf_ctx[upf[t].imsi].s11_cteid, !.pc = "send"]
  <2>1. r.pc \notin CreatePcs
    BY <1>0 DEF CreatePcs, UpfThreadStates
  <2>2. upf' = [upf EXCEPT ![t] = r]
    BY <1>7 DEF ModifyContext
  <2>3. UpfEntersOwn'
    BY <1>c, <2>1, <2>2
  <2>. QED  BY <1>7, <1>a, <1>b, <2>3 DEF ModifyContext, n4Vars
<1>8. CASE DetachContext(t)
  <2> DEFINE ctx == upf_ctx[upf[t].imsi]
             r == [upf[t] EXCEPT !.teid = ctx.s11_cteid, !.dl = ctx.s1_uteid_ul,
                                 !.ip = ctx.ip_addr, !.pc = "send"]
  <2>1. r.pc \notin CreatePcs
    BY <1>0 DEF CreatePcs, UpfThreadStates
  <2>2. UNCHANGED upf \/ upf' = [upf EXCEPT ![t] = r]
    BY <1>8 DEF DetachContext
  <2>3. UpfEntersOwn'
    BY <1>c, <2>1, <2>2 DEF UpfEntersOwn
  <2>. QED  BY <1>8, <1>a, <1>b, <2>3 DEF DetachContext, upfTables, n4Vars
<1>9. CASE DetachS11(t) \/ DetachS1(t) \/ DetachSgi(t)
  <2>1. LookupsOwned => LookupsOwned'
    BY <1>9 DEF DetachS11, DetachS1, DetachSgi, LookupsOwned
  <2>2. UpfEntersOwn'
    BY <1>9, <1>d DEF DetachS11, DetachS1, DetachSgi, CreatePcs
  <2>. QED  BY <1>9, <1>a, <2>1, <2>2 DEF DetachS11, DetachS1, DetachSgi, n4Vars
<1>10. CASE RemUpfContext(t)
  <2>1. UpfEntersOwn'
    BY <1>10, <1>c DEF RemUpfContext, CreatePcs, IdleThread
  <2>. QED  BY <1>10, <1>a, <1>b, <2>1 DEF RemUpfContext, n4Vars
<1>. QED
  BY <1>1, <1>2, <1>3, <1>4, <1>5, <1>6, <1>7, <1>8, <1>9, <1>10 DEF UpfThread

\* A create carries the IMSI and the teid of the call, nothing else does.
LEMMA SmfWorkerOwn ==
    ASSUME TypeOK, ImsiTravels, NEW w \in Workers, SmfWorker(w)
    PROVE  /\ UNCHANGED upfTables
           /\ UdmHoldsOwn' /\ SmfAsksOwn' /\ N4CarriesOwn' /\ UpfEntersOwn'
<1>0. /\ UdmTypeOK /\ UpfTypeOK /\ SmfTypeOK
      /\ UdmHoldsOwn /\ SmfAsksOwn /\ N4CarriesOwn /\ UpfEntersOwn
      /\ smf[w] \in SmfStates
  BY DEF TypeOK, SmfTypeOK, ImsiTravels
<1>a. UNCHANGED upfTables /\ UpfEntersOwn'
  <2>1. UNCHANGED <<upfTables, upf>>
    BY DEF SmfWorker, RequestCreate, RequestModify, RequestRelease, RcvAnswer,
           RcvTimeout, UpdateCreate
  <2>. QED  BY <1>0, <2>1 DEF UpfEntersOwn
<1>b. ASSUME UNCHANGED udmVars PROVE UdmHoldsOwn'
  BY <1>0, <1>b DEF udmVars, UdmHoldsOwn
<1>c. ASSUME UNCHANGED n4_req PROVE N4CarriesOwn'
  BY <1>0, <1>c DEF N4CarriesOwn
<1>d. ASSUME NEW r, smf' = [smf EXCEPT ![w] = r], r.pc # "call"
      PROVE  SmfAsksOwn'
  BY <1>0, <1>d DEF SmfAsksOwn, SmfTypeOK
<1>e. ASSUME UNCHANGED smf PROVE SmfAsksOwn'
  BY <1>0, <1>e DEF SmfAsksOwn
<1>1. CASE RequestCreate(w)
  <2>1. CASE smf[w].guti = 0
    BY <1>1, <1>a, <1>b, <1>c, <1>e, <2>1 DEF RequestCreate
  <2>2. CASE smf[w].guti # 0
    <3>1. OwnGuti(smf[w].imsi, smf[w].guti) /\ OwnTeid(smf[w].imsi, smf[w].asked)
      BY <1>0, <1>1 DEF RequestCreate, SmfAsksOwn
    <3>2. \A g \in Imsis : \/ udm_ctx'[g].imsi = udm_ctx[g].imsi
                           \/ g = smf[w].guti /\ udm_ctx'[g].imsi = smf[w].imsi
      <4>1. udm_ctx' = [udm_ctx EXCEPT ![smf[w].guti] =
                            [@ EXCEPT !.imsi = smf[w].imsi,
                                      !.s11_cteid_mme = smf[w].asked]]
        BY <1>1, <2>2 DEF RequestCreate, RequestSmfCreateSession
      <4>2. udm_ctx \in [Imsis -> UdmContexts]
        BY <1>0 DEF UdmTypeOK
      <4>. QED  BY <4>1, <4>2 DEF UdmContexts
    <3>3. UdmHoldsOwn'
      BY <1>0, <3>1, <3>2 DEF UdmHoldsOwn, OwnGuti
    <3> DEFINE m == [typ |-> "create", w |-> w, teid |-> smf[w].asked,
                     imsi |-> smf[w].imsi, dl |-> 0]
    <3>4. n4_req' = Append(n4_req, m) /\ OwnTeid(m.imsi, m.teid)
      BY <1>1, <2>2, <3>1 DEF RequestCreate, SendN4
    <3>5. N4CarriesOwn'
      BY <1>0, <3>4, AppendOwn
    <3>6. [smf[w] EXCEPT !.pc = "wait"].pc # "call"
      BY <1>0 DEF SmfStates
    <3>7. smf' = [smf EXCEPT ![w] = [smf[w] EXCEPT !.pc = "wait"]]
      BY <1>0, <1>1, <2>2 DEF RequestCreate, SmfTypeOK
    <3>8. SmfAsksOwn'
      BY <1>d, <3>6, <3>7
    <3>. QED  BY <1>a, <3>3, <3>5, <3>8
  <2>. QED  BY <2>1, <2>2
<1>2. CASE RequestModify(w) \/ RequestRelease(w)
  <2>1. CASE smf[w].guti = 0
    BY <1>2, <1>a, <1>b, <1>c, <1>e, <2>1 DEF RequestModify, RequestRelease
  <2>2. CASE smf[w].guti # 0
    <3> DEFINE r == [smf[w] EXCEPT !.pc = "wait",
                                   !.asked = udm_ctx[smf[w].guti].s11_cteid_sgw]
    <3>1. r.pc # "call"
      BY <1>0 DEF SmfStates
    <3>2. smf' = [smf EXCEPT ![w] = r]
      BY <1>2, <2>2 DEF RequestModify, RequestRelease
    <3> HIDE DEF r
    <3>3. SmfAsksOwn'
      BY <1>d, <3>1, <3>2
    <3>4. \E typ \in {"modify", "release"} : \E t, d :
             n4_req' = Append(n4_req, [typ |-> typ, w |-> w, teid |-> t,
                                       imsi |-> 0, dl |-> d])
      BY <1>2, <2>2 DEF RequestModify, RequestRelease, SendN4
    <3>5. N4CarriesOwn'
      BY <1>0, <3>4, AppendOwn
    <3>6. UdmHoldsOwn'
      BY <1>2, <1>b DEF RequestModify, RequestRelease
    <3>. QED  BY <1>a, <3>3, <3>5, <3>6
  <2>. QED  BY <2>1, <2>2
<1>3. CASE RcvAnswer(w) \/ RcvTimeout(w)
  <2>1. \E c, b : TakeAnswer(w, c, b)
    BY <1>3 DEF RcvAnswer, RcvTimeout
  <2>2. PICK c, b : TakeAnswer(w, c, b)
    BY <2>1
  <2>3. smf[w].typ \in {"create", "modify", "release"}
    BY <1>0 DEF SmfStates, N4Types
  <2>4. \E r : smf' = [smf EXCEPT ![w] = r] /\ r.pc # "call"
    <3>1. CASE smf[w].typ = "create"
      <4> DEFINE r == [smf[w] EXCEPT !.pc = "update", !.teid = c.teid,
                                     !.ip = c.ip, !.ul = c.ul]
      <4>1. smf' = [smf EXCEPT ![w] = r]
        BY <2>2, <3>1 DEF TakeAnswer
      <4>2. r.pc # "call"
        BY <1>0 DEF SmfStates
      <4> HIDE DEF r
      <4>. QED  BY <4>1, <4>2
    <3>2. CASE smf[w].typ # "create"
      <4>1. PICK d : smf' = [smf EXCEPT ![w] =
                               [smf[w] EXCEPT !.pc = "done", !.res = d]]
        BY <2>2, <2>3, <3>2 DEF TakeAnswer
      <4> DEFINE r == [smf[w] EXCEPT !.pc = "done", !.res = d]
      <4>2. r.pc # "call"
        BY <1>0 DEF SmfStates
      <4> HIDE DEF r
      <4>. QED  BY <4>1, <4>2 DEF r
    <3>. QED  BY <3>1, <3>2
  <2>5. SmfAsksOwn'
    BY <1>d, <2>4
  <2>. QED  BY <1>3, <1>a, <1>b, <1>c, <2>5 DEF RcvAnswer, RcvTimeout, n4Vars
<1>4. CASE UpdateCreate(w)
  <2> DEFINE r == [smf[w] EXCEPT !.pc = "done", !.res = TRUE, !.teid = smf[w].asked,
                                 !.tau_timer = udm_ctx'[smf[w].guti].tau_timer]
  <2>1. r.pc # "call"
    BY <1>0 DEF SmfStates
  <2>2. smf' = [smf EXCEPT ![w] = r]
    BY <1>4 DEF UpdateCreate
  <2> HIDE DEF r
  <2>3. SmfAsksOwn'
    BY <1>d, <2>1, <2>2
  <2>4. \A g \in Imsis : udm_ctx'[g].imsi = udm_ctx[g].imsi
    BY <1>0, <1>4 DEF UpdateCreate, UpdateSmfCreateSession, UdmTypeOK, UdmContexts
  <2>5. UdmHoldsOwn'
    BY <1>0, <2>4 DEF UdmHoldsOwn
  <2>. QED  BY <1>4, <1>a, <1>c, <2>3, <2>5 DEF UpdateCreate, n4Vars
<1>. QED  BY <1>1, <1>2, <1>3, <1>4 DEF SmfWorker

\* Only handle_initial_attach writes the IMSI of a UDM context.
LEMMA AmfKeepsImsi ==
    ASSUME TypeOK, NEW w \in Workers, AmfWorker(w), ~AttachInit(w)
    PROVE  \A g \in Imsis : udm_ctx'[g].imsi = udm_ctx[g].imsi
<1>0. udm_ctx \in [Imsis -> UdmContexts]
  BY DEF TypeOK, UdmTypeOK
<1>1. CASE AmfSelect(w) \/ AmfClose(w) \/ HandleUe(w) \/ InitialAttach(w)
           \/ HandleAutn(w) \/ SendSecurityModeCmd(w) \/ SecurityModeComplete(w)
           \/ LocationUpdate(w) \/ LocationDelete(w) \/ LocationInsert(w)
  BY <1>1 DEF AmfSelect, AmfClose, HandleUe, InitialAttach, HandleAutn,
              SendSecurityModeCmd, SecurityModeComplete, LocationUpdate,
              LocationDelete, LocationInsert, DeleteLocInfo, InsertLocInfo, udmVars
<1>2. CASE ModifyBearerEnd(w) \/ DetachBegin(w) \/ DetachEnd(w) \/ RemItfid(w)
           \/ RemUectx(w)
  BY <1>2 DEF ModifyBearerEnd, DetachBegin, DetachEnd, RemItfid, RemUectx, udmVars
<1>3. CASE AttachAuth(w)
  BY <1>0, <1>3 DEF AttachAuth, UpdateInitialAttach, UdmContexts
<1>4. CASE SecurityModeCmd(w)
  BY <1>0, <1>4 DEF SecurityModeCmd, IfKnown, SetCrypt, UdmContexts, udmVars
<1>5. CASE SetIntegrityContext(w)
  BY <1>0, <1>5 DEF SetIntegrityContext, SetIntegrity, UdmContexts
<1>6. CASE CreateSessionBegin(w)
  BY <1>0, <1>6 DEF CreateSessionBegin, IfKnown, HandleCreateSessionBegin,
                    UdmContexts, udmVars
<1>7. CASE CreateSessionEnd(w)
  <2>1. PICK g, t, a, u, x : udm_ctx' = [udm_ctx EXCEPT ![g] =
           [@ EXCEPT !.s11_cteid_upf = t, !.ip_addr = a, !.s1_uteid_ul = u,
                     !.tau_timer = x]]
    BY <1>7 DEF CreateSessionEnd, HandleCreateSessionEnd
  <2>. QED  BY <1>0, <2>1 DEF UdmContexts
<1>8. CASE AttachComplete(w)
  <2>1. CASE GutiOf(w) = 0
    BY <1>8, <2>1 DEF AttachComplete, IfKnown, udmVars
  <2>2. CASE GutiOf(w) # 0
    <3>1. PICK g, t : udm_ctx' = [udm_ctx EXCEPT ![g] =
                                   [@ EXCEPT !.s1_uteid_dl = t, !.emm_state = 1]]
      BY <1>8, <2>2 DEF AttachComplete, IfKnown, UpdateAttachComplete
    <3>. QED  BY <1>0, <3>1 DEF UdmContexts
  <2>. QED  BY <2>1, <2>2
<1>9. CASE ModifyBearerBegin(w)
  BY <1>0, <1>9 DEF ModifyBearerBegin, IfKnown, HandleModifyBearer, UdmContexts,
                    udmVars
<1>. QED
  BY <1>1, <1>2, <1>3, <1>4, <1>5, <1>6, <1>7, <1>8, <1>9 DEF AmfWorker

\* Only handle_initial_attach brings a worker to the pc attach_init.
LEMMA AmfPcSteps ==
    ASSUME TypeOK, NEW w \in Workers, AmfWorker(w), ~InitialAttach(w),
           NEW x \in Workers, amf'[x].pc = "attach_init"
    PROVE  amf'[x] = amf[x]
<1>0. amf \in [Workers -> AmfStates]
  BY DEF TypeOK, AmfTypeOK
<1>1. CASE x # w \/ UNCHANGED amf
  BY <1>0, <1>1
     DEF AmfWorker, AmfSelect, AmfClose, HandleUe, AttachInit, AttachAuth,
         HandleAutn, SecurityModeCmd, SetIntegrityContext, SendSecurityModeCmd,
         SecurityModeComplete, LocationUpdate, LocationDelete, LocationInsert,
         CreateSessionBegin, CreateSessionEnd, AttachComplete, ModifyBearerBegin,
         ModifyBearerEnd, DetachBegin, DetachEnd, RemItfid, RemUectx,
         IfKnown, AmfGoto, AmfReturn, amfVars
<1>2. CASE x = w /\ ~UNCHANGED amf
  <2>1. CASE HandleUe(w)
    <3>1. PICK m, n : amf' = [amf EXCEPT ![w] =
                           IF HandlerOf(m) = "idle" THEN IdleAmf
                           ELSE [pc |-> HandlerOf(m), ue |-> n, id |-> m.mme,
                                 arg |-> m.arg, guti |-> 0, imsi |-> 0]]
      BY <2>1 DEF HandleUe
    <3>2. HandlerOf(m) # "attach_init"
      BY DEF HandlerOf
    <3>. QED  BY <1>0, <1>2, <3>1, <3>2 DEF IdleAmf
  <2>2. CASE AmfSelect(w) \/ AmfClose(w)
    BY <1>2, <2>2 DEF AmfSelect, AmfClose, amfVars
  <2>3. CASE AttachInit(w) \/ AttachAuth(w) \/ HandleAutn(w) \/ SendSecurityModeCmd(w)
             \/ SetIntegrityContext(w) \/ SecurityModeComplete(w)
             \/ LocationDelete(w) \/ LocationInsert(w) \/ CreateSessionEnd(w)
             \/ AttachComplete(w) \/ ModifyBearerEnd(w) \/ DetachEnd(w)
             \/ RemItfid(w) \/ RemUectx(w)
    BY <1>0, <1>2, <2>3
       DEF AttachInit, AttachAuth, HandleAutn, SendSecurityModeCmd,
           SetIntegrityContext, SecurityModeComplete, LocationDelete,
           LocationInsert, CreateSessionEnd, AttachComplete, ModifyBearerEnd,
           DetachEnd, RemItfid, RemUectx, IfKnown, AmfGoto, AmfReturn, IdleAmf,
           AmfStates
  <2>4. CASE SecurityModeCmd(w) \/ CreateSessionBegin(w) \/ ModifyBearerBegin(w)
             \/ DetachBegin(w)
    BY <1>0, <1>2, <2>4
       DEF SecurityModeCmd, CreateSessionBegin, ModifyBearerBegin, DetachBegin,
           IfKnown, AmfStates
  <2>5. CASE LocationUpdate(w)
    BY <1>0, <1>2, <2>5 DEF LocationUpdate, IfKnown, AmfStates
  <2>. QED  BY <2>1, <2>2, <2>3, <2>4, <2>5 DEF AmfWorker
<1>. QED  BY <1>1, <1>2

\* Of the calls of the AMF only CreateSMContext makes the SMF carry an IMSI.
LEMMA AmfSmfSteps ==
    ASSUME TypeOK, NEW w \in Workers, AmfWorker(w), ~CreateSessionBegin(w),
           NEW x \in Workers, smf'[x].pc = "call", smf'[x].typ = "create"
    PROVE  smf'[x] = smf[x]
<1>0. smf \in [Workers -> SmfStates]
  BY DEF TypeOK, SmfTypeOK
<1>1. CASE CreateSessionEnd(w) \/ ModifyBearerEnd(w) \/ DetachEnd(w)
  BY <1>0, <1>1 DEF CreateSessionEnd, ModifyBearerEnd, DetachEnd, ReturnFromSmf,
                    IdleSmf
<1>2. CASE ModifyBearerBegin(w) \/ DetachBegin(w)
  <2>1. \/ UNCHANGED smf
        \/ \E g : CallSmf(w, "modify", g, 0, 0)
        \/ \E g : CallSmf(w, "release", g, 0, 0)
    BY <1>2 DEF ModifyBearerBegin, DetachBegin, IfKnown
  <2>2. CASE \E g : CallSmf(w, "modify", g, 0, 0)
    BY <1>0, <2>2 DEF CallSmf, IdleSmf
  <2>3. CASE \E g : CallSmf(w, "release", g, 0, 0)
    BY <1>0, <2>3 DEF CallSmf, IdleSmf
  <2>. QED  BY <2>1, <2>2, <2>3
<1>3. CASE UNCHANGED smf
  BY <1>3
<1>4. CASE AmfSelect(w) \/ AmfClose(w) \/ HandleUe(w) \/ InitialAttach(w)
           \/ AttachInit(w) \/ AttachAuth(w) \/ HandleAutn(w) \/ SecurityModeCmd(w)
           \/ SetIntegrityContext(w) \/ SendSecurityModeCmd(w)
           \/ SecurityModeComplete(w) \/ LocationUpdate(w) \/ LocationDelete(w)
           \/ LocationInsert(w) \/ AttachComplete(w) \/ RemItfid(w) \/ RemUectx(w)
  BY <1>4 DEF AmfSelect, AmfClose, HandleUe, InitialAttach, AttachInit, AttachAuth,
              HandleAutn, SecurityModeCmd, SetIntegrityContext,
              SendSecurityModeCmd, SecurityModeComplete, LocationUpdate,
              LocationDelete, LocationInsert, AttachComplete, RemItfid, RemUectx,
              smfVars
<1>. QED  BY <1>1, <1>2, <1>4 DEF AmfWorker

\* No handler of the AMF pairs an IMSI with the GUTI of another subscriber.
LEMMA AmfWorkerOwn ==
    ASSUME TypeOK, ImsiTravels, NEW w \in Workers, AmfWorker(w)
    PROVE  UNCHANGED upfTables /\ ImsiTravels'
<1>0. /\ AmfTypeOK /\ UdmTypeOK /\ SmfTypeOK
      /\ AmfCarriesOwn /\ UdmHoldsOwn /\ SmfAsksOwn
  BY DEF TypeOK, ImsiTravels
<1>1. UNCHANGED upfTables /\ N4CarriesOwn' /\ UpfEntersOwn'
  <2>1. UNCHANGED upfVars
    BY DEF AmfWorker, AmfSelect, AmfClose, HandleUe, InitialAttach, AttachInit,
           AttachAuth, HandleAutn, SecurityModeCmd, SetIntegrityContext,
           SendSecurityModeCmd, SecurityModeComplete, LocationUpdate,
           LocationDelete, LocationInsert, CreateSessionBegin, CreateSessionEnd,
           AttachComplete, ModifyBearerBegin, ModifyBearerEnd, DetachBegin,
           DetachEnd, RemItfid, RemUectx, localFrame, unusedByAmf
  <2>. QED
    BY <2>1 DEF ImsiTravels, N4CarriesOwn, UpfEntersOwn, upfVars, upfTables
<1>2. AmfCarriesOwn'
  <2>1. CASE InitialAttach(w)
    <3> DEFINE r == [amf[w] EXCEPT !.id = (ue_count + 1) % IdSpace,
                                   !.guti = GetGuti(amf[w].arg),
                                   !.imsi = amf[w].arg, !.pc = "attach_init"]
    <3>1. amf' = [amf EXCEPT ![w] = r]
      BY <2>1 DEF InitialAttach
    <3>2. r.imsi = amf[w].arg /\ r.guti = GetGuti(amf[w].arg)
      BY <1>0 DEF AmfTypeOK, AmfStates
    <3> HIDE DEF r
    <3>. QED  BY <1>0, <3>1, <3>2 DEF AmfCarriesOwn, OwnGuti, AmfTypeOK
  <2>2. CASE ~InitialAttach(w)
    BY <1>0, <2>2, AmfPcSteps DEF AmfCarriesOwn
  <2>. QED  BY <2>1, <2>2
<1>3. UdmHoldsOwn'
  <2>1. CASE AttachInit(w)
    <3>1. OwnGuti(amf[w].imsi, amf[w].guti)
      BY <1>0, <2>1 DEF AttachInit, AmfAt, AmfCarriesOwn
    <3>2. \A g \in Imsis : \/ udm_ctx'[g].imsi = udm_ctx[g].imsi
                           \/ g = amf[w].guti /\ udm_ctx'[g].imsi = amf[w].imsi
      BY <1>0, <2>1 DEF AttachInit, UpdateInitialAttachInit, UdmTypeOK, UdmContexts
    <3>. QED  BY <1>0, <3>1, <3>2 DEF UdmHoldsOwn, OwnGuti
  <2>2. CASE ~AttachInit(w)
    BY <1>0, <2>2, AmfKeepsImsi DEF UdmHoldsOwn
  <2>. QED  BY <2>1, <2>2
<1>4. SmfAsksOwn'
  <2>1. CASE CreateSessionBegin(w)
    <3>1. CASE GutiOf(w) = 0
      BY <1>0, <2>1, <3>1 DEF CreateSessionBegin, IfKnown, SmfAsksOwn
    <3>2. CASE GutiOf(w) # 0
      <4> DEFINE g == GutiOf(w)
                 i == udm_ctx[g].imsi
                 t == GetS11CteidAmf(g)
                 r == [IdleSmf EXCEPT !.pc = "call", !.typ = "create", !.guti = g,
                                      !.imsi = i, !.asked = t]
      <4>1. g \in Imsis
        BY <1>0, <3>2, AmfStateType
      <4>2. OwnGuti(i, g) /\ OwnTeid(i, t)
        BY <1>0, <4>1 DEF UdmHoldsOwn, OwnGuti, OwnTeid, TeidOf
      <4>3. smf' = [smf EXCEPT ![w] = r]
        BY <2>1, <3>2 DEF CreateSessionBegin, IfKnown, CallSmf
      <4> HIDE DEF g, i, t
      <4>4. r.imsi = i /\ r.guti = g /\ r.asked = t
        BY DEF IdleSmf
      <4> HIDE DEF r
      <4>. QED  BY <1>0, <4>2, <4>3, <4>4 DEF SmfAsksOwn, SmfTypeOK
    <3>. QED  BY <3>1, <3>2
  <2>2. CASE ~CreateSessionBegin(w)
    BY <1>0, <2>2, AmfSmfSteps DEF SmfAsksOwn
  <2>. QED  BY <2>1, <2>2
<1>. QED  BY <1>1, <1>2, <1>3, <1>4 DEF ImsiTravels

\* No step of the core separates an IMSI from its GUTI or its teid.
LEMMA TravelStep == TypeOK /\ ImsiTravels /\ [Next]_vars => ImsiTravels'
<1> SUFFICES ASSUME TypeOK, ImsiTravels, [Next]_vars PROVE ImsiTravels'
  OBVIOUS
<1>a. UNCHANGED amfVars => AmfCarriesOwn'
  BY DEF ImsiTravels, AmfCarriesOwn, amfVars
<1>b. UNCHANGED udmVars => UdmHoldsOwn'
  BY DEF ImsiTravels, UdmHoldsOwn, udmVars
<1>c. UNCHANGED smfVars => SmfAsksOwn'
  BY DEF ImsiTravels, SmfAsksOwn, smfVars
<1>d. UNCHANGED upfVars => N4CarriesOwn' /\ UpfEntersOwn'
  BY DEF ImsiTravels, N4CarriesOwn, UpfEntersOwn, upfVars
<1> USE DEF ImsiTravels
<1>1. CASE \E n \in Ues : RanStep(n)
  BY <1>1, <1>a, <1>b, <1>c, <1>d DEF RanStep
<1>2. CASE AcceptStep
  BY <1>2, <1>a, <1>b, <1>c, <1>d DEF AcceptStep
<1>3. CASE \E w \in Workers : AmfStep(w)
  BY <1>3, AmfWorkerOwn DEF AmfStep
<1>4. CASE \E w \in Workers : SmfStep(w)
  BY <1>4, <1>a, SmfWorkerOwn DEF SmfStep
<1>5. CASE \E t \in UpfThreads : UpfStep(t)
  BY <1>5, <1>a, <1>b, <1>c, UpfThreadOwn DEF UpfStep, TypeOK
<1>6. CASE Lose
  <2>1. N4CarriesOwn'
    <3>1. (n4_req # <<>> /\ n4_req' = Tail(n4_req)) \/ UNCHANGED n4_req
      BY <1>6 DEF Lose, LoseRequest, LoseReply
    <3>. QED  BY <3>1, TailOwn DEF TypeOK, N4CarriesOwn
  <2>2. UNCHANGED upf
    BY <1>6 DEF Lose, LoseRequest, LoseReply
  <2>3. UpfEntersOwn'
    BY <2>2 DEF UpfEntersOwn
  <2>. QED  BY <1>6, <1>a, <1>b, <1>c, <2>1, <2>3 DEF Lose
<1>7. CASE AmfCrash \/ UNCHANGED vars
  BY <1>7, <1>a, <1>b, <1>c, <1>d DEF AmfCrash, vars
<1>. QED
  BY <1>1, <1>2, <1>3, <1>4, <1>5, <1>6, <1>7 DEF Next, Finished

\* Only the threads of the UPF touch its tables.
LEMMA TableSteps ==
    ASSUME TypeOK, ImsiTravels, [Next]_vars,
           ~\E t \in UpfThreads : UpfStep(t)
    PROVE  UNCHANGED upfTables
<1>1. CASE \E w \in Workers : AmfStep(w)
  BY <1>1, AmfWorkerOwn DEF AmfStep
<1>2. CASE \E w \in Workers : SmfStep(w)
  BY <1>2, SmfWorkerOwn DEF SmfStep
<1>3. CASE UNCHANGED upfVars
  BY <1>3 DEF upfVars, upfTables
<1>4. CASE Lose
  BY <1>4 DEF Lose, LoseRequest, LoseReply
<1>. QED
  BY <1>1, <1>2, <1>3, <1>4 DEF Next, RanStep, AcceptStep, AmfCrash, Finished, vars

\* No step of the core enters a teid or an address for another subscriber.
LEMMA LookupStep == TypeOK /\ LookupInv /\ [Next]_vars => LookupInv'
<1> SUFFICES ASSUME TypeOK, LookupInv, [Next]_vars PROVE LookupInv'
  OBVIOUS
<1>1. ImsiTravels /\ LookupsOwned /\ ImsiTravels'
  BY TravelStep DEF LookupInv
<1>2. CASE \E t \in UpfThreads : UpfStep(t)
  BY <1>1, <1>2, UpfThreadOwn DEF UpfStep, TypeOK, LookupInv, ImsiTravels
<1>3. CASE ~\E t \in UpfThreads : UpfStep(t)
  <2>1. UNCHANGED upfTables
    BY <1>1, <1>3, TableSteps
  <2>. QED  BY <1>1, <2>1 DEF LookupInv, LookupsOwned, upfTables
<1>. QED  BY <1>2, <1>3

\* The tables and what is on its way to them, together, are inductive.
LEMMA LookupHolds == Spec => []LookupInv
<1>1. TypeOK /\ LookupInv /\ [Next]_vars => LookupInv'
  BY LookupStep
<1>. QED  BY <1>1, TypeCorrect, LookupInit, PTL DEF Spec

\* The pair of an IMSI and its GUTI, then its teid, stays together at every
\* station from the attach request (amf.cpp, handle_initial_attach) over the
\* UDM, the SMF and the N4 link to the UPF's create handler.
THEOREM ImsiStaysWithTeid == Spec => []ImsiTravels
<1>1. LookupInv => ImsiTravels
  BY DEF LookupInv
<1>. QED  BY <1>1, LookupHolds, PTL

\* handle_create_session of the UPF enters the IMSI that comes with a teid; the
\* AMF computed that teid from the GUTI of the subscriber it read the IMSI of.
\* So no order of the threads, lost datagram or misread answer makes a lookup
\* of the UPF lead to another subscriber.
THEOREM LookupsSafe == Spec => []LookupsOwned
<1>1. LookupInv => LookupsOwned
  BY DEF LookupInv
<1>. QED  BY <1>1, LookupHolds, PTL
=============================================================================
