-------------------------------- MODULE Core --------------------------------
(***************************************************************************)
(* The whole control plane: simulator, AMF, AUSF, UDM, SMF and UPF, the    *)
(* streams and the datagrams between them, and what can go wrong outside   *)
(* the code: a lost datagram, a late one, the end of the AMF's process.    *)
(***************************************************************************)
EXTENDS Amf, Ran

CONSTANT MayCrash       \* whether the AMF's process may be killed

ASSUME MayCrashAssumption == MayCrash \in BOOLEAN

vars == <<exited, udmVars, upfVars, smfVars, serverVars, linkVars, amfVars,
          ranVars>>

Init ==
    /\ exited = {}
    /\ UdmInit /\ UpfInit /\ SmfInit /\ ServerInit /\ AmfInit /\ RanInit

RanStep(n) ==
    /\ RanThread(n)
    /\ UNCHANGED <<udmVars, upfVars, smfVars, amfVars>>

AcceptStep ==
    /\ Accept
    /\ UNCHANGED <<exited, udmVars, upfVars, smfVars, amfVars, ranVars>>

AmfStep(w) == AmfWorker(w) /\ UNCHANGED ranVars

SmfStep(w) ==
    /\ SmfWorker(w)
    /\ UNCHANGED <<serverVars, linkVars, amfVars, ranVars>>

UpfStep(t) ==
    /\ UpfThread(t)
    /\ UNCHANGED <<udmVars, smfVars, serverVars, linkVars, amfVars, ranVars>>

Lose ==
    /\ LoseRequest \/ \E w \in Workers : LoseReply(w)
    /\ UNCHANGED <<udmVars, smfVars, serverVars, linkVars, amfVars, ranVars>>

\* The process of the AMF is killed: its sockets are closed for it.
AmfCrash ==
    /\ MayCrash
    /\ Running("amf")
    /\ Exit("amf")
    /\ UNCHANGED <<udmVars, upfVars, smfVars, serverVars, linkVars, amfVars,
                   ranVars>>

\* Nothing is left to do: every thread of the simulator has ended, or waits
\* for an AMF that is gone, and no handler is running.
RanOver ==
    \A n \in Ues : \/ ran[n].pc \in {"done", "failed"}
                   \/ ran[n].pc = "connect" /\ ~Running("amf")

Quiet ==
    /\ Running("amf") =>
         /\ backlog = <<>>
         /\ \A w \in Workers :
               amf[w].pc = "idle" /\ pipe[w] = <<>> /\ conns[w] = <<>>
    /\ \A w \in Workers : smf[w].pc \in {"idle", "done"}
    /\ Running("upf") => /\ \A t \in UpfThreads : upf[t].pc = "idle"
                         /\ n4_req = <<>>

\* The simulator has ended and the core has nothing left to do.
Finished == RanOver /\ Quiet /\ UNCHANGED vars

Next ==
    \/ \E n \in Ues : RanStep(n)
    \/ AcceptStep
    \/ \E w \in Workers : AmfStep(w)
    \/ \E w \in Workers : SmfStep(w)
    \/ \E t \in UpfThreads : UpfStep(t)
    \/ Lose
    \/ AmfCrash
    \/ Finished

Spec == Init /\ [][Next]_vars

\* Every thread of every process runs while it can.
Fairness ==
    /\ \A n \in Ues : WF_vars(RanStep(n))
    /\ WF_vars(AcceptStep)
    /\ \A w \in Workers : WF_vars(AmfStep(w)) /\ WF_vars(SmfStep(w))
    /\ \A t \in UpfThreads : WF_vars(UpfStep(t))

LiveSpec == Spec /\ Fairness

\* Every variable has its type; what a handler has in hand is what its message
\* type promises (an IMSI for an attach, a GUTI for a request to the UPF).
TypeOK ==
    /\ PlatformTypeOK /\ UdmTypeOK /\ UpfTypeOK /\ SmfTypeOK /\ ServerTypeOK
    /\ AmfTypeOK /\ RanTypeOK

----------------------------------------------------------------------------
(* Who works for whom                                                      *)

Guti(n) == GetGuti(Imsi(n))
Teid(n) == GetS11CteidAmf(Guti(n))

\* Worker w is inside a handler for a message of n.
Serves(w, n) == amf[w].pc # "idle" /\ amf[w].ue = n
BeingServed(n) == \E w \in Workers : Serves(w, n)

\* Something of n is on its way to the UPF or being handled there.
AtUpf(n) ==
    \/ \E i \in DOMAIN n4_req : n4_req[i].teid = Teid(n)
    \/ \E t \in UpfThreads :
          upf[t].pc # "idle" /\ (upf[t].imsi = Imsi(n) \/ upf[t].teid = Teid(n))

HasAnId(n) == ran[n].pc \in {"security", "session", "data"}
HasSession(n) == ran[n].pc = "data"
Detached(n) == ran[n].pc \in {"start", "done"} /\ ran[n].cycles > 0

----------------------------------------------------------------------------
(* Safety                                                                  *)

\* No process of the core ends by one of its own assertions: the ids and the
\* teids it looks up are always there when a legal UE makes it look them up.
NoProcessExits == exited = {}

\* While the simulator uses a session, what it was told is what the UPF has:
\* its own address and teid, and the three lookups lead back to it.
SessionSound ==
    \A n \in Ues : HasSession(n) =>
       /\ ran[n].guti = Guti(n)
       /\ ran[n].ip_addr = IpAddr(Imsi(n))
       /\ s11_id[Teid(n)] = Imsi(n)
       /\ s1_id[ran[n].s1_uteid_ul] = Imsi(n)
       /\ sgi_id[ran[n].ip_addr] = Imsi(n)
       /\ upf_ctx[Imsi(n)].present
       /\ uplink_info[ran[n].ip_addr] = ran[n].s1_uteid_ul

\* A packet that arrives on SGi leaves on the downlink teid of the UE that has
\* its address, never on that of another UE.
DownlinkIsolation ==
    \A a \in Addresses :
       LET imsi == DownlinkUe(a)
       IN  (imsi # 0 /\ HasDownlink(imsi)) =>
              /\ a = IpAddr(imsi)
              /\ upf_ctx[imsi].s1_uteid_dl = GetS11CteidAmf(GetGuti(imsi))

\* The id the simulator puts in its headers is entered for its own GUTI for as
\* long as it may send one more message with it.
AmfBindingSound ==
    \A n \in Ues : HasAnId(n) => s1amf_id[ran[n].mme_s1ap_ue_id] = Guti(n)

\* amf.cpp:1156: the GUTI inside a detach request "should be the same as that
\* found in the first step", by the id in its header.
DetachGutiMatches ==
    \A w \in Workers : amf[w].pc = "detach" => amf[w].arg = GutiOf(w)

\* The datagram an SMF worker is about to take answers the request it sent.
AnswerMatches ==
    \A w \in Workers : (smf[w].pc = "wait" /\ n4_rsp[w] # <<>>) =>
       /\ Head(n4_rsp[w]).typ = smf[w].typ
       /\ Head(n4_rsp[w]).teid = smf[w].asked

\* A detached UE leaves nothing behind once its handlers have ended.
NoResidue ==
    \A n \in Ues : (Detached(n) /\ up[n] = <<>> /\ ~BeingServed(n) /\ ~AtUpf(n)) =>
       /\ s11_id[Teid(n)] = 0 /\ s1_id[Teid(n)] = 0
       /\ sgi_id[IpAddr(Imsi(n))] = 0
       /\ ~upf_ctx[Imsi(n)].present
       /\ ~amf_ctx[Guti(n)].present
       /\ \A id \in MmeIds : s1amf_id[id] # Guti(n)

\* Both ends derive the same NAS keys: the simulator from the challenge, the
\* UDM from the vector.
KeyAgreement ==
    \A n \in Ues : ran[n].pc \in {"session", "data"} =>
       /\ udm_ctx[Guti(n)].k_nas_int = ran[n].k_nas
       /\ udm_ctx[Guti(n)].k_nas_enc = ran[n].k_nas

\* The UDM's record of a session is the one the UE was given, and the database
\* holds exactly one location for the subscriber.
UdmAgreesWithUe ==
    \A n \in Ues : HasSession(n) =>
       /\ udm_ctx[Guti(n)].ip_addr = ran[n].ip_addr
       /\ udm_ctx[Guti(n)].s1_uteid_ul = ran[n].s1_uteid_ul
       /\ udm_ctx[Guti(n)].mme_s1ap_ue_id = ran[n].mme_s1ap_ue_id
       /\ loc_info[Imsi(n)] = 1

\* The attach complete gets no answer, so the detach request may follow it at
\* once; still the UPF releases no bearer that has not been modified before.
ReleaseAfterModify ==
    \A t \in UpfThreads : upf[t].pc = "d_ctx" => upf_ctx[upf[t].imsi].enodeb

\* Until the counter of the AMF wraps, an id that is in use is never given to
\* another subscriber.
IdNeverReused ==
    [][ue_count' < IdSpace =>
          \A id \in MmeIds :
             s1amf_id[id] # 0 => s1amf_id'[id] \in {0, s1amf_id[id]}]_vars

TeidOf(imsi) == GetS11CteidAmf(GetGuti(imsi))

\* Whatever is lost, late or misread, and in whatever order the threads run:
\* a teid or an address the UPF's tables hold leads to its own subscriber.
LookupsOwned ==
    /\ \A t \in Teids : /\ s11_id[t] # 0 => t = TeidOf(s11_id[t])
                        /\ s1_id[t] # 0 => t = TeidOf(s1_id[t])
    /\ \A a \in Addresses : sgi_id[a] # 0 => a = IpAddr(sgi_id[a])

----------------------------------------------------------------------------
(* What makes the last two inductive                                       *)

\* The invariant behind IdNeverReused: the ids ue_count has not come to yet
\* (amf.cpp:166) are not in use.
FreshIds ==
    ue_count < IdSpace => \A id \in MmeIds : id > ue_count => s1amf_id[id] = 0

OwnGuti(imsi, guti) == imsi # 0 => guti = GetGuti(imsi)
OwnTeid(imsi, teid) == imsi # 0 => teid = TeidOf(imsi)

\* A thread inside the create handler.
CreatePcs == {"c_s11", "c_s1", "c_sgi", "c_ctx"}

AmfCarriesOwn ==
    \A w \in Workers :
       amf[w].pc = "attach_init" => OwnGuti(amf[w].imsi, amf[w].guti)
UdmHoldsOwn == \A g \in Imsis : OwnGuti(udm_ctx[g].imsi, g)
SmfAsksOwn ==
    \A w \in Workers : smf[w].pc = "call" /\ smf[w].typ = "create" =>
       /\ OwnGuti(smf[w].imsi, smf[w].guti)
       /\ OwnTeid(smf[w].imsi, smf[w].asked)
N4CarriesOwn ==
    \A i \in DOMAIN n4_req :
       n4_req[i].typ = "create" => OwnTeid(n4_req[i].imsi, n4_req[i].teid)
UpfEntersOwn ==
    \A t \in UpfThreads :
       upf[t].pc \in CreatePcs => OwnTeid(upf[t].imsi, upf[t].teid)

\* From the attach request to the UPF's tables a subscriber's IMSI travels with
\* its own GUTI, and once there is a teid, with its own teid: in the handler of
\* the AMF, the UDM's context, the SMF's call, the N4 request and the create
\* handler of the UPF, also when another subscriber's answer is misread between
\* two of them.
ImsiTravels ==
    AmfCarriesOwn /\ UdmHoldsOwn /\ SmfAsksOwn /\ N4CarriesOwn /\ UpfEntersOwn

\* The invariant behind LookupsOwned: a create enters the pair it came with.
LookupInv == LookupsOwned /\ ImsiTravels

----------------------------------------------------------------------------
(* Liveness                                                                *)

\* Every attach that has begun ends with a session at the UE
\* (amf.cpp, handle_initial_attach to handle_create_session.)
AttachCompletes == \A n \in Ues : ran[n].pc = "autn" ~> HasSession(n)

\* Every detach request is answered (amf.cpp, handle_detach).
DetachCompletes == \A n \in Ues : ran[n].pc = "detach" ~> ran[n].pc = "start"

\* When the simulator is done the core forgets all of it.
EventuallyClean ==
    <>[](/\ \A n \in Ues : ran[n].pc = "done" /\ s11_id[Teid(n)] = 0
         /\ \A g \in Imsis : ~upf_ctx[g].present /\ ~amf_ctx[g].present
         /\ \A w \in Workers : conns[w] = <<>>)

\* A simulator thread does not outlive its AMF inside an attach or a detach.
LostAmfNoticed ==
    ~Running("amf") ~> \A n \in Ues : ran[n].pc \in {"connect", "done", "failed"}
=============================================================================
