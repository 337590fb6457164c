---------------------------- MODULE Conversation ----------------------------
(***************************************************************************)
(* What one subscriber, its connection and the worker that serves it agree *)
(* on between two messages: the invariant behind the promises of the AMF   *)
(* and of the UDM.  It does not mention the UPF, and no loss, late answer, *)
(* timeout or crash breaks it; only the wrap of the id counter does.       *)
(*                                                                         *)
(* At most one of the uplink, a worker and the downlink holds the turn of  *)
(* a subscriber, with two exceptions the code makes: the attach complete,  *)
(* which nobody answers, and the two removals that follow the answer to a  *)
(* detach.                                                                 *)
(***************************************************************************)
EXTENDS Core

NoWrap == ue_count < IdSpace

AttachPcs == {"attach", "attach_init", "attach_auth"}
AutnPcs == {"autn", "security_cmd", "integrity", "security_send"}
SessionPcs == {"security_complete", "location", "loc_delete", "loc_insert",
               "session", "session_end"}
CompletePcs == {"attach_complete", "modify", "modify_end"}
DetachPcs == {"detach", "detach_end"}
RemPcs == {"rem_itfid", "rem_uectx"}

Vector(n) == AuthVector(Imsi(n))
NasKeyOf(n) == Vector(n).k_asme + 3

----------------------------------------------------------------------------
(* Where a connection is                                                   *)

AtWorker(w, n) == n \in ToSet(pipe[w]) \cup ToSet(conns[w])

BacklogDistinct ==
    \A i, j \in DOMAIN backlog : backlog[i] = backlog[j] => i = j

\* A connection exists once its thread has connected, and is in one place.
Homes ==
    /\ \A n \in Ues : n \in ToSet(backlog) => ran[n].pc # "connect"
    /\ \A w \in Workers, n \in Ues : AtWorker(w, n) =>
          /\ ran[n].pc # "connect" /\ n \notin ToSet(backlog)
          /\ \A x \in Workers : AtWorker(x, n) => x = w

\* A worker serves a connection of its own.
ServesOwn ==
    \A w \in Workers : amf[w].pc # "idle" => amf[w].ue \in ToSet(conns[w])

Placement == BacklogDistinct /\ Homes /\ ServesOwn

----------------------------------------------------------------------------
(* The two streams of a connection                                         *)

Just(s, typ) == Len(s) = 1 /\ s[1].typ = typ

\* A message the simulator has sent carries the subscriber's own id and data.
UplinkItem(n, m) ==
    IF m.typ = 1 THEN m.mme = 0 /\ m.arg = Imsi(n)
    ELSE /\ m.mme = ran[n].mme_s1ap_ue_id
         /\ m.typ = 2 => m.arg = Vector(n).xres
         /\ m.typ = 3 => m.arg = 1
         /\ m.typ = 5 => m.arg = Guti(n)

UplinkShape(n) ==
    CASE ran[n].pc \in {"connect", "start", "done"} -> up[n] = <<>>
      [] ran[n].pc = "autn" -> up[n] = <<>> \/ Just(up[n], 1)
      [] ran[n].pc = "security" -> up[n] = <<>> \/ Just(up[n], 2)
      [] ran[n].pc = "session" -> up[n] = <<>> \/ Just(up[n], 3)
      [] ran[n].pc = "data" -> up[n] = <<>> \/ Just(up[n], 4)
      [] ran[n].pc = "detach" ->
           \/ up[n] = <<>> \/ Just(up[n], 5)
           \/ Len(up[n]) = 2 /\ up[n][1].typ = 4 /\ up[n][2].typ = 5
      [] OTHER -> ~Running("amf")

UplinkOK(n) ==
    /\ \A i \in DOMAIN up[n] : UplinkItem(n, up[n][i])
    /\ UplinkShape(n)

ChallengeOK(n, m) ==
    /\ m.mme # 0 /\ s1amf_id[m.mme] = Guti(n)
    /\ m.mme = udm_ctx[Guti(n)].mme_s1ap_ue_id
    /\ m.autn = Vector(n).autn_num /\ m.rand_num = Vector(n).rand_num

AcceptOK(n, m) ==
    /\ m.guti = Guti(n)
    /\ m.ip = udm_ctx[Guti(n)].ip_addr /\ m.ul = udm_ctx[Guti(n)].s1_uteid_ul

\* An answer is for the step the simulator is at, and nothing else is pending.
DownlinkOK(n) ==
    down[n] # <<>> =>
       /\ up[n] = <<>>
       /\ \/ ran[n].pc = "autn" /\ Just(down[n], 1) /\ ChallengeOK(n, down[n][1])
          \/ ran[n].pc = "security" /\ Just(down[n], 2)
          \/ ran[n].pc = "session" /\ Just(down[n], 3) /\ AcceptOK(n, down[n][1])
          \/ ran[n].pc = "detach" /\ Just(down[n], 5)

----------------------------------------------------------------------------
(* The subscriber's records                                                *)

\* The AMF has not yet removed the id the simulator got in the challenge.
IdInUse(n) == HasAnId(n) \/ (ran[n].pc = "detach" /\ down[n] = <<>>)

IdOK(n) ==
    IdInUse(n) =>
       /\ ran[n].mme_s1ap_ue_id # 0
       /\ s1amf_id[ran[n].mme_s1ap_ue_id] = Guti(n)

UeOK(n) ==
    /\ HasAnId(n) => ran[n].k_asme = Vector(n).k_asme
    /\ ran[n].pc \in {"session", "data"} => ran[n].k_nas = NasKeyOf(n)
    /\ ran[n].pc \in {"data", "detach"} => ran[n].guti = Guti(n)

Challenged(n) == ran[n].pc = "autn" /\ down[n] # <<>>

UdmOK(n) ==
    LET ctx == udm_ctx[Guti(n)]
    IN  /\ HasAnId(n) \/ Challenged(n) =>
             /\ ctx.imsi = Imsi(n)
             /\ ctx.xres = Vector(n).xres /\ ctx.k_asme = Vector(n).k_asme
        /\ HasAnId(n) => ctx.mme_s1ap_ue_id = ran[n].mme_s1ap_ue_id
        /\ \/ ran[n].pc \in {"session", "data"}
           \/ ran[n].pc = "security" /\ down[n] # <<>>
           => ctx.k_nas_enc = NasKeyOf(n) /\ ctx.k_nas_int = NasKeyOf(n)
        /\ ran[n].pc = "data" =>
             /\ ctx.ip_addr = ran[n].ip_addr
             /\ ctx.s1_uteid_ul = ran[n].s1_uteid_ul
        /\ (ran[n].pc = "session" /\ down[n] # <<>>) \/ ran[n].pc = "data" =>
             loc_info[Imsi(n)] = 1

----------------------------------------------------------------------------
(* The worker that serves a subscriber                                     *)

\* While a handler runs that the simulator waits for, both streams are empty.
Quiescent(n) == up[n] = <<>> /\ down[n] = <<>>

ServesAttach(w, n) ==
    /\ ran[n].pc \in {"autn", "failed"} /\ Quiescent(n)
    /\ amf[w].pc = "attach" => amf[w].arg = Imsi(n)
    /\ amf[w].pc \in {"attach_init", "attach_auth"} =>
          /\ amf[w].imsi = Imsi(n) /\ amf[w].guti = Guti(n)
          /\ amf[w].id # 0 /\ s1amf_id[amf[w].id] = Guti(n)
    /\ amf[w].pc = "attach_auth" =>
          /\ udm_ctx[Guti(n)].imsi = Imsi(n)
          /\ udm_ctx[Guti(n)].mme_s1ap_ue_id = amf[w].id

ServesAutn(w, n) ==
    /\ ran[n].pc \in {"security", "failed"} /\ Quiescent(n)
    /\ amf[w].pc = "autn" => amf[w].arg = Vector(n).xres
    /\ amf[w].pc \in {"integrity", "security_send"} =>
          /\ amf[w].guti = Guti(n)
          /\ udm_ctx[Guti(n)].k_nas_enc = NasKeyOf(n)
    /\ amf[w].pc = "security_send" =>
          udm_ctx[Guti(n)].k_nas_int = NasKeyOf(n)

ServesSession(w, n) ==
    /\ ran[n].pc \in {"session", "failed"} /\ Quiescent(n)
    /\ amf[w].pc \in {"loc_delete", "loc_insert"} =>
          amf[w].imsi = Imsi(n) /\ amf[w].guti = Guti(n)
    /\ amf[w].pc = "loc_insert" => loc_info[Imsi(n)] = 0
    /\ amf[w].pc \in {"session", "session_end"} => loc_info[Imsi(n)] = 1

\* The detach request may already wait behind the attach complete.
ServesComplete(w, n) ==
    /\ down[n] = <<>>
    /\ \/ ran[n].pc = "data" /\ up[n] = <<>>
       \/ ran[n].pc = "detach" /\ Just(up[n], 5)
       \/ ran[n].pc = "failed"

ServesDetach(w, n) ==
    /\ ran[n].pc \in {"detach", "failed"} /\ Quiescent(n)
    /\ amf[w].pc = "detach" =>
          amf[w].arg = Guti(n) /\ s1amf_id[amf[w].id] = Guti(n)

\* The next attach request may already wait behind the removals.
RemovesFor(w, n) ==
    /\ \/ ran[n].pc = "detach" /\ down[n] # <<>>
       \/ ran[n].pc \in {"start", "done", "failed"}
       \/ ran[n].pc = "autn" /\ up[n] # <<>>
    /\ amf[w].pc = "rem_itfid" => s1amf_id[amf[w].id] = Guti(n)

WorkerOK(w) ==
    LET n == amf[w].ue
    IN  /\ amf[w].pc \in AttachPcs => ServesAttach(w, n)
        /\ amf[w].pc \in AutnPcs => ServesAutn(w, n)
        /\ amf[w].pc \in SessionPcs => ServesSession(w, n)
        /\ amf[w].pc \in CompletePcs => ServesComplete(w, n)
        /\ amf[w].pc \in DetachPcs => ServesDetach(w, n)
        /\ amf[w].pc \in RemPcs => RemovesFor(w, n)
        /\ Running("amf") /\ amf[w].pc \in AutnPcs \cup SessionPcs \cup
                                           CompletePcs \cup DetachPcs =>
              amf[w].id = ran[n].mme_s1ap_ue_id

\* A worker of the SMF works on the call of the AMF's worker.
CallOK(w) ==
    smf[w].pc # "idle" =>
       /\ smf[w].guti = Guti(amf[w].ue)
       /\ smf[w].pc = "update" => smf[w].typ = "create"
       /\ \/ /\ amf[w].pc = "session_end" /\ smf[w].typ = "create"
             /\ smf[w].imsi = Imsi(amf[w].ue)
          \/ amf[w].pc = "modify_end" /\ smf[w].typ = "modify"
          \/ amf[w].pc = "detach_end" /\ smf[w].typ = "release"

\* Only the UPF ends by an assertion of its own, whatever the faults.
OnlyUpfExits == exited \subseteq {"upf"} \cup (IF MayCrash THEN {"amf"} ELSE {})

SubscriberOK(n) ==
    UplinkOK(n) /\ DownlinkOK(n) /\ IdOK(n) /\ UeOK(n) /\ UdmOK(n)

ServiceOK(w) == WorkerOK(w) /\ CallOK(w)

Agreement ==
    /\ \A n \in Ues : SubscriberOK(n)
    /\ \A w \in Workers : ServiceOK(w)
    /\ OnlyUpfExits

ConvInv == Placement /\ (NoWrap => Agreement)

----------------------------------------------------------------------------
(* What the AMF keeps of a subscriber                                      *)

\* The steps of a handler that remember the GUTI they began with.
GutiPcs == {"attach_init", "attach_auth", "modify_end", "detach_end",
            "rem_itfid", "rem_uectx"}
HandlerGutiOK(w) == amf[w].pc \in GutiPcs => amf[w].guti = Guti(amf[w].ue)

\* An id of n in the table is the one n has, or is told, or the one a worker
\* that serves n is about to send or to remove.
IdHeld(n, id) ==
    \/ ran[n].pc = "failed"
    \/ IdInUse(n) /\ id = ran[n].mme_s1ap_ue_id
    \/ Challenged(n) /\ id = down[n][1].mme
    \/ \E w \in Workers :
          /\ Serves(w, n) /\ id = amf[w].id
          /\ amf[w].pc \in {"attach_init", "attach_auth", "rem_itfid"}

ContextHeld(n) ==
    \/ ran[n].pc = "failed" \/ IdInUse(n) \/ Challenged(n)
    \/ \E w \in Workers :
          Serves(w, n) /\ amf[w].pc \in {"attach_auth", "rem_itfid", "rem_uectx"}

RecordOK(n) ==
    /\ \A id \in MmeIds : s1amf_id[id] = Guti(n) => IdHeld(n, id)
    /\ amf_ctx[Guti(n)].present => ContextHeld(n)

\* The AMF keeps no id and no context of a subscriber that nobody needs, and no
\* id the counter has not come to.
RecordInv ==
    /\ FreshIds
    /\ NoWrap => /\ \A n \in Ues : RecordOK(n)
                 /\ \A w \in Workers : HandlerGutiOK(w)
=============================================================================
