-------------------------------- MODULE Bearer --------------------------------
(***************************************************************************)
(* What the records of the UDM, the calls of the SMF, the N4 link and the  *)
(* tables of the UPF agree on about the bearer of one subscriber, in two   *)
(* layers: LinkInv is about requests and answers and holds while no worker *)
(* of the SMF has given up waiting (a late answer breaks it); BearerInv is *)
(* about the tables and needs a UPF with one N4 thread besides (the race   *)
(* of two threads breaks it).                                              *)
(***************************************************************************)
EXTENDS Conversation

\* No worker of the SMF has given up waiting for the UPF.
Prompt == timeouts = 0

----------------------------------------------------------------------------
(* The N4 link: one request of a worker at a time, answered by its own kind *)

\* A thread of the UPF inside a handler that has not sent its reply.
AnsweringPcs == {"c_s11", "c_s1", "c_sgi", "c_ctx", "m_lookup", "m_ctx",
                 "d_lookup", "d_ctx", "send"}
Answering(t, w) == upf[t].pc \in AnsweringPcs /\ upf[t].w = w

Queued(w) == \E i \in DOMAIN n4_req : n4_req[i].w = w

OneAtATime ==
    /\ \A i, j \in DOMAIN n4_req : n4_req[i].w = n4_req[j].w => i = j
    /\ \A t, u \in UpfThreads, w \in Workers :
          Answering(t, w) => ~Queued(w) /\ (Answering(u, w) => t = u)
    /\ \A w \in Workers : n4_rsp[w] # <<>> =>
          /\ Len(n4_rsp[w]) = 1 /\ ~Queued(w)
          /\ \A t \in UpfThreads : ~Answering(t, w)

RequestOK(m) ==
    LET call == smf[m.w]
    IN  /\ call.pc = "wait" /\ m.typ = call.typ /\ m.teid = call.asked
        /\ m.typ = "create" => m.imsi = call.imsi
        /\ m.typ = "modify" => m.dl = call.asked

\* What a handler was given by the worker it works for, and what it has made
\* of that: the lookup has found the subscriber of the teid.
HandlerOK(t) ==
    LET r == upf[t]
        call == smf[r.w]
    IN  r.pc \in AnsweringPcs =>
          /\ call.pc = "wait" /\ r.typ = call.typ
          /\ r.pc \in CreatePcs => r.typ = "create"
          /\ r.pc \in {"m_lookup", "m_ctx"} => r.typ = "modify" /\ r.dl = call.asked
          /\ r.pc \in {"d_lookup", "d_ctx"} => r.typ = "release"
          /\ r.pc \in {"m_lookup", "d_lookup"} => r.teid = call.asked
          /\ r.pc \in {"m_ctx", "d_ctx"} \/ (r.pc = "send" /\ r.typ # "create") =>
                call.asked = TeidOf(r.imsi)
          /\ r.typ = "create" =>
                /\ r.teid = call.asked /\ r.imsi = call.imsi
                /\ r.pc \in {"c_ctx", "send"} => r.ip = IpAddr(call.imsi)

ReplyOK(w) ==
    LET call == smf[w]
        m == n4_rsp[w][1]
    IN  n4_rsp[w] # <<>> =>
          /\ call.pc = "wait" /\ m.typ = call.typ
          /\ m.typ = "create" => m.teid = call.asked /\ m.ip = IpAddr(call.imsi)

LinkOK ==
    /\ OneAtATime
    /\ \A i \in DOMAIN n4_req : RequestOK(n4_req[i])
    /\ \A t \in UpfThreads : HandlerOK(t)
    /\ \A w \in Workers : ReplyOK(w)

----------------------------------------------------------------------------
(* What was granted, at every place that stores it                         *)

Stored(n) ==
    LET ctx == udm_ctx[Guti(n)]
    IN  /\ ctx.s11_cteid_sgw = Teid(n) /\ ctx.s1_uteid_ul = Teid(n)
        /\ ctx.ip_addr = IpAddr(Imsi(n))

Accepted(n) == ran[n].pc = "session" /\ down[n] # <<>>

GrantOK(n) ==
    /\ Accepted(n) \/ ran[n].pc \in {"data", "detach"} => Stored(n)
    /\ ran[n].pc = "data" => uplink_info[IpAddr(Imsi(n))] = Teid(n)
    /\ \A i \in DOMAIN up[n] : up[n][i].typ = 4 => up[n][i].arg = Teid(n)

HandlerGrantOK(w) ==
    LET n == amf[w].ue
    IN  /\ amf[w].pc \in CompletePcs \cup DetachPcs => Stored(n)
        /\ amf[w].pc = "attach_complete" => amf[w].arg = Teid(n)
        /\ amf[w].pc \in {"modify", "modify_end"} =>
              udm_ctx[Guti(n)].s1_uteid_dl = Teid(n)

CallGrantOK(w) ==
    LET n == amf[w].ue
        call == smf[w]
    IN  /\ call.pc \in {"call", "update"} /\ call.typ = "create" =>
              call.asked = Teid(n)
        /\ call.pc = "wait" => call.asked = Teid(n)
        /\ call.pc = "update" => call.teid = Teid(n)
        /\ call.pc \in {"update", "done"} /\ call.typ = "create" =>
              call.ip = IpAddr(Imsi(n)) /\ call.ul = Teid(n)
        /\ call.pc = "done" /\ call.typ = "create" => Stored(n)

GrantsOK ==
    /\ \A n \in Ues : GrantOK(n)
    /\ \A w \in Workers : HandlerGrantOK(w) /\ CallGrantOK(w)

\* The downlink of a context is that of its own subscriber.
DownlinkOwn ==
    \A i \in Imsis : upf_ctx[i].enodeb => upf_ctx[i].s1_uteid_dl = TeidOf(i)

\* While the counter has not wrapped and nobody has given up: each request has
\* one place on its way to the UPF and back, and everyone who stores a part of
\* a grant stores the same.
LinkInv ==
    NoWrap /\ Prompt =>
       DownlinkOwn /\ (Running("upf") => LinkOK /\ GrantsOK)


----------------------------------------------------------------------------
(* The tables of a UPF with one N4 thread                                  *)

Thread == upf[1]

\* Which lookups of n are entered.
Entered(n, tables) ==
    /\ s11_id[Teid(n)] = IF "s11" \in tables THEN Imsi(n) ELSE 0
    /\ s1_id[Teid(n)] = IF "s1" \in tables THEN Imsi(n) ELSE 0
    /\ sgi_id[IpAddr(Imsi(n))] = IF "sgi" \in tables THEN Imsi(n) ELSE 0

HasContext(n) ==
    LET ctx == upf_ctx[Imsi(n)]
    IN  /\ ctx.present /\ ctx.ip_addr = IpAddr(Imsi(n))
        /\ ctx.s1_uteid_ul = Teid(n) /\ ctx.s11_cteid = Teid(n)

NoContext(n) == upf_ctx[Imsi(n)] = NoUpfContext

\* The half of a release behind its reply.
RemovalPcs == {"d_s11", "d_s1", "d_sgi", "d_rem"}
Leaving(n) == Thread.pc \in RemovalPcs /\ Thread.imsi = Imsi(n)

\* Nothing of n is there, or will be before the thread takes the next request.
Gone(n) == Entered(n, {}) /\ NoContext(n)
Away(n) == Gone(n) \/ Leaving(n)
Full(n) == ~Leaving(n) /\ Entered(n, {"s11", "s1", "sgi"}) /\ HasContext(n)
Active(n) == Full(n) /\ upf_ctx[Imsi(n)].enodeb

\* What the thread has done so far of the handler it is in, for n.
CreateOK(n) ==
    /\ Thread.pc = "c_s11" => Gone(n)
    /\ Thread.pc = "c_s1" => Entered(n, {"s11"}) /\ NoContext(n)
    /\ Thread.pc = "c_sgi" => Entered(n, {"s11", "s1"}) /\ NoContext(n)
    /\ Thread.pc = "c_ctx" => Entered(n, {"s11", "s1", "sgi"}) /\ NoContext(n)
    /\ Thread.pc = "send" => Full(n)

KeysInHand(n) ==
    Thread.teid = Teid(n) /\ Thread.dl = Teid(n) /\ Thread.ip = IpAddr(Imsi(n))

RemovalOK(n) ==
    /\ KeysInHand(n)
    /\ Thread.pc = "d_s11" => Entered(n, {"s11", "s1", "sgi"})
    /\ Thread.pc = "d_s1" => Entered(n, {"s1", "sgi"})
    /\ Thread.pc = "d_sgi" => Entered(n, {"sgi"})
    /\ Thread.pc = "d_rem" => Entered(n, {})

\* What the thread has in hand and has done for n, whose IMSI it carries.
ThreadFor(n) ==
    /\ Thread.typ = "create" => CreateOK(n)
    /\ Thread.typ = "modify" /\ Thread.pc = "send" =>
          Active(n) /\ Thread.teid = Teid(n)
    /\ Thread.typ = "release" /\ Thread.pc = "send" => KeysInHand(n)
    /\ Leaving(n) => RemovalOK(n)

ThreadOK ==
    /\ Thread.pc \in RemovalPcs => Thread.imsi # 0
    /\ \A n \in Ues : Thread.imsi = Imsi(n) => ThreadFor(n)

----------------------------------------------------------------------------
(* Who relies on the tables                                                *)

\* How far the call of an SMF worker is: before the UPF takes its request,
\* while the UPF works on it, and from the UPF's reply on.
Asking(w) == smf[w].pc = "call" \/ (smf[w].pc = "wait" /\ Queued(w))
Handled(w) == smf[w].pc = "wait" /\ Answering(1, w)
Replied(w) == smf[w].pc = "done" \/ (smf[w].pc = "wait" /\ n4_rsp[w] # <<>>)

AwayFor(w) ==
    \/ smf[w].typ = "create" /\ Asking(w)
    \/ smf[w].typ = "release" /\ Replied(w)

FullFor(w) ==
    \/ amf[w].pc \in {"attach_complete", "modify"}
    \/ smf[w].typ = "create" /\ (smf[w].pc = "update" \/ Replied(w))
    \/ smf[w].typ = "modify" /\ smf[w].pc # "idle"

ActiveFor(w) ==
    \/ amf[w].pc = "detach"
    \/ smf[w].typ = "modify" /\ Replied(w)
    \/ smf[w].typ = "release" /\ (Asking(w) \/ Handled(w))

InCreate(n) == \E w \in Workers : Serves(w, n) /\ amf[w].pc = "session_end"

AwayPhase(n) ==
    \/ ran[n].pc \in {"connect", "start", "autn", "security", "done"}
    \/ ran[n].pc = "session" /\ down[n] = <<>> /\ ~InCreate(n)
    \/ ran[n].pc = "detach" /\ down[n] # <<>>

InSession(n) == ran[n].pc = "data" \/ (ran[n].pc = "detach" /\ up[n] # <<>>)

\* The attach complete has been served to its end.
Settled(n) == ~BeingServed(n) /\ \A i \in DOMAIN up[n] : up[n][i].typ # 4

ToBeAway(n) ==
    AwayPhase(n) \/ \E w \in Workers : Serves(w, n) /\ AwayFor(w)
ToBeFull(n) ==
    Accepted(n) \/ InSession(n) \/ \E w \in Workers : Serves(w, n) /\ FullFor(w)
ToBeActive(n) ==
    \/ InSession(n) /\ Settled(n)
    \/ \E w \in Workers : Serves(w, n) /\ ActiveFor(w)

TablesOK(n) ==
    /\ ToBeAway(n) => Away(n)
    /\ ToBeFull(n) => Full(n)
    /\ ToBeActive(n) => Active(n)

\* The answer to any request carries the teid that was asked for, and a release
\* is never refused.
AnswerOK(w) ==
    /\ n4_rsp[w] # <<>> => n4_rsp[w][1].teid = smf[w].asked
    /\ smf[w].pc = "done" /\ smf[w].typ = "release" => smf[w].res

BearerOK ==
    /\ ThreadOK
    /\ \A n \in Ues : TablesOK(n)
    /\ \A w \in Workers : AnswerOK(w)

\* Behind an earlier session, nothing is sent down before the attach complete.
DownlinkShut(n) ==
    ran[n].pc = "session" => Leaving(n) \/ ~upf_ctx[Imsi(n)].enodeb

\* Besides, with one N4 thread: the tables of the UPF are where everyone who
\* relies on them takes them to be, and no lookup fails.
BearerInv ==
    /\ LinkInv
    /\ UpfThreadCount = 1 /\ NoWrap /\ Prompt =>
          Running("upf") /\ BearerOK /\ \A n \in Ues : DownlinkShut(n)
=============================================================================
