------------------------------ MODULE LinkProofs ------------------------------
(***************************************************************************)
(* LinkInv holds in every reachable state, for every value of the          *)
(* constants, and the isolation of the downlinks follows from it: first    *)
(* the N4 link (one request of a worker at a time, answered by its own     *)
(* answer), then what was granted, at every place that stores it.          *)
(***************************************************************************)
EXTENDS ConversationProofs, Bearer

USE UeCountAssumption, WorkerCountAssumption, IdSpaceAssumption

----------------------------------------------------------------------------
(* Queues by their positions                                               *)

\* The positions of a queue without its first element.
LEMMA TailItems ==
    ASSUME NEW S, NEW s \in Seq(S), s # <<>>
    PROVE  /\ 1 \in DOMAIN s /\ Head(s) = s[1] /\ Head(s) \in S
           /\ \A i \in DOMAIN Tail(s) :
                 i + 1 \in DOMAIN s /\ i + 1 # 1 /\ Tail(s)[i] = s[i + 1]
           /\ \A i, j \in DOMAIN Tail(s) : i + 1 = j + 1 => i = j
<1>1. /\ Len(s) \in Nat /\ Len(s) > 0 /\ DOMAIN s = 1 .. Len(s) /\ Head(s) = s[1]
      /\ DOMAIN Tail(s) = 1 .. (Len(s) - 1) /\ Head(s) \in S
      /\ \A i \in 1 .. (Len(s) - 1) : Tail(s)[i] = s[i + 1]
  BY EmptySeq, HeadTailProperties
<1>. QED  BY <1>1

\* The positions of a queue with one more element.
LEMMA AppendItems ==
    ASSUME NEW S, NEW s \in Seq(S), NEW e
    PROVE  /\ \A i \in DOMAIN Append(s, e) :
                 \/ i \in DOMAIN s /\ Append(s, e)[i] = s[i]
                 \/ i = Len(s) + 1 /\ Append(s, e)[i] = e
           /\ Len(s) + 1 \in DOMAIN Append(s, e) /\ Append(s, e)[Len(s) + 1] = e
           /\ \A i \in DOMAIN s : i \in DOMAIN Append(s, e) /\ Append(s, e)[i] = s[i]
<1>1. /\ DOMAIN s = 1 .. Len(s) /\ Len(s) \in Nat
      /\ DOMAIN Append(s, e) = 1 .. (Len(s) + 1)
  OBVIOUS
<1>2. /\ Append(s, e)[Len(s) + 1] = e
      /\ \A i \in 1 .. Len(s) : Append(s, e)[i] = s[i]
  OBVIOUS
<1>. QED  BY <1>1, <1>2

\* The worker a request in the queue is from.
LEMMA RequestWorker ==
    ASSUME UpfTypeOK, NEW i \in DOMAIN n4_req
    PROVE  n4_req[i] \in N4Requests /\ n4_req[i].w \in Workers
<1>1. n4_req \in Seq(N4Requests)
  BY DEF UpfTypeOK
<1>2. n4_req[i] \in N4Requests
  BY <1>1
<1>. QED  BY <1>2 DEF N4Requests

----------------------------------------------------------------------------
(* The link, when a step is not on it                                      *)

\* A call that waits for the UPF still waits, for the same thing.
StillWaits(w) ==
    smf[w].pc = "wait" =>
       /\ smf'[w].pc = "wait" /\ smf'[w].typ = smf[w].typ
       /\ smf'[w].asked = smf[w].asked /\ smf'[w].imsi = smf[w].imsi

\* Steps that leave the link, the threads and the waiting calls alone.
LEMMA LinkFrame ==
    ASSUME UpfTypeOK, LinkOK, UNCHANGED <<upf, n4_req, n4_rsp>>,
           \A w \in Workers : StillWaits(w)
    PROVE  LinkOK'
<1>1. OneAtATime'
  <2>1. \A t, w : Answering(t, w)' => Answering(t, w)
    BY DEF Answering
  <2>2. \A w : Queued(w)' <=> Queued(w)
    BY DEF Queued
  <2>. QED  BY <2>1, <2>2 DEF LinkOK, OneAtATime
<1>2. ASSUME NEW i \in DOMAIN n4_req PROVE RequestOK(n4_req[i])'
  <2>1. n4_req[i].w \in Workers
    BY RequestWorker
  <2>2. RequestOK(n4_req[i]) /\ n4_req'[i] = n4_req[i]
    BY DEF LinkOK
  <2>. QED  BY <2>1, <2>2 DEF RequestOK, StillWaits
<1>3. ASSUME NEW t \in UpfThreads PROVE HandlerOK(t)'
  <2>1. upf[t].w \in Workers
    BY DEF UpfTypeOK, UpfThreadStates
  <2>2. HandlerOK(t) /\ upf'[t] = upf[t]
    BY DEF LinkOK
  <2>3. CASE upf[t].pc \notin AnsweringPcs
    BY <2>2, <2>3 DEF HandlerOK
  <2>4. CASE upf[t].pc \in AnsweringPcs
    BY <2>1, <2>2, <2>4 DEF HandlerOK, StillWaits
  <2>. QED  BY <2>3, <2>4
<1>4. ASSUME NEW w \in Workers PROVE ReplyOK(w)'
  BY DEF LinkOK, ReplyOK, StillWaits
<1>. QED  BY <1>1, <1>2, <1>3, <1>4 DEF LinkOK

\* A thread goes on with the request it has, or is done with it.
LEMMA HandlerFrame ==
    ASSUME UpfTypeOK, LinkOK, UNCHANGED <<smf, n4_req, n4_rsp>>,
           NEW t \in UpfThreads, \A u \in UpfThreads \ {t} : upf'[u] = upf[u],
           upf'[t].pc \in AnsweringPcs =>
              upf[t].pc \in AnsweringPcs /\ upf'[t].w = upf[t].w,
           HandlerOK(t)'
    PROVE  LinkOK'
<1>1. \A u \in UpfThreads, w \in Workers : Answering(u, w)' => Answering(u, w)
  BY DEF Answering
<1>2. \A w : Queued(w)' <=> Queued(w)
  BY DEF Queued
<1>3. OneAtATime'
  BY <1>1, <1>2 DEF LinkOK, OneAtATime
<1>4. \A i \in DOMAIN n4_req' : RequestOK(n4_req[i])'
  BY DEF LinkOK, RequestOK
<1>5. ASSUME NEW u \in UpfThreads PROVE HandlerOK(u)'
  <2>1. CASE u = t
    BY <2>1
  <2>2. CASE u # t
    BY <2>2 DEF LinkOK, HandlerOK
  <2>. QED  BY <2>1, <2>2
<1>6. \A w \in Workers : ReplyOK(w)'
  BY DEF LinkOK, ReplyOK
<1>. QED  BY <1>3, <1>4, <1>5, <1>6 DEF LinkOK

----------------------------------------------------------------------------
(* The UPF                                                                 *)

\* A thread takes a request: it is no longer queued, and being answered.
LEMMA ReceiveLink ==
    ASSUME UpfTypeOK, LinkOK, NEW t \in UpfThreads, UpfReceive(t), UNCHANGED smf
    PROVE  LinkOK'
<1>0. /\ n4_req \in Seq(N4Requests) /\ n4_req # <<>> /\ n4_req' = Tail(n4_req)
      /\ UNCHANGED n4_rsp /\ upf[t].pc = "idle"
      /\ upf \in [UpfThreads -> UpfThreadStates]
  BY DEF UpfTypeOK, UpfReceive
<1>1. PICK m \in N4Requests : m = Head(n4_req)
  BY <1>0, TailItems
<1>2. /\ 1 \in DOMAIN n4_req /\ m = n4_req[1]
      /\ \A i \in DOMAIN n4_req' :
            i + 1 \in DOMAIN n4_req /\ i + 1 # 1 /\ n4_req'[i] = n4_req[i + 1]
      /\ \A i, j \in DOMAIN n4_req' : i + 1 = j + 1 => i = j
  BY <1>0, <1>1, TailItems
<1>3. m.w \in Workers /\ m.typ \in N4Types
  BY DEF N4Requests
<1>4. /\ upf'[t].typ = m.typ /\ upf'[t].w = m.w /\ upf'[t].teid = m.teid
      /\ upf'[t].imsi = m.imsi /\ upf'[t].dl = m.dl
      /\ m.typ = "create" => upf'[t].pc = "c_s11"
      /\ m.typ = "modify" => upf'[t].pc = "m_lookup"
      /\ m.typ = "release" => upf'[t].pc = "d_lookup"
      /\ \A u \in UpfThreads \ {t} : upf'[u] = upf[u]
  BY <1>0, <1>1, <1>3 DEF UpfReceive, N4Types
<1>5. RequestOK(m) /\ Queued(m.w)
  BY <1>2 DEF LinkOK, Queued
<1>6. \A w : Queued(w)' => Queued(w)
  BY <1>2 DEF Queued
<1>7. ~Queued(m.w)'
  BY <1>2 DEF Queued, LinkOK, OneAtATime
<1>8. \A u \in UpfThreads : \A w : Answering(u, w)' => Answering(u, w) \/ (u = t /\ w = m.w)
  BY <1>4 DEF Answering
<1>9. n4_rsp[m.w] = <<>> /\ \A u \in UpfThreads : ~Answering(u, m.w)
  BY <1>3, <1>5 DEF LinkOK, OneAtATime
<1>10. OneAtATime'
  <2>1. \A i, j \in DOMAIN n4_req' : n4_req'[i].w = n4_req'[j].w => i = j
    BY <1>2 DEF LinkOK, OneAtATime
  <2>2. \A u, v \in UpfThreads, w \in Workers :
           Answering(u, w)' => ~Queued(w)' /\ (Answering(v, w)' => u = v)
    BY <1>6, <1>7, <1>8, <1>9 DEF LinkOK, OneAtATime
  <2>3. \A w \in Workers : n4_rsp'[w] # <<>> =>
          /\ Len(n4_rsp'[w]) = 1 /\ ~Queued(w)'
          /\ \A u \in UpfThreads : ~Answering(u, w)'
    BY <1>0, <1>6, <1>8, <1>9 DEF LinkOK, OneAtATime
  <2>. QED  BY <2>1, <2>2, <2>3 DEF OneAtATime
<1>11. \A i \in DOMAIN n4_req' : RequestOK(n4_req[i])'
  BY <1>2 DEF LinkOK, RequestOK
<1>12. ASSUME NEW u \in UpfThreads PROVE HandlerOK(u)'
  <2>1. CASE u = t
    BY <1>3, <1>4, <1>5, <2>1 DEF RequestOK, HandlerOK, CreatePcs, N4Types
  <2>2. CASE u # t
    BY <1>4, <2>2 DEF LinkOK, HandlerOK
  <2>. QED  BY <2>1, <2>2
<1>13. \A w \in Workers : ReplyOK(w)'
  BY <1>0 DEF LinkOK, ReplyOK
<1>. QED  BY <1>10, <1>11, <1>12, <1>13 DEF LinkOK

\* A thread sends its reply, which is the only one to that worker.
LEMMA SendLink ==
    ASSUME UpfTypeOK, LinkOK, NEW t \in UpfThreads, UpfSend(t), UNCHANGED smf
    PROVE  LinkOK'
<1>1. PICK r \in UpfThreadStates : r = upf[t]
  BY DEF UpfTypeOK
<1> DEFINE m == [typ |-> r.typ, teid |-> r.teid,
                 ip |-> IF r.typ = "create" THEN r.ip ELSE 0]
<1>0. /\ UNCHANGED n4_req /\ r.pc = "send" /\ r.w \in Workers
      /\ n4_rsp \in [Workers -> Seq(N4Replies)]
      /\ n4_rsp' = [n4_rsp EXCEPT ![r.w] = Append(@, m)]
  BY <1>1 DEF UpfTypeOK, UpfSend, UpfThreadStates
<1>2. /\ upf'[t].pc \in {"d_s11", "idle"}
      /\ \A u \in UpfThreads \ {t} : upf'[u] = upf[u]
  BY <1>1 DEF UpfSend, UpfTypeOK, UpfThreadStates, IdleThread
<1>3. Answering(t, r.w)
  BY <1>0, <1>1 DEF Answering, AnsweringPcs
<1>4. /\ n4_rsp[r.w] = <<>> /\ ~Queued(r.w)
      /\ \A u \in UpfThreads : Answering(u, r.w) => u = t
  BY <1>0, <1>3 DEF LinkOK, OneAtATime
<1>5. /\ n4_rsp'[r.w] = <<m>> /\ Len(n4_rsp'[r.w]) = 1 /\ n4_rsp'[r.w][1] = m
      /\ \A w \in Workers \ {r.w} : n4_rsp'[w] = n4_rsp[w]
  <2>1. n4_rsp'[r.w] = <<m>>
    BY <1>0, <1>4, FirstOne
  <2>. QED  BY <1>0, <2>1, FirstOne
<1>6. \A u \in UpfThreads : \A w : Answering(u, w)' => u # t /\ Answering(u, w)
  BY <1>2 DEF Answering, AnsweringPcs
<1>7. \A w : Queued(w)' <=> Queued(w)
  BY <1>0 DEF Queued
<1> HIDE DEF m
<1>8. OneAtATime'
  <2>1. \A i, j \in DOMAIN n4_req' : n4_req'[i].w = n4_req'[j].w => i = j
    BY <1>0 DEF LinkOK, OneAtATime
  <2>2. \A u, v \in UpfThreads, w \in Workers :
           Answering(u, w)' => ~Queued(w)' /\ (Answering(v, w)' => u = v)
    BY <1>6, <1>7 DEF LinkOK, OneAtATime
  <2>3. ASSUME NEW w \in Workers, n4_rsp'[w] # <<>>
        PROVE  /\ Len(n4_rsp'[w]) = 1 /\ ~Queued(w)'
               /\ \A u \in UpfThreads : ~Answering(u, w)'
    <3>1. CASE w = r.w
      BY <1>4, <1>5, <1>6, <1>7, <3>1
    <3>2. CASE w # r.w
      BY <1>5, <1>6, <1>7, <2>3, <3>2 DEF LinkOK, OneAtATime
    <3>. QED  BY <3>1, <3>2
  <2>. QED  BY <2>1, <2>2, <2>3 DEF OneAtATime
<1>9. \A i \in DOMAIN n4_req' : RequestOK(n4_req[i])'
  BY <1>0 DEF LinkOK, RequestOK
<1>10. ASSUME NEW u \in UpfThreads PROVE HandlerOK(u)'
  <2>1. CASE u = t
    BY <1>2, <2>1 DEF HandlerOK, AnsweringPcs
  <2>2. CASE u # t
    BY <1>2, <2>2 DEF LinkOK, HandlerOK
  <2>. QED  BY <2>1, <2>2
<1>11. ASSUME NEW w \in Workers PROVE ReplyOK(w)'
  <2>1. CASE w = r.w
    <3>1. HandlerOK(t)
      BY DEF LinkOK
    <3>2. /\ smf[w].pc = "wait" /\ m.typ = smf[w].typ
          /\ m.typ = "create" => m.teid = smf[w].asked /\ m.ip = IpAddr(smf[w].imsi)
      BY <1>0, <1>1, <2>1, <3>1 DEF HandlerOK, AnsweringPcs, m
    <3>. QED  BY <1>5, <2>1, <3>2 DEF ReplyOK
  <2>2. CASE w # r.w
    BY <1>5, <2>2 DEF LinkOK, ReplyOK
  <2>. QED  BY <2>1, <2>2
<1>. QED  BY <1>8, <1>9, <1>10, <1>11 DEF LinkOK

\* Moving on without a new address is keeping the address.
LEMMA SameAddress ==
    ASSUME NEW t \in UpfThreads, NEW pc, UpfGoto(t, pc),
           upf \in [UpfThreads -> UpfThreadStates]
    PROVE  upf' = [upf EXCEPT ![t] = [@ EXCEPT !.ip = upf[t].ip, !.pc = pc]]
<1>1. PICK r \in UpfThreadStates : r = upf[t]
  OBVIOUS
<1>2. [r EXCEPT !.pc = pc] = [r EXCEPT !.ip = r.ip, !.pc = pc]
  BY DEF UpfThreadStates
<1>. QED  BY <1>1, <1>2 DEF UpfGoto

\* A step of a handler of the UPF keeps what the handler has in hand: the
\* lookup finds the subscriber of the teid it was asked for.
LEMMA ThreadLink ==
    ASSUME UpfTypeOK, LookupsOwned, LinkOK, UNCHANGED smf,
           NEW t \in UpfThreads, UpfThread(t), ~UpfReceive(t), ~UpfSend(t)
    PROVE  LinkOK'
<1>1. PICK r \in UpfThreadStates : r = upf[t]
  BY DEF UpfTypeOK
<1>0. UNCHANGED <<n4_req, n4_rsp>> /\ HandlerOK(t)
      /\ upf \in [UpfThreads -> UpfThreadStates]
  BY DEF UpfThread, CreateS11, CreateS1, CreateSgi, CreateContext, UpfLookup,
         ModifyContext, DetachContext, DetachS11, DetachS1, DetachSgi, RemUpfContext,
         n4Vars, LinkOK, UpfTypeOK
<1>2. CASE CreateS11(t) \/ CreateS1(t) \/ CreateSgi(t) \/ CreateContext(t)
  <2>1. \E pc, a :
           /\ upf' = [upf EXCEPT ![t] = [@ EXCEPT !.ip = a, !.pc = pc]]
           /\ \/ r.pc = "c_s11" /\ pc = "c_s1"
              \/ r.pc = "c_s1" /\ pc = "c_sgi"
              \/ r.pc = "c_sgi" /\ pc = "c_ctx" /\ a = IpAddr(r.imsi)
              \/ r.pc = "c_ctx" /\ pc = "send" /\ a = r.ip
    <3>1. CASE CreateS11(t)
      BY <1>0, <1>1, <3>1, SameAddress DEF CreateS11
    <3>2. CASE CreateS1(t)
      BY <1>0, <1>1, <3>2, SameAddress DEF CreateS1
    <3>3. CASE CreateSgi(t)
      BY <1>1, <3>3 DEF CreateSgi
    <3>4. CASE CreateContext(t)
      BY <1>0, <1>1, <3>4, SameAddress DEF CreateContext
    <3>. QED  BY <1>2, <3>1, <3>2, <3>3, <3>4
  <2>0. PICK pc, a :
           /\ upf' = [upf EXCEPT ![t] = [@ EXCEPT !.ip = a, !.pc = pc]]
           /\ \/ r.pc = "c_s11" /\ pc = "c_s1"
              \/ r.pc = "c_s1" /\ pc = "c_sgi"
              \/ r.pc = "c_sgi" /\ pc = "c_ctx" /\ a = IpAddr(r.imsi)
              \/ r.pc = "c_ctx" /\ pc = "send" /\ a = r.ip
    BY <2>1
  <2>2. /\ upf'[t].typ = r.typ /\ upf'[t].w = r.w /\ upf'[t].teid = r.teid
        /\ upf'[t].imsi = r.imsi /\ upf'[t].pc = pc /\ upf'[t].ip = a
        /\ \A u \in UpfThreads \ {t} : upf'[u] = upf[u]
    BY <1>0, <1>1, <2>0 DEF UpfThreadStates
  <2>3. HandlerOK(t)' /\ r.pc \in AnsweringPcs
    BY <1>0, <1>1, <2>0, <2>2 DEF HandlerOK, AnsweringPcs, CreatePcs
  <2>. QED  BY <1>0, <1>1, <2>2, <2>3, HandlerFrame
<1>3. CASE UpfLookup(t)
  <2>1. CASE s11_id[r.teid] = 0
    <3>1. UNCHANGED upf
      BY <1>1, <1>3, <2>1 DEF UpfLookup
    <3>. QED  BY <1>0, <3>1, LinkFrame DEF StillWaits
  <2>2. CASE s11_id[r.teid] # 0
    <3>1. PICK imsi : imsi = s11_id[r.teid]
      OBVIOUS
    <3>2. /\ r.pc \in {"m_lookup", "d_lookup"}
          /\ upf' = [upf EXCEPT ![t] =
                       [@ EXCEPT !.imsi = imsi,
                         !.pc = IF r.typ = "modify" THEN "m_ctx" ELSE "d_ctx"]]
      BY <1>1, <1>3, <2>2, <3>1 DEF UpfLookup
    <3>3. /\ upf'[t].typ = r.typ /\ upf'[t].w = r.w /\ upf'[t].teid = r.teid
          /\ upf'[t].imsi = imsi /\ upf'[t].dl = r.dl
          /\ upf'[t].pc = IF r.typ = "modify" THEN "m_ctx" ELSE "d_ctx"
          /\ \A u \in UpfThreads \ {t} : upf'[u] = upf[u]
      BY <1>0, <1>1, <3>2 DEF UpfThreadStates
    <3>4. r.teid = TeidOf(imsi)
      BY <2>2, <3>1 DEF LookupsOwned, UpfThreadStates
    <3>5. /\ r.teid = smf[r.w].asked /\ r.typ = smf[r.w].typ /\ smf[r.w].pc = "wait"
          /\ r.pc = "m_lookup" => r.typ = "modify" /\ r.dl = smf[r.w].asked
          /\ r.pc = "d_lookup" => r.typ = "release"
      BY <1>0, <1>1, <3>2 DEF HandlerOK, AnsweringPcs
    <3>6. r.pc \in AnsweringPcs /\ upf'[t].pc \in {"m_ctx", "d_ctx"}
      BY <3>2, <3>3 DEF AnsweringPcs
    <3>7. HandlerOK(t)'
      <4>1. CASE r.pc = "m_lookup"
        <5>1. upf'[t].pc = "m_ctx" /\ upf'[t].typ = "modify"
          BY <3>3, <3>5, <4>1
        <5>. QED  BY <3>3, <3>4, <3>5, <4>1, <5>1 DEF HandlerOK, AnsweringPcs, CreatePcs
      <4>2. CASE r.pc = "d_lookup"
        <5>1. upf'[t].pc = "d_ctx" /\ upf'[t].typ = "release"
          BY <3>3, <3>5, <4>2
        <5>. QED  BY <3>3, <3>4, <3>5, <4>2, <5>1 DEF HandlerOK, AnsweringPcs, CreatePcs
      <4>. QED  BY <3>2, <4>1, <4>2
    <3>. QED  BY <1>0, <1>1, <3>3, <3>6, <3>7, HandlerFrame
  <2>. QED  BY <2>1, <2>2
<1>4. CASE ModifyContext(t) \/ DetachContext(t)
  <2>1. CASE UNCHANGED upf
    BY <1>0, <2>1, LinkFrame DEF StillWaits
  <2>2. CASE ~UNCHANGED upf
    <3>1. /\ r.pc \in {"m_ctx", "d_ctx"}
          /\ \/ \E c : upf' = [upf EXCEPT ![t] = [@ EXCEPT !.teid = c, !.pc = "send"]]
             \/ \E c, d, a : upf' = [upf EXCEPT ![t] =
                   [@ EXCEPT !.teid = c, !.dl = d, !.ip = a, !.pc = "send"]]
      BY <1>1, <1>4, <2>2 DEF ModifyContext, DetachContext
    <3>3. /\ upf'[t].typ = r.typ /\ upf'[t].w = r.w /\ upf'[t].pc = "send"
          /\ upf'[t].imsi = r.imsi
          /\ \A u \in UpfThreads \ {t} : upf'[u] = upf[u]
      <4>1. CASE \E c : upf' = [upf EXCEPT ![t] = [@ EXCEPT !.teid = c, !.pc = "send"]]
        BY <1>0, <1>1, <4>1 DEF UpfThreadStates
      <4>2. CASE \E c, d, a : upf' = [upf EXCEPT ![t] =
                   [@ EXCEPT !.teid = c, !.dl = d, !.ip = a, !.pc = "send"]]
        BY <1>0, <1>1, <4>2 DEF UpfThreadStates
      <4>. QED  BY <3>1, <4>1, <4>2
    <3>4. /\ r.pc \in AnsweringPcs /\ r.typ = smf[r.w].typ /\ smf[r.w].pc = "wait"
          /\ r.typ # "create" /\ smf[r.w].asked = TeidOf(r.imsi)
      BY <1>0, <1>1, <3>1 DEF HandlerOK, AnsweringPcs
    <3>5. HandlerOK(t)'
      BY <3>3, <3>4 DEF HandlerOK, AnsweringPcs, CreatePcs
    <3>. QED  BY <1>0, <1>1, <3>3, <3>4, <3>5, HandlerFrame
  <2>. QED  BY <2>1, <2>2
<1>5. CASE DetachS11(t) \/ DetachS1(t) \/ DetachSgi(t) \/ RemUpfContext(t)
  <2>1. /\ upf'[t].pc \in {"d_s1", "d_sgi", "d_rem", "idle"}
        /\ \A u \in UpfThreads \ {t} : upf'[u] = upf[u]
    BY <1>0, <1>5 DEF DetachS11, DetachS1, DetachSgi, RemUpfContext, UpfGoto, IdleThread,
                      UpfThreadStates
  <2>2. upf'[t].pc \notin AnsweringPcs
    BY <2>1 DEF AnsweringPcs
  <2>3. HandlerOK(t)'
    BY <2>2 DEF HandlerOK
  <2>. QED  BY <1>0, <2>1, <2>2, <2>3, HandlerFrame
<1>. QED  BY <1>2, <1>3, <1>4, <1>5 DEF UpfThread

----------------------------------------------------------------------------
(* Losses, requests and answers                                            *)

\* The socket of a worker of the SMF never holds two replies.
LEMMA OneReply ==
    ASSUME UpfTypeOK, LinkOK, NEW w \in Workers, n4_rsp[w] # <<>>
    PROVE  /\ Tail(n4_rsp[w]) = <<>> /\ Head(n4_rsp[w]) = n4_rsp[w][1]
           /\ Head(n4_rsp[w]) \in N4Replies
<1>1. n4_rsp[w] \in Seq(N4Replies) /\ Just(n4_rsp[w], n4_rsp[w][1].typ)
  BY DEF UpfTypeOK, LinkOK, OneAtATime, Just
<1>. QED  BY <1>1, JustOne

\* The network drops a request or a reply (bounded by MaxLosses).
LEMMA LoseLink ==
    ASSUME UpfTypeOK, LinkOK, UNCHANGED smf,
           LoseRequest \/ \E w \in Workers : LoseReply(w)
    PROVE  LinkOK'
<1>1. CASE LoseRequest
  <2>0. /\ n4_req \in Seq(N4Requests) /\ n4_req # <<>> /\ n4_req' = Tail(n4_req)
        /\ UNCHANGED <<upf, n4_rsp>>
    BY <1>1 DEF UpfTypeOK, LoseRequest
  <2>1. /\ \A i \in DOMAIN n4_req' : i + 1 \in DOMAIN n4_req /\ n4_req'[i] = n4_req[i + 1]
        /\ \A i, j \in DOMAIN n4_req' : i + 1 = j + 1 => i = j
    BY <2>0, TailItems
  <2>2. \A w : Queued(w)' => Queued(w)
    BY <2>1 DEF Queued
  <2>3. \A u, w : Answering(u, w)' => Answering(u, w)
    BY <2>0 DEF Answering
  <2>4. OneAtATime'
    BY <2>0, <2>1, <2>2, <2>3 DEF LinkOK, OneAtATime
  <2>5. \A i \in DOMAIN n4_req' : RequestOK(n4_req[i])'
    BY <2>1 DEF LinkOK, RequestOK
  <2>6. \A u \in UpfThreads : HandlerOK(u)'
    BY <2>0 DEF LinkOK, HandlerOK
  <2>7. \A w \in Workers : ReplyOK(w)'
    BY <2>0 DEF LinkOK, ReplyOK
  <2>. QED  BY <2>4, <2>5, <2>6, <2>7 DEF LinkOK
<1>2. ASSUME NEW w \in Workers, LoseReply(w) PROVE LinkOK'
  <2>0. /\ n4_rsp[w] # <<>> /\ n4_rsp' = [n4_rsp EXCEPT ![w] = Tail(@)]
        /\ n4_rsp \in [Workers -> Seq(N4Replies)] /\ UNCHANGED <<upf, n4_req>>
    BY <1>2 DEF UpfTypeOK, LoseReply
  <2>1. n4_rsp'[w] = <<>> /\ \A x \in Workers \ {w} : n4_rsp'[x] = n4_rsp[x]
    BY <2>0, OneReply
  <2>2. \A x : Queued(x)' <=> Queued(x)
    BY <2>0 DEF Queued
  <2>3. \A u, x : Answering(u, x)' <=> Answering(u, x)
    BY <2>0 DEF Answering
  <2>4. OneAtATime'
    <3>1. \A x \in Workers : n4_rsp'[x] # <<>> => n4_rsp'[x] = n4_rsp[x]
      BY <2>1
    <3>. QED  BY <2>0, <2>2, <2>3, <3>1 DEF LinkOK, OneAtATime
  <2>5. \A i \in DOMAIN n4_req' : RequestOK(n4_req[i])'
    BY <2>0 DEF LinkOK, RequestOK
  <2>6. \A u \in UpfThreads : HandlerOK(u)'
    BY <2>0 DEF LinkOK, HandlerOK
  <2>7. \A x \in Workers : ReplyOK(x)'
    BY <2>1 DEF LinkOK, ReplyOK
  <2>. QED  BY <2>4, <2>5, <2>6, <2>7 DEF LinkOK
<1>. QED  BY <1>1, <1>2

\* Nothing of worker w is on its way, in a thread, or in its socket.
Free(w) == ~Queued(w) /\ n4_rsp[w] = <<>> /\ \A t \in UpfThreads : ~Answering(t, w)

\* A worker that does not wait has nothing outstanding.
LEMMA NotWaiting ==
    ASSUME LinkOK, NEW w \in Workers, smf[w].pc # "wait"
    PROVE  Free(w)
<1>1. ~Queued(w)
  BY DEF LinkOK, RequestOK, Queued
<1>2. n4_rsp[w] = <<>>
  BY DEF LinkOK, ReplyOK
<1>3. ASSUME NEW t \in UpfThreads, Answering(t, w) PROVE FALSE
  <2>1. HandlerOK(t) /\ upf[t].pc \in AnsweringPcs /\ upf[t].w = w
    BY <1>3 DEF LinkOK, Answering
  <2>. QED  BY <2>1 DEF HandlerOK
<1>. QED  BY <1>1, <1>2, <1>3 DEF Free

\* A worker sends the first half of its call (smf.cpp, the three snd calls).
LEMMA RequestLink ==
    ASSUME UpfTypeOK, LinkOK, NEW w \in Workers, smf[w].pc = "call",
           NEW m, m.w = w, n4_req' = Append(n4_req, m), UNCHANGED <<upf, n4_rsp>>,
           \A x \in Workers \ {w} : smf'[x] = smf[x], RequestOK(m)'
    PROVE  LinkOK'
<1>0. n4_req \in Seq(N4Requests) /\ Free(w)
  BY NotWaiting DEF UpfTypeOK
<1>1. \A i \in DOMAIN n4_req' : \/ i \in DOMAIN n4_req /\ n4_req'[i] = n4_req[i]
                                \/ i = Len(n4_req) + 1 /\ n4_req'[i] = m
  BY <1>0, AppendItems
<1>2. \A x : Queued(x)' => Queued(x) \/ x = w
  BY <1>1 DEF Queued
<1>3. \A u, x : Answering(u, x)' <=> Answering(u, x)
  BY DEF Answering
<1>4. OneAtATime'
  <2>1. ASSUME NEW i \in DOMAIN n4_req', NEW j \in DOMAIN n4_req',
               n4_req'[i].w = n4_req'[j].w
        PROVE  i = j
    BY <1>0, <1>1, <2>1 DEF Free, Queued, LinkOK, OneAtATime
  <2>2. \A u, v \in UpfThreads, x \in Workers :
           Answering(u, x)' => ~Queued(x)' /\ (Answering(v, x)' => u = v)
    BY <1>0, <1>2, <1>3 DEF Free, LinkOK, OneAtATime
  <2>3. \A x \in Workers : n4_rsp'[x] # <<>> =>
          /\ Len(n4_rsp'[x]) = 1 /\ ~Queued(x)'
          /\ \A u \in UpfThreads : ~Answering(u, x)'
    BY <1>0, <1>2, <1>3 DEF Free, LinkOK, OneAtATime
  <2>. QED  BY <2>1, <2>2, <2>3 DEF OneAtATime
<1>5. ASSUME NEW i \in DOMAIN n4_req' PROVE RequestOK(n4_req[i])'
  <2>1. CASE i \in DOMAIN n4_req /\ n4_req'[i] = n4_req[i]
    <3>1. n4_req[i].w \in Workers /\ n4_req[i].w # w
      BY <1>0, <2>1, RequestWorker DEF Free, Queued
    <3>2. RequestOK(n4_req[i])
      BY <2>1 DEF LinkOK
    <3>. QED  BY <2>1, <3>1, <3>2 DEF RequestOK
  <2>2. CASE n4_req'[i] = m
    BY <2>2 DEF RequestOK
  <2>. QED  BY <1>1, <2>1, <2>2
<1>6. ASSUME NEW t \in UpfThreads PROVE HandlerOK(t)'
  <2>1. HandlerOK(t) /\ upf[t].w \in Workers
    BY DEF LinkOK, UpfTypeOK, UpfThreadStates
  <2>2. upf[t].pc \in AnsweringPcs => upf[t].w # w
    BY <1>0 DEF Free, Answering
  <2>3. CASE upf[t].pc \in AnsweringPcs
    BY <2>1, <2>2, <2>3 DEF HandlerOK
  <2>4. CASE upf[t].pc \notin AnsweringPcs
    BY <2>4 DEF HandlerOK
  <2>. QED  BY <2>3, <2>4
<1>7. ASSUME NEW x \in Workers PROVE ReplyOK(x)'
  BY <1>0 DEF Free, LinkOK, ReplyOK
<1>. QED  BY <1>4, <1>5, <1>6, <1>7 DEF LinkOK

\* A worker takes its reply, and waits no longer.
LEMMA AnswerLink ==
    ASSUME UpfTypeOK, LinkOK, NEW w \in Workers, n4_rsp[w] # <<>>,
           n4_rsp' = [n4_rsp EXCEPT ![w] = Tail(@)], UNCHANGED <<upf, n4_req>>,
           \A x \in Workers \ {w} : smf'[x] = smf[x]
    PROVE  LinkOK'
<1>0. /\ n4_rsp \in [Workers -> Seq(N4Replies)]
      /\ ~Queued(w) /\ \A t \in UpfThreads : ~Answering(t, w)
  BY DEF UpfTypeOK, LinkOK, OneAtATime
<1>1. n4_rsp'[w] = <<>> /\ \A x \in Workers \ {w} : n4_rsp'[x] = n4_rsp[x]
  BY <1>0, OneReply
<1>2. \A x : Queued(x)' <=> Queued(x)
  BY DEF Queued
<1>3. \A u, x : Answering(u, x)' <=> Answering(u, x)
  BY DEF Answering
<1>4. OneAtATime'
  <2>1. \A x \in Workers : n4_rsp'[x] # <<>> => n4_rsp'[x] = n4_rsp[x]
    BY <1>1
  <2>. QED  BY <1>2, <1>3, <2>1 DEF LinkOK, OneAtATime
<1>5. ASSUME NEW i \in DOMAIN n4_req PROVE RequestOK(n4_req[i])'
  <2>1. n4_req[i].w \in Workers /\ n4_req[i].w # w /\ RequestOK(n4_req[i])
    BY <1>0, RequestWorker DEF Queued, LinkOK
  <2>. QED  BY <2>1 DEF RequestOK
<1>6. ASSUME NEW t \in UpfThreads PROVE HandlerOK(t)'
  <2>1. HandlerOK(t) /\ upf[t].w \in Workers
    BY DEF LinkOK, UpfTypeOK, UpfThreadStates
  <2>2. upf[t].pc \in AnsweringPcs => upf[t].w # w
    BY <1>0 DEF Answering
  <2>3. CASE upf[t].pc \in AnsweringPcs
    BY <2>1, <2>2, <2>3 DEF HandlerOK
  <2>4. CASE upf[t].pc \notin AnsweringPcs
    BY <2>4 DEF HandlerOK
  <2>. QED  BY <2>3, <2>4
<1>7. ASSUME NEW x \in Workers PROVE ReplyOK(x)'
  <2>1. CASE x = w
    BY <1>1, <2>1 DEF ReplyOK
  <2>2. CASE x # w
    BY <1>1, <2>2 DEF LinkOK, ReplyOK
  <2>. QED  BY <2>1, <2>2
<1>. QED  BY <1>4, <1>5, <1>6, <1>7 DEF LinkOK

----------------------------------------------------------------------------
(* The grants, when a step does not disturb them                           *)

\* What the UDM has been told of n it is not told again, or told the same.
StaysStored(n) ==
    /\ Stored(n) => Stored(n)'
    /\ udm_ctx[Guti(n)].s1_uteid_dl = Teid(n) =>
          udm_ctx'[Guti(n)].s1_uteid_dl = Teid(n)

\* A step of one worker, which sends no message to the AMF.
LEMMA GrantsFrame ==
    ASSUME TypeOK, GrantsOK, UNCHANGED <<ran, uplink_info, up>>,
           \A m \in Ues : StaysStored(m) /\ (Accepted(m)' => Stored(m)'),
           NEW w \in Workers, HandlerGrantOK(w)', CallGrantOK(w)',
           \A x \in Workers \ {w} : amf'[x] = amf[x] /\ smf'[x] = smf[x]
    PROVE  GrantsOK'
<1>1. ASSUME NEW m \in Ues PROVE GrantOK(m)'
  <2>1. GrantOK(m) /\ (Stored(m) => Stored(m)') /\ (Accepted(m)' => Stored(m)')
    BY DEF GrantsOK, StaysStored
  <2>. QED  BY <2>1 DEF GrantOK
<1>2. ASSUME NEW x \in Workers \ {w} PROVE HandlerGrantOK(x)' /\ CallGrantOK(x)'
  <2>1. PICK n \in Ues : n = amf[x].ue
    BY AmfStateType DEF TypeOK
  <2>2. HandlerGrantOK(x) /\ CallGrantOK(x) /\ StaysStored(n)
    BY DEF GrantsOK
  <2>. QED  BY <1>2, <2>1, <2>2 DEF HandlerGrantOK, CallGrantOK, StaysStored
<1>. QED  BY <1>1, <1>2 DEF GrantsOK

\* A step that nothing of the grants depends on.
LEMMA GrantsUntouched ==
    ASSUME GrantsOK, UNCHANGED <<ran, uplink_info, up, down, udm_ctx, amf, smf>>
    PROVE  GrantsOK'
<1>1. ASSUME NEW m \in Ues PROVE GrantOK(m)'
  <2>1. GrantOK(m) /\ (Stored(m)' <=> Stored(m)) /\ (Accepted(m)' <=> Accepted(m))
    BY DEF GrantsOK, Stored, Accepted
  <2>. QED  BY <2>1 DEF GrantOK
<1>2. ASSUME NEW x \in Workers PROVE HandlerGrantOK(x)' /\ CallGrantOK(x)'
  <2>1. HandlerGrantOK(x) /\ CallGrantOK(x)
    BY DEF GrantsOK
  <2>2. \A m : Stored(m)' <=> Stored(m)
    BY DEF Stored
  <2>. QED  BY <2>1, <2>2 DEF HandlerGrantOK, CallGrantOK
<1>. QED  BY <1>1, <1>2 DEF GrantsOK

\* Who changes no grant of the UDM's records.
LEMMA UdmStays ==
    ASSUME NEW m \in Ues,
           LET a == udm_ctx[Guti(m)]
               b == udm_ctx'[Guti(m)]
           IN  /\ b.s11_cteid_sgw = a.s11_cteid_sgw /\ b.s1_uteid_ul = a.s1_uteid_ul
               /\ b.ip_addr = a.ip_addr /\ b.s1_uteid_dl = a.s1_uteid_dl
    PROVE  StaysStored(m)
BY DEF StaysStored, Stored

----------------------------------------------------------------------------
(* The SMF                                                                 *)

\* A step inside a call, which keeps what the UDM was told.
LEMMA CallGrants ==
    ASSUME TypeOK, GrantsOK, UNCHANGED <<ran, uplink_info, up, down, amf>>,
           \A m \in Ues : StaysStored(m), NEW w \in Workers, CallGrantOK(w)',
           \A x \in Workers \ {w} : smf'[x] = smf[x]
    PROVE  GrantsOK'
<1>1. \A m \in Ues : Accepted(m)' => Stored(m)'
  BY DEF Accepted, StaysStored, GrantsOK, GrantOK
<1>2. HandlerGrantOK(w)'
  <2>1. PICK n \in Ues : n = amf[w].ue
    BY AmfStateType DEF TypeOK
  <2>2. HandlerGrantOK(w) /\ StaysStored(n)
    BY DEF GrantsOK
  <2>. QED  BY <2>1, <2>2 DEF HandlerGrantOK, StaysStored
<1>. QED  BY <1>1, <1>2, GrantsFrame

\* Worker w of the SMF is inside a call for n.
Calls(w, n) ==
    /\ TypeOK /\ LinkOK /\ GrantsOK /\ w \in Workers /\ n \in Ues
    /\ n = amf[w].ue /\ smf[w].pc # "idle" /\ ServiceOK(w) /\ SmfWorker(w)
    /\ UNCHANGED <<ran, uplink_info, up, down, amf>>

\* What the call is for, and what its next step keeps of it.
LEMMA CallFacts ==
    ASSUME NEW w, NEW n, Calls(w, n)
    PROVE  /\ smf[w].guti = Guti(n) /\ smf[w].guti # 0
           /\ smf[w].typ = "create" => smf[w].imsi = Imsi(n) /\ amf[w].pc = "session_end"
           /\ smf[w].typ = "modify" => amf[w].pc = "modify_end"
           /\ smf[w].typ = "release" => amf[w].pc = "detach_end"
           /\ smf[w].pc = "update" => smf[w].typ = "create"
           /\ smf[w].typ \in {"create", "modify", "release"} /\ smf[w] \in SmfStates
           /\ smf \in [Workers -> SmfStates]
           /\ smf'[w].typ = smf[w].typ /\ smf'[w].guti = smf[w].guti
           /\ smf'[w].imsi = smf[w].imsi
           /\ \A x \in Workers \ {w} : smf'[x] = smf[x]
<1>1. /\ smf[w].guti = Guti(n)
      /\ smf[w].pc = "update" => smf[w].typ = "create"
      /\ \/ /\ amf[w].pc = "session_end" /\ smf[w].typ = "create"
            /\ smf[w].imsi = Imsi(n)
         \/ amf[w].pc = "modify_end" /\ smf[w].typ = "modify"
         \/ amf[w].pc = "detach_end" /\ smf[w].typ = "release"
  BY DEF Calls, ServiceOK, CallOK
<1>2. smf \in [Workers -> SmfStates] /\ smf[w] \in SmfStates /\ smf[w].guti # 0
  BY <1>1, OwnFacts DEF Calls, TypeOK, SmfTypeOK
<1>3. /\ smf'[w].typ = smf[w].typ /\ smf'[w].guti = smf[w].guti
      /\ smf'[w].imsi = smf[w].imsi
      /\ \A x \in Workers \ {w} : smf'[x] = smf[x]
  BY <1>1, <1>2, SmfCallKept DEF Calls
<1>. QED  BY <1>1, <1>2, <1>3

\* handle_create_session asks for the subscriber's own teid.
LEMMA RequestCreateLinks ==
    ASSUME NEW w, NEW n, Calls(w, n), RequestCreate(w)
    PROVE  LinkOK' /\ GrantsOK'
<1> DEFINE m == [typ |-> "create", w |-> w, teid |-> smf[w].asked,
                 imsi |-> smf[w].imsi, dl |-> 0]
<1>0. /\ TypeOK /\ UpfTypeOK /\ LinkOK /\ GrantsOK /\ w \in Workers /\ n \in Ues
      /\ n = amf[w].ue /\ UNCHANGED <<ran, uplink_info, up, down, amf>>
  BY DEF Calls, TypeOK
<1>1. /\ smf[w].pc = "call" /\ smf[w].typ = "create" /\ smf[w].guti = Guti(n)
      /\ n4_req' = Append(n4_req, m) /\ UNCHANGED <<upf, n4_rsp>>
      /\ smf' = [smf EXCEPT ![w].pc = "wait"]
      /\ udm_ctx' = [udm_ctx EXCEPT ![Guti(n)] =
                       [@ EXCEPT !.imsi = smf[w].imsi, !.s11_cteid_mme = smf[w].asked]]
  BY CallFacts DEF RequestCreate, RequestSmfCreateSession, SendN4
<1>2. /\ smf'[w].pc = "wait" /\ smf'[w].asked = smf[w].asked
      /\ smf'[w].typ = "create" /\ smf'[w].imsi = smf[w].imsi
      /\ \A x \in Workers \ {w} : smf'[x] = smf[x]
  BY <1>0, <1>1, CallFacts DEF SmfStates
<1>3. LinkOK'
  <2>1. PICK r : r = m
    OBVIOUS
  <2>2. r.w = w /\ r.typ = "create" /\ r.teid = smf[w].asked /\ r.imsi = smf[w].imsi
    BY <2>1
  <2>3. n4_req' = Append(n4_req, r)
    BY <1>1, <2>1
  <2> HIDE DEF m
  <2>4. RequestOK(r)'
    BY <1>2, <2>2 DEF RequestOK
  <2>. QED  BY <1>0, <1>1, <1>2, <2>2, <2>3, <2>4, RequestLink
<1>4. \A k \in Ues : StaysStored(k)
  <2>1. udm_ctx \in [Imsis -> UdmContexts] /\ \A k \in Ues : udm_ctx[Guti(k)] \in UdmContexts
    BY <1>0, OwnFacts DEF TypeOK, UdmTypeOK
  <2>2. \A k \in Ues \ {n} : udm_ctx'[Guti(k)] = udm_ctx[Guti(k)]
    BY <1>0, <1>1, <2>1, OwnFacts DEF UdmContexts
  <2>3. LET a == udm_ctx[Guti(n)]
            b == udm_ctx'[Guti(n)]
        IN  /\ b.s11_cteid_sgw = a.s11_cteid_sgw /\ b.s1_uteid_ul = a.s1_uteid_ul
            /\ b.ip_addr = a.ip_addr /\ b.s1_uteid_dl = a.s1_uteid_dl
    BY <1>0, <1>1, <2>1, OwnFacts DEF UdmContexts
  <2>4. StaysStored(n)
    BY <1>0, <2>3, UdmStays
  <2>5. ASSUME NEW k \in Ues \ {n} PROVE StaysStored(k)
    BY <2>2, <2>5, UdmStays
  <2>. QED  BY <2>4, <2>5
<1>5. CallGrantOK(w)'
  <2>1. smf[w].asked = Teid(n)
    BY <1>0, <1>1 DEF GrantsOK, CallGrantOK
  <2>. QED  BY <1>0, <1>2, <2>1 DEF CallGrantOK
<1>. QED  BY <1>0, <1>2, <1>3, <1>4, <1>5, CallGrants

\* handle_modify_bearer and handle_detach ask with the teid the UDM has stored,
\* which is the subscriber's own.
LEMMA RequestLinks ==
    ASSUME NEW w, NEW n, Calls(w, n), RequestModify(w) \/ RequestRelease(w)
    PROVE  LinkOK' /\ GrantsOK'
<1>0. /\ TypeOK /\ UpfTypeOK /\ LinkOK /\ GrantsOK /\ w \in Workers /\ n \in Ues
      /\ n = amf[w].ue /\ UNCHANGED <<ran, uplink_info, up, down, amf>>
  BY DEF Calls, TypeOK
<1>1. /\ smf[w].pc = "call" /\ smf[w].typ \in {"modify", "release"}
      /\ smf' = [smf EXCEPT ![w] = [@ EXCEPT !.pc = "wait",
                                       !.asked = udm_ctx[Guti(n)].s11_cteid_sgw]]
      /\ UNCHANGED <<upf, n4_rsp, udm_ctx>>
      /\ \/ /\ smf[w].typ = "modify"
            /\ SendN4(w, "modify", udm_ctx[Guti(n)].s11_cteid_sgw, 0,
                      udm_ctx[Guti(n)].s1_uteid_dl)
         \/ /\ smf[w].typ = "release"
            /\ SendN4(w, "release", udm_ctx[Guti(n)].s11_cteid_sgw, 0, 0)
  <2>0. smf[w].guti = Guti(n) /\ smf[w].guti # 0
    BY CallFacts
  <2>1. CASE RequestModify(w)
    BY <2>0, <2>1 DEF RequestModify, udmVars
  <2>2. CASE RequestRelease(w)
    BY <2>0, <2>2 DEF RequestRelease, udmVars
  <2>. QED  BY <2>1, <2>2
<1>2. Stored(n) /\ (smf[w].typ = "modify" => udm_ctx[Guti(n)].s1_uteid_dl = Teid(n))
  <2>1. HandlerGrantOK(w)
    BY <1>0 DEF GrantsOK
  <2>. QED  BY <1>0, <1>1, <2>1, CallFacts DEF HandlerGrantOK, CompletePcs, DetachPcs
<1>3. /\ smf'[w].pc = "wait" /\ smf'[w].asked = Teid(n) /\ smf'[w].typ = smf[w].typ
      /\ \A x \in Workers \ {w} : smf'[x] = smf[x]
  <2>1. smf'[w].pc = "wait" /\ smf'[w].asked = udm_ctx[Guti(n)].s11_cteid_sgw
    BY <1>0, <1>1, CallFacts DEF SmfStates
  <2>. QED  BY <1>2, <2>1, CallFacts DEF Stored
<1>4. PICK d, t :
        /\ n4_req' = Append(n4_req, [typ |-> t, w |-> w, teid |-> Teid(n),
                                     imsi |-> 0, dl |-> d])
        /\ t = smf[w].typ /\ (t = "modify" => d = Teid(n))
  <2>1. udm_ctx[Guti(n)].s11_cteid_sgw = Teid(n)
    BY <1>2 DEF Stored
  <2>2. CASE smf[w].typ = "modify"
    <3>1. n4_req' = Append(n4_req, [typ |-> "modify", w |-> w, teid |-> Teid(n),
                                    imsi |-> 0, dl |-> Teid(n)])
      BY <1>1, <1>2, <2>1, <2>2 DEF SendN4
    <3>. QED  BY <2>2, <3>1
  <2>3. CASE smf[w].typ = "release"
    <3>1. n4_req' = Append(n4_req, [typ |-> "release", w |-> w, teid |-> Teid(n),
                                    imsi |-> 0, dl |-> 0])
      BY <1>1, <2>1, <2>3 DEF SendN4
    <3>. QED  BY <2>3, <3>1
  <2>. QED  BY <1>1, <2>2, <2>3
<1>5. LinkOK'
  <2>1. PICK m : /\ m = [typ |-> t, w |-> w, teid |-> Teid(n), imsi |-> 0, dl |-> d]
                 /\ n4_req' = Append(n4_req, m)
    BY <1>4
  <2>2. m.w = w /\ m.typ = t /\ m.teid = Teid(n) /\ m.dl = d
    BY <2>1
  <2>3. RequestOK(m)'
    BY <1>1, <1>3, <1>4, <2>2 DEF RequestOK
  <2>. QED  BY <1>0, <1>1, <1>3, <2>1, <2>2, <2>3, RequestLink
<1>6. \A k \in Ues : StaysStored(k)
  BY <1>1, UdmStays
<1>7. CallGrantOK(w)'
  BY <1>0, <1>3 DEF CallGrantOK
<1>. QED  BY <1>0, <1>3, <1>5, <1>6, <1>7, CallGrants

\* The answer to a create carries the subscriber's own teid and address.
LEMMA AnswerLinks ==
    ASSUME NEW w, NEW n, Calls(w, n), RcvAnswer(w)
    PROVE  LinkOK' /\ GrantsOK'
<1>0. /\ TypeOK /\ UpfTypeOK /\ LinkOK /\ GrantsOK /\ w \in Workers /\ n \in Ues
      /\ n = amf[w].ue /\ UNCHANGED <<ran, uplink_info, up, down, amf>>
  BY DEF Calls, TypeOK
<1>1. /\ smf[w].pc = "wait" /\ n4_rsp[w] # <<>>
      /\ n4_rsp' = [n4_rsp EXCEPT ![w] = Tail(@)]
      /\ TakeAnswer(w, ReadAsCreate(Head(n4_rsp[w])), ReadAsResult(Head(n4_rsp[w])))
      /\ UNCHANGED <<upf, n4_req, udm_ctx>>
  BY DEF RcvAnswer, udmVars
<1>2. LinkOK'
  BY <1>0, <1>1, CallFacts, AnswerLink
<1>3. \A k \in Ues : StaysStored(k)
  BY <1>1, UdmStays
<1>4. CallGrantOK(w)'
  <2>1. CASE smf[w].typ = "create"
    <3>1. PICK m : m = Head(n4_rsp[w]) /\ m = n4_rsp[w][1]
      BY <1>0, <1>1, OneReply
    <3>2. m.typ = "create" /\ m.teid = smf[w].asked /\ m.ip = IpAddr(smf[w].imsi)
      BY <1>0, <1>1, <2>1, <3>1 DEF LinkOK, ReplyOK
    <3>3. smf[w].asked = Teid(n) /\ smf[w].imsi = Imsi(n)
      BY <1>0, <1>1, <2>1, CallFacts DEF GrantsOK, CallGrantOK
    <3>4. smf' = [smf EXCEPT ![w] = [@ EXCEPT !.pc = "update", !.teid = Teid(n),
                                       !.ip = IpAddr(Imsi(n)), !.ul = Teid(n)]]
      BY <1>1, <2>1, <3>1, <3>2, <3>3 DEF TakeAnswer, ReadAsCreate
    <3>5. /\ smf'[w].pc = "update" /\ smf'[w].teid = Teid(n) /\ smf'[w].ul = Teid(n)
          /\ smf'[w].ip = IpAddr(Imsi(n)) /\ smf'[w].asked = Teid(n)
      BY <1>0, <3>3, <3>4, CallFacts DEF SmfStates
    <3>. QED  BY <1>0, <3>5 DEF CallGrantOK
  <2>2. CASE smf[w].typ # "create"
    <3>1. \E b : smf' = [smf EXCEPT ![w] = [@ EXCEPT !.pc = "done", !.res = b]]
      BY <1>1, <2>2, CallFacts DEF TakeAnswer
    <3>2. smf'[w].pc = "done" /\ smf'[w].typ # "create"
      BY <1>0, <2>2, <3>1, CallFacts DEF SmfStates
    <3>. QED  BY <1>0, <3>2 DEF CallGrantOK
  <2>. QED  BY <2>1, <2>2
<1>. QED  BY <1>0, <1>2, <1>3, <1>4, CallFacts, CallGrants

\* The second half of a create stores what was granted.
LEMMA UpdateLinks ==
    ASSUME NEW w, NEW n, Calls(w, n), UpdateCreate(w)
    PROVE  LinkOK' /\ GrantsOK'
<1>0. /\ TypeOK /\ UpfTypeOK /\ LinkOK /\ GrantsOK /\ w \in Workers /\ n \in Ues
      /\ n = amf[w].ue /\ UNCHANGED <<ran, uplink_info, up, down, amf>>
  BY DEF Calls, TypeOK
<1>1. /\ smf[w].pc = "update" /\ UNCHANGED <<upf, n4_req, n4_rsp>>
      /\ \E t, r : smf' = [smf EXCEPT ![w] = [@ EXCEPT !.pc = "done", !.res = TRUE,
                                                !.teid = t, !.tau_timer = r]]
  BY DEF UpdateCreate, n4Vars
<1>2. \E v : udm_ctx' = [udm_ctx EXCEPT ![smf[w].guti] =
                 [@ EXCEPT !.s11_cteid_sgw = smf[w].teid, !.ip_addr = smf[w].ip,
                           !.s1_uteid_ul = smf[w].ul, !.tau_timer = v]]
  BY DEF UpdateCreate, UpdateSmfCreateSession, JsonMember
<1>3. /\ smf[w].typ = "create" /\ smf[w].teid = Teid(n) /\ smf[w].ul = Teid(n)
      /\ smf[w].ip = IpAddr(Imsi(n)) /\ smf[w].guti = Guti(n)
  BY <1>0, <1>1, CallFacts DEF GrantsOK, CallGrantOK
<1>4. /\ smf'[w].pc = "done" /\ smf'[w].ip = smf[w].ip /\ smf'[w].ul = smf[w].ul
      /\ \A x \in Workers \ {w} : smf'[x] = smf[x]
  BY <1>0, <1>1, CallFacts DEF SmfStates
<1>5. LinkOK'
  BY <1>0, <1>1, <1>4, LinkFrame DEF StillWaits
<1>6. /\ udm_ctx'[Guti(n)].s11_cteid_sgw = Teid(n) /\ udm_ctx'[Guti(n)].s1_uteid_ul = Teid(n)
      /\ udm_ctx'[Guti(n)].ip_addr = IpAddr(Imsi(n))
      /\ udm_ctx'[Guti(n)].s1_uteid_dl = udm_ctx[Guti(n)].s1_uteid_dl
      /\ \A g \in Imsis \ {Guti(n)} : udm_ctx'[g] = udm_ctx[g]
  <2>1. /\ udm_ctx \in [Imsis -> UdmContexts] /\ Guti(n) \in Imsis
        /\ udm_ctx[Guti(n)] \in UdmContexts
    BY <1>0, OwnFacts DEF TypeOK, UdmTypeOK
  <2>2. PICK v : udm_ctx' = [udm_ctx EXCEPT ![Guti(n)] =
                 [udm_ctx[Guti(n)] EXCEPT !.s11_cteid_sgw = Teid(n), !.ip_addr = IpAddr(Imsi(n)),
                           !.s1_uteid_ul = Teid(n), !.tau_timer = v]]
    BY <1>2, <1>3, <2>1
  <2>. QED  BY <2>1, <2>2 DEF UdmContexts
<1>7. \A k \in Ues : StaysStored(k)
  <2>1. StaysStored(n) /\ Stored(n)'
    BY <1>6 DEF StaysStored, Stored
  <2>2. \A k \in Ues \ {n} : StaysStored(k)
    BY <1>0, <1>6, OwnFacts, UdmStays
  <2>. QED  BY <2>1, <2>2
<1>8. CallGrantOK(w)'
  <2>1. Stored(n)'
    BY <1>6 DEF Stored
  <2>. QED  BY <1>0, <1>3, <1>4, <2>1 DEF CallGrantOK
<1>. QED  BY <1>0, <1>4, <1>5, <1>7, <1>8, CallGrants

\* A worker of the SMF keeps the link and the grants in order, if it does not
\* give up waiting.
LEMMA SmfStepLinks ==
    ASSUME TypeOK, Agreement, LinkOK, GrantsOK, Running("upf"), Prompt',
           NEW w \in Workers, SmfStep(w)
    PROVE  LinkOK' /\ GrantsOK'
<1>0. /\ SmfWorker(w) /\ UNCHANGED <<ran, uplink_info, up, down, amf>>
      /\ amf[w].ue \in Ues /\ ServiceOK(w)
  BY AmfStateType DEF SmfStep, linkVars, amfVars, ranVars, TypeOK, Agreement
<1>1. PICK n \in Ues : n = amf[w].ue
  BY <1>0
<1>2. smf[w].pc # "idle"
  BY <1>0 DEF SmfWorker, RequestCreate, RequestModify, RequestRelease, RcvAnswer,
              RcvTimeout, UpdateCreate
<1>3. Calls(w, n)
  BY <1>0, <1>1, <1>2 DEF Calls
<1>4. ~RcvTimeout(w)
  <2>1. timeouts \in Nat /\ timeouts' = 0
    BY MaxTimeoutsAssumption DEF TypeOK, SmfTypeOK, Prompt
  <2>2. RcvTimeout(w) => timeouts' = timeouts + 1
    BY DEF RcvTimeout
  <2>. QED  BY <2>1, <2>2
<1>. QED
  BY <1>0, <1>3, <1>4, RequestCreateLinks, RequestLinks, AnswerLinks, UpdateLinks
     DEF SmfWorker

----------------------------------------------------------------------------
(* The AMF                                                                 *)

\* A handler of the AMF begins a call when its worker of the SMF is idle, and
\* takes the response when it is done: it does not disturb a call that waits.
LEMMA AmfLink ==
    ASSUME TypeOK, LinkOK, NEW w \in Workers, ServiceOK(w), AmfWorker(w)
    PROVE  LinkOK'
<1>0. UNCHANGED <<upf, n4_req, n4_rsp>>
  BY DEF AmfWorker, AmfSelect, AmfClose, HandleUe, InitialAttach, AttachInit,
         AttachAuth, HandleAutn, SecurityModeCmd, SetIntegrityContext,
         SendSecurityModeCmd, SecurityModeComplete, LocationUpdate, LocationDelete,
         LocationInsert, CreateSessionBegin, CreateSessionEnd, AttachComplete,
         ModifyBearerBegin, ModifyBearerEnd, DetachBegin, DetachEnd, RemItfid,
         RemUectx, localFrame, unusedByAmf, upfVars
<1>1. \A x \in Workers \ {w} : smf'[x] = smf[x]
  BY WorkerSteps
<1>2. CASE UNCHANGED smf
  BY <1>0, <1>2, LinkFrame DEF StillWaits, TypeOK
<1>3. CASE ~UNCHANGED smf
  <2>1. \/ CreateSessionBegin(w) \/ ModifyBearerBegin(w) \/ DetachBegin(w)
        \/ CreateSessionEnd(w) \/ ModifyBearerEnd(w) \/ DetachEnd(w)
    BY <1>3 DEF AmfWorker, AmfSelect, AmfClose, HandleUe, InitialAttach, AttachInit,
         AttachAuth, HandleAutn, SecurityModeCmd, SetIntegrityContext,
         SendSecurityModeCmd, SecurityModeComplete, LocationUpdate, LocationDelete,
         LocationInsert, AttachComplete, RemItfid, RemUectx, smfVars
  <2>2. smf[w].pc # "wait"
    <3>1. CASE CreateSessionBegin(w) \/ ModifyBearerBegin(w) \/ DetachBegin(w)
      BY <3>1, NoCall DEF CreateSessionBegin, ModifyBearerBegin, DetachBegin, AmfAt
    <3>2. CASE CreateSessionEnd(w) \/ ModifyBearerEnd(w) \/ DetachEnd(w)
      BY <3>2 DEF CreateSessionEnd, ModifyBearerEnd, DetachEnd
    <3>. QED  BY <2>1, <3>1, <3>2
  <2>3. \A x \in Workers : StillWaits(x)
    BY <1>1, <2>2 DEF StillWaits
  <2>. QED  BY <1>0, <2>3, LinkFrame DEF TypeOK
<1>. QED  BY <1>2, <1>3

\* Worker w is inside a handler for n whose step keeps the conversation.
Grants(w, n) ==
    /\ GrantsOK /\ Handles(w, n) /\ HandlerKeeps(w, n) /\ AmfWorker(w)
    /\ UNCHANGED uplink_info

\* What a step of a handler for n has to show.
LEMMA HandlerGrants ==
    ASSUME NEW w, NEW n, Grants(w, n), StaysStored(n), Accepted(n)' => Stored(n)',
           HandlerGrantOK(w)', CallGrantOK(w)'
    PROVE  GrantsOK'
<1>1. TypeOK /\ GrantsOK /\ w \in Workers /\ n \in Ues /\ UNCHANGED <<ran, uplink_info, up>>
  BY DEF Grants, Handles
<1>2. \A x \in Workers \ {w} : amf'[x] = amf[x] /\ smf'[x] = smf[x]
  BY <1>1, WorkerSteps DEF Grants
<1>3. ASSUME NEW m \in Ues, m # n PROVE StaysStored(m) /\ (Accepted(m)' => Stored(m)')
  <2>1. Untouched(m)
    BY <1>3 DEF Grants, HandlerKeeps
  <2>2. StaysStored(m)
    BY <2>1, UdmStays DEF Untouched
  <2>3. Accepted(m)' => Accepted(m)
    BY <2>1 DEF Untouched, Accepted
  <2>4. Accepted(m) => Stored(m)
    BY <1>1 DEF GrantsOK, GrantOK
  <2>. QED  BY <2>2, <2>3, <2>4 DEF StaysStored
<1>. QED  BY <1>1, <1>2, <1>3, GrantsFrame

\* A handler that is not between the calls of a session, and does not accept it.
LEMMA QuietGrants ==
    ASSUME NEW w, NEW n, Grants(w, n), StaysStored(n), smf'[w].pc = "idle",
           amf'[w].pc \notin CompletePcs \cup DetachPcs,
           UNCHANGED down \/ ran[n].pc # "session"
    PROVE  GrantsOK'
<1>1. Accepted(n)' => Stored(n)'
  <2>1. UNCHANGED ran /\ GrantOK(n)
    BY DEF Grants, Handles, GrantsOK
  <2>2. Accepted(n)' => Accepted(n)
    BY <2>1 DEF Accepted
  <2>. QED  BY <2>1, <2>2 DEF GrantOK, StaysStored
<1>2. HandlerGrantOK(w)' /\ CallGrantOK(w)'
  BY DEF HandlerGrantOK, CallGrantOK, CompletePcs, DetachPcs
<1>. QED  BY <1>1, <1>2, HandlerGrants

\* What most handlers write at the UDM is no grant.
LEMMA QuietUdm ==
    ASSUME TypeOK, NEW g \in Imsis, NEW n \in Ues, NEW a, NEW b,
           \/ UpdateInitialAttachInit(g, a, b) \/ UpdateInitialAttach(g, a, b)
           \/ SetCrypt(g) \/ SetIntegrity(g)
           \/ HandleCreateSessionBegin(g, a) \/ HandleModifyBearer(g)
           \/ UNCHANGED udm_ctx
    PROVE  StaysStored(n)
<1>1. /\ udm_ctx \in [Imsis -> UdmContexts] /\ udm_ctx[g] \in UdmContexts
      /\ Guti(n) \in Imsis
  BY OwnFacts DEF TypeOK, UdmTypeOK
<1> DEFINE Same == LET c == udm_ctx[Guti(n)]
                       d == udm_ctx'[Guti(n)]
                   IN  /\ d.s11_cteid_sgw = c.s11_cteid_sgw
                       /\ d.s1_uteid_ul = c.s1_uteid_ul
                       /\ d.ip_addr = c.ip_addr /\ d.s1_uteid_dl = c.s1_uteid_dl
<1>2. CASE UpdateInitialAttachInit(g, a, b)
  <2>1. Same
    BY <1>1, <1>2 DEF UpdateInitialAttachInit, UdmContexts
  <2>. QED  BY <2>1, UdmStays
<1>3. CASE UpdateInitialAttach(g, a, b)
  <2>1. Same
    BY <1>1, <1>3 DEF UpdateInitialAttach, UdmContexts
  <2>. QED  BY <2>1, UdmStays
<1>4. CASE SetCrypt(g)
  <2>1. PICK k : udm_ctx' = [udm_ctx EXCEPT ![g].k_nas_enc = k]
    BY <1>4 DEF SetCrypt
  <2>2. Same
    BY <1>1, <2>1 DEF UdmContexts
  <2>. QED  BY <2>2, UdmStays
<1>5. CASE SetIntegrity(g)
  <2>1. PICK k : udm_ctx' = [udm_ctx EXCEPT ![g].k_nas_int = k]
    BY <1>5 DEF SetIntegrity
  <2>2. Same
    BY <1>1, <2>1 DEF UdmContexts
  <2>. QED  BY <2>2, UdmStays
<1>6. CASE HandleCreateSessionBegin(g, a)
  <2>1. Same
    BY <1>1, <1>6 DEF HandleCreateSessionBegin, UdmContexts
  <2>. QED  BY <2>1, UdmStays
<1>7. CASE HandleModifyBearer(g)
  <2>1. Same
    BY <1>1, <1>7 DEF HandleModifyBearer, UdmContexts
  <2>. QED  BY <2>1, UdmStays
<1>8. CASE UNCHANGED udm_ctx
  BY <1>8, UdmStays
<1>. QED  BY <1>2, <1>3, <1>4, <1>5, <1>6, <1>7, <1>8

\* The handlers of the attach up to the session, and the two removals.
LEMMA QuietHandlers ==
    ASSUME NEW w, NEW n, Grants(w, n),
           \/ InitialAttach(w) \/ AttachInit(w) \/ AttachAuth(w) \/ HandleAutn(w)
           \/ SecurityModeCmd(w) \/ SetIntegrityContext(w) \/ SendSecurityModeCmd(w)
           \/ SecurityModeComplete(w) \/ LocationUpdate(w) \/ LocationDelete(w)
           \/ LocationInsert(w) \/ RemItfid(w) \/ RemUectx(w)
    PROVE  GrantsOK'
<1>0. /\ TypeOK /\ w \in Workers /\ n \in Ues /\ ServiceOK(w) /\ SubscriberOK(n)
      /\ n = amf[w].ue /\ amf[w] \in AmfStates /\ amf \in [Workers -> AmfStates]
  BY DEF Grants, Handles, TypeOK, AmfTypeOK
<1>a. smf'[w].pc = "idle"
  <2>1. UNCHANGED smf
    BY DEF InitialAttach, AttachInit, AttachAuth, HandleAutn, SecurityModeCmd,
           SetIntegrityContext, SendSecurityModeCmd, SecurityModeComplete,
           LocationUpdate, LocationDelete, LocationInsert, RemItfid, RemUectx, smfVars
  <2>2. amf[w].pc \notin {"session_end", "modify_end", "detach_end"}
    BY DEF InitialAttach, AttachInit, AttachAuth, HandleAutn, SecurityModeCmd,
           SetIntegrityContext, SendSecurityModeCmd, SecurityModeComplete,
           LocationUpdate, LocationDelete, LocationInsert, RemItfid, RemUectx, AmfAt
  <2>. QED  BY <1>0, <2>1, <2>2, NoCall
<1>b. ASSUME NEW pc, AmfGoto(w, pc), pc \notin CompletePcs \cup DetachPcs
      PROVE  amf'[w].pc \notin CompletePcs \cup DetachPcs
  BY <1>0, <1>b, GotoFields
<1>c. ASSUME AmfReturn(w) PROVE amf'[w].pc \notin CompletePcs \cup DetachPcs
  BY <1>0, <1>c DEF AmfReturn, IdleAmf, CompletePcs, DetachPcs
<1>d. ASSUME UNCHANGED <<down, udm_ctx>>, amf'[w].pc \notin CompletePcs \cup DetachPcs
      PROVE  GrantsOK'
  <2>1. StaysStored(n)
    BY <1>0, <1>d, UdmStays
  <2>. QED  BY <1>a, <1>d, <2>1, QuietGrants
<1>1. CASE InitialAttach(w)
  <2>1. /\ UNCHANGED <<down, udm_ctx>>
        /\ \E i, g, s : amf' = [amf EXCEPT ![w] =
               [@ EXCEPT !.id = i, !.guti = g, !.imsi = s, !.pc = "attach_init"]]
    BY <1>1 DEF InitialAttach, udmVars
  <2>2. amf'[w].pc = "attach_init"
    BY <1>0, <2>1 DEF AmfStates
  <2>. QED  BY <1>d, <2>1, <2>2 DEF CompletePcs, DetachPcs
<1>2. CASE AttachInit(w)
  <2>1. /\ UNCHANGED down /\ AmfGoto(w, "attach_auth")
        /\ UpdateInitialAttachInit(amf[w].guti, amf[w].imsi, amf[w].id)
    BY <1>2 DEF AttachInit
  <2>2. amf[w].guti = Guti(n) /\ Guti(n) \in Imsis
    BY <1>0, <1>2, OwnFacts DEF AttachInit, AmfAt, ServiceOK, WorkerOK, ServesAttach,
                                AttachPcs
  <2>3. StaysStored(n)
    BY <1>0, <2>1, <2>2, QuietUdm
  <2>. QED  BY <1>a, <1>b, <2>1, <2>3, QuietGrants DEF CompletePcs, DetachPcs
<1>3. CASE AttachAuth(w)
  <2>1. /\ AmfReturn(w)
        /\ \E a, b : UpdateInitialAttach(amf[w].guti, a, b)
    BY <1>3 DEF AttachAuth
  <2>2. amf[w].guti = Guti(n) /\ Guti(n) \in Imsis
    BY <1>0, <1>3, OwnFacts DEF AttachAuth, AmfAt, ServiceOK, WorkerOK, ServesAttach,
                                AttachPcs
  <2>3. StaysStored(n)
    BY <1>0, <2>1, <2>2, QuietUdm
  <2>4. ran[n].pc # "session"
    BY <1>3, HandlerPhase DEF Grants, AttachAuth, AmfAt, AttachPcs
  <2>. QED  BY <1>a, <1>c, <2>1, <2>3, <2>4, QuietGrants
<1>4. CASE HandleAutn(w)
  <2>1. UNCHANGED <<down, udm_ctx>>
    BY <1>4 DEF HandleAutn, udmVars
  <2>2. \/ AmfGoto(w, "security_cmd") \/ AmfReturn(w)
        \/ UNCHANGED amf /\ amf[w].pc = "autn"
    BY <1>4 DEF HandleAutn, IfKnown, AmfAt
  <2>. QED  BY <1>b, <1>c, <1>d, <2>1, <2>2 DEF CompletePcs, DetachPcs
<1>5. CASE SecurityModeCmd(w)
  <2>0. GutiOf(w) = Guti(n) /\ Guti(n) # 0 /\ Guti(n) \in Imsis
    BY <1>0, <1>5, HandlerId, OwnFacts DEF Grants, SecurityModeCmd, AmfAt, AutnPcs
  <2>1. /\ UNCHANGED down /\ SetCrypt(Guti(n))
        /\ amf' = [amf EXCEPT ![w] = [@ EXCEPT !.guti = Guti(n), !.pc = "integrity"]]
    BY <1>5, <2>0 DEF SecurityModeCmd, IfKnown
  <2>2. amf'[w].pc = "integrity"
    BY <1>0, <2>1 DEF AmfStates
  <2>3. StaysStored(n)
    BY <1>0, <2>0, <2>1, QuietUdm
  <2>. QED  BY <1>a, <2>1, <2>2, <2>3, QuietGrants DEF CompletePcs, DetachPcs
<1>6. CASE SetIntegrityContext(w)
  <2>1. UNCHANGED down /\ AmfGoto(w, "security_send") /\ SetIntegrity(amf[w].guti)
    BY <1>6 DEF SetIntegrityContext
  <2>2. amf[w].guti = Guti(n) /\ Guti(n) \in Imsis
    BY <1>0, <1>6, OwnFacts DEF SetIntegrityContext, AmfAt, ServiceOK, WorkerOK,
                                ServesAutn, AutnPcs
  <2>3. StaysStored(n)
    BY <1>0, <2>1, <2>2, QuietUdm
  <2>. QED  BY <1>a, <1>b, <2>1, <2>3, QuietGrants DEF CompletePcs, DetachPcs
<1>7. CASE SendSecurityModeCmd(w)
  <2>1. AmfReturn(w) /\ UNCHANGED udm_ctx
    BY <1>7 DEF SendSecurityModeCmd, udmVars
  <2>2. ran[n].pc # "session"
    BY <1>7, HandlerPhase DEF Grants, SendSecurityModeCmd, AmfAt, AutnPcs
  <2>3. StaysStored(n)
    BY <1>0, <2>1, UdmStays
  <2>. QED  BY <1>a, <1>c, <2>1, <2>2, <2>3, QuietGrants
<1>8. CASE SecurityModeComplete(w)
  <2>1. UNCHANGED <<down, udm_ctx>>
    BY <1>8 DEF SecurityModeComplete, udmVars
  <2>2. \/ AmfGoto(w, "location") \/ AmfReturn(w)
        \/ UNCHANGED amf /\ amf[w].pc = "security_complete"
    BY <1>8 DEF SecurityModeComplete, IfKnown, AmfAt
  <2>. QED  BY <1>b, <1>c, <1>d, <2>1, <2>2 DEF CompletePcs, DetachPcs
<1>9. CASE LocationUpdate(w)
  <2>1. /\ UNCHANGED <<down, udm_ctx>>
        /\ \/ \E g, i : amf' = [amf EXCEPT ![w] =
                  [@ EXCEPT !.guti = g, !.imsi = i, !.pc = "loc_delete"]]
           \/ UNCHANGED amf /\ amf[w].pc = "location"
    BY <1>9 DEF LocationUpdate, IfKnown, udmVars, AmfAt
  <2>2. amf'[w].pc \in {"loc_delete", "location"}
    BY <1>0, <2>1 DEF AmfStates
  <2>. QED  BY <1>d, <2>1, <2>2 DEF CompletePcs, DetachPcs
<1>10. CASE LocationDelete(w) \/ LocationInsert(w)
  <2>1. /\ UNCHANGED <<down, udm_ctx>>
        /\ AmfGoto(w, "loc_insert") \/ AmfGoto(w, "session")
    BY <1>10 DEF LocationDelete, LocationInsert, DeleteLocInfo, InsertLocInfo
  <2>. QED  BY <1>b, <1>d, <2>1 DEF CompletePcs, DetachPcs
<1>11. CASE RemItfid(w) \/ RemUectx(w)
  <2>1. UNCHANGED <<down, udm_ctx>> /\ (AmfGoto(w, "rem_uectx") \/ AmfReturn(w))
    BY <1>11 DEF RemItfid, RemUectx, udmVars
  <2>. QED  BY <1>b, <1>c, <1>d, <2>1 DEF CompletePcs, DetachPcs
<1>. QED  BY <1>1, <1>2, <1>3, <1>4, <1>5, <1>6, <1>7, <1>8, <1>9, <1>10, <1>11

\* handle_create_session asks for the teid made from the subscriber's own GUTI.
LEMMA CreateSessionBeginGrants ==
    ASSUME NEW w, NEW n, Grants(w, n), CreateSessionBegin(w)
    PROVE  GrantsOK'
<1>0. /\ TypeOK /\ w \in Workers /\ n \in Ues /\ amf[w].pc = "session" /\ Handles(w, n)
      /\ n = amf[w].ue /\ amf[w] \in AmfStates /\ amf \in [Workers -> AmfStates]
      /\ smf \in [Workers -> SmfStates] /\ UNCHANGED <<ran, down>>
  BY DEF Grants, Handles, TypeOK, AmfTypeOK, SmfTypeOK, CreateSessionBegin, AmfAt
<1>1. GutiOf(w) = Guti(n) /\ Guti(n) # 0 /\ Guti(n) \in Imsis
  BY <1>0, HandlerId, OwnFacts DEF SessionPcs
<1>2. /\ HandleCreateSessionBegin(Guti(n), Teid(n))
      /\ amf' = [amf EXCEPT ![w] = [@ EXCEPT !.guti = Guti(n), !.pc = "session_end"]]
      /\ \E i : CallSmf(w, "create", Guti(n), i, Teid(n))
  BY <1>1 DEF CreateSessionBegin, IfKnown, Teid
<1>3. StaysStored(n)
  BY <1>0, <1>1, <1>2, QuietUdm
<1>4. amf'[w].pc = "session_end" /\ amf'[w].ue = n
  BY <1>0, <1>2 DEF AmfStates
<1>5. smf'[w].pc = "call" /\ smf'[w].asked = Teid(n)
  BY <1>0, <1>2 DEF CallSmf, IdleSmf
<1>6. HandlerGrantOK(w)' /\ CallGrantOK(w)'
  BY <1>4, <1>5 DEF HandlerGrantOK, CallGrantOK, CompletePcs, DetachPcs
<1>7. Accepted(n)' => Stored(n)'
  BY <1>0, <1>3 DEF Grants, GrantsOK, GrantOK, StaysStored, Accepted
<1>. QED  BY <1>3, <1>6, <1>7, HandlerGrants

\* What the UDM is told when the session is accepted it has been told before.
LEMMA CreateSessionEndGrants ==
    ASSUME NEW w, NEW n, Grants(w, n), CreateSessionEnd(w)
    PROVE  GrantsOK'
<1>0. /\ TypeOK /\ w \in Workers /\ n \in Ues /\ amf[w].pc = "session_end"
      /\ n = amf[w].ue /\ amf \in [Workers -> AmfStates] /\ ServiceOK(w)
      /\ smf[w].pc = "done" /\ ReturnFromSmf(w) /\ AmfReturn(w)
      /\ CallGrantOK(w) /\ GrantsOK
  BY DEF Grants, Handles, TypeOK, AmfTypeOK, CreateSessionEnd, AmfAt, GrantsOK
<1>1. smf[w].guti = Guti(n) /\ smf[w].typ = "create"
  BY <1>0 DEF ServiceOK, CallOK
<1>2. smf[w].ip = IpAddr(Imsi(n)) /\ smf[w].ul = Teid(n) /\ Stored(n)
  BY <1>0, <1>1 DEF CallGrantOK
<1>3. \E s, v : udm_ctx' = [udm_ctx EXCEPT ![Guti(n)] =
                  [@ EXCEPT !.s11_cteid_upf = s, !.ip_addr = IpAddr(Imsi(n)),
                            !.s1_uteid_ul = Teid(n), !.tau_timer = v]]
  BY <1>1, <1>2 DEF CreateSessionEnd, HandleCreateSessionEnd
<1>4. /\ udm_ctx'[Guti(n)].s11_cteid_sgw = udm_ctx[Guti(n)].s11_cteid_sgw
      /\ udm_ctx'[Guti(n)].s1_uteid_dl = udm_ctx[Guti(n)].s1_uteid_dl
      /\ udm_ctx'[Guti(n)].s1_uteid_ul = Teid(n)
      /\ udm_ctx'[Guti(n)].ip_addr = IpAddr(Imsi(n))
  <2>1. /\ udm_ctx \in [Imsis -> UdmContexts] /\ Guti(n) \in Imsis
        /\ udm_ctx[Guti(n)] \in UdmContexts
    BY <1>0, OwnFacts DEF TypeOK, UdmTypeOK
  <2>. QED  BY <1>3, <2>1 DEF UdmContexts
<1>5. StaysStored(n) /\ Stored(n)'
  BY <1>2, <1>4 DEF StaysStored, Stored
<1>6. smf'[w].pc = "idle" /\ amf'[w].pc = "idle"
  BY <1>0, SmfReturned DEF AmfReturn, IdleAmf
<1>7. HandlerGrantOK(w)' /\ CallGrantOK(w)'
  BY <1>6 DEF HandlerGrantOK, CallGrantOK, CompletePcs, DetachPcs
<1>. QED  BY <1>5, <1>7, HandlerGrants

\* The downlink teid of the attach complete is the one that was granted.
LEMMA AttachCompleteGrants ==
    ASSUME NEW w, NEW n, Grants(w, n), AttachComplete(w)
    PROVE  GrantsOK'
<1>0. /\ TypeOK /\ w \in Workers /\ n \in Ues /\ amf[w].pc = "attach_complete"
      /\ Handles(w, n) /\ n = amf[w].ue /\ ServiceOK(w)
      /\ HandlerGrantOK(w) /\ UNCHANGED <<ran, down, smf>>
  BY DEF Grants, Handles, AttachComplete, AmfAt, GrantsOK, smfVars
<1>1. GutiOf(w) = Guti(n) /\ Guti(n) # 0
  BY <1>0, HandlerId, OwnFacts DEF CompletePcs
<1>2. Stored(n) /\ amf[w].arg = Teid(n)
  BY <1>0 DEF HandlerGrantOK, CompletePcs
<1>3. AmfGoto(w, "modify") /\ UpdateAttachComplete(Guti(n), Teid(n))
  BY <1>1, <1>2 DEF AttachComplete, IfKnown
<1>4. /\ udm_ctx'[Guti(n)].s11_cteid_sgw = udm_ctx[Guti(n)].s11_cteid_sgw
      /\ udm_ctx'[Guti(n)].s1_uteid_dl = Teid(n)
      /\ udm_ctx'[Guti(n)].s1_uteid_ul = udm_ctx[Guti(n)].s1_uteid_ul
      /\ udm_ctx'[Guti(n)].ip_addr = udm_ctx[Guti(n)].ip_addr
  <2>1. /\ udm_ctx \in [Imsis -> UdmContexts] /\ Guti(n) \in Imsis
        /\ udm_ctx[Guti(n)] \in UdmContexts
    BY <1>0, OwnFacts DEF TypeOK, UdmTypeOK
  <2>. QED  BY <1>3, <2>1 DEF UpdateAttachComplete, UdmContexts
<1>5. StaysStored(n) /\ Stored(n)'
  BY <1>2, <1>4 DEF StaysStored, Stored
<1>6. smf'[w].pc = "idle" /\ amf'[w].pc = "modify" /\ amf'[w].ue = n
  BY <1>0, <1>3, NoCall, GotoFields
<1>7. HandlerGrantOK(w)' /\ CallGrantOK(w)'
  BY <1>4, <1>5, <1>6 DEF HandlerGrantOK, CallGrantOK, CompletePcs, DetachPcs
<1>. QED  BY <1>5, <1>7, HandlerGrants

\* handle_modify_bearer and handle_detach call the SMF when what it will read
\* at the UDM is there.
LEMMA BearerBeginGrants ==
    ASSUME NEW w, NEW n, Grants(w, n), ModifyBearerBegin(w) \/ DetachBegin(w)
    PROVE  GrantsOK'
<1>0. /\ TypeOK /\ w \in Workers /\ n \in Ues /\ amf[w].pc \in {"modify", "detach"}
      /\ Handles(w, n) /\ n = amf[w].ue /\ amf[w] \in AmfStates
      /\ amf \in [Workers -> AmfStates] /\ smf \in [Workers -> SmfStates]
      /\ HandlerGrantOK(w) /\ UNCHANGED <<ran, down>>
      /\ amf[w].pc = "modify" <=> ModifyBearerBegin(w)
  BY DEF Grants, Handles, ModifyBearerBegin, DetachBegin, AmfAt, GrantsOK, TypeOK,
         AmfTypeOK, SmfTypeOK
<1>1. GutiOf(w) = Guti(n) /\ Guti(n) # 0 /\ Guti(n) \in Imsis
  BY <1>0, HandlerId, OwnFacts DEF CompletePcs, DetachPcs
<1>2. /\ HandleModifyBearer(Guti(n)) \/ UNCHANGED udm_ctx
      /\ \E g, pc : /\ amf' = [amf EXCEPT ![w] = [@ EXCEPT !.guti = g, !.pc = pc]]
                    /\ \/ pc = "modify_end" /\ amf[w].pc = "modify"
                       \/ pc = "detach_end" /\ amf[w].pc = "detach"
      /\ \E typ, g : CallSmf(w, typ, g, 0, 0) /\ typ # "create"
  <2>1. CASE ModifyBearerBegin(w)
    BY <1>0, <1>1, <2>1 DEF ModifyBearerBegin, IfKnown
  <2>2. CASE DetachBegin(w)
    <3>1. /\ UNCHANGED udm_ctx /\ amf[w].pc = "detach"
          /\ CallSmf(w, "release", amf[w].arg, 0, 0)
          /\ amf' = [amf EXCEPT ![w] =
                        [@ EXCEPT !.guti = amf[w].arg, !.pc = "detach_end"]]
      BY <1>1, <2>2 DEF DetachBegin, IfKnown, udmVars, AmfAt
    <3>2. PICK g : g = amf[w].arg
      OBVIOUS
    <3>3. /\ amf' = [amf EXCEPT ![w] = [@ EXCEPT !.guti = g, !.pc = "detach_end"]]
          /\ CallSmf(w, "release", g, 0, 0)
      BY <3>1, <3>2
    <3>4. \E typ, h : CallSmf(w, typ, h, 0, 0) /\ typ # "create"
      BY <3>3
    <3>. QED  BY <3>1, <3>3, <3>4
  <2>. QED  BY <2>1, <2>2
<1>3. StaysStored(n)
  BY <1>0, <1>1, <1>2, QuietUdm
<1>4. Stored(n)'
  BY <1>0, <1>3 DEF HandlerGrantOK, CompletePcs, DetachPcs, StaysStored
<1>5. /\ amf'[w].ue = n
      /\ \/ amf'[w].pc = "modify_end" /\ amf[w].pc = "modify"
         \/ amf'[w].pc = "detach_end" /\ amf[w].pc = "detach"
  BY <1>0, <1>2 DEF AmfStates
<1>6. smf'[w].pc = "call" /\ smf'[w].typ # "create"
  BY <1>0, <1>2 DEF CallSmf, IdleSmf
<1>7. HandlerGrantOK(w)'
  <2>1. amf[w].pc = "modify" => udm_ctx'[Guti(n)].s1_uteid_dl = Teid(n)
    BY <1>0, <1>3 DEF HandlerGrantOK, StaysStored
  <2>. QED  BY <1>4, <1>5, <2>1 DEF HandlerGrantOK
<1>8. CallGrantOK(w)'
  BY <1>6 DEF CallGrantOK
<1>. QED  BY <1>3, <1>4, <1>7, <1>8, HandlerGrants

\* The responses of the SMF to these two change nothing at the UDM.
LEMMA BearerEndGrants ==
    ASSUME NEW w, NEW n, Grants(w, n), ModifyBearerEnd(w) \/ DetachEnd(w)
    PROVE  GrantsOK'
<1>0. /\ TypeOK /\ w \in Workers /\ n \in Ues /\ n = amf[w].ue /\ Handles(w, n)
      /\ amf \in [Workers -> AmfStates] /\ ReturnFromSmf(w)
      /\ UNCHANGED udm_ctx /\ (AmfReturn(w) \/ AmfGoto(w, "rem_itfid"))
  BY DEF Grants, Handles, TypeOK, AmfTypeOK, ModifyBearerEnd, DetachEnd, udmVars
<1>1. StaysStored(n)
  BY <1>0, UdmStays
<1>2. smf'[w].pc = "idle"
  BY <1>0, SmfReturned
<1>3. amf'[w].pc \notin CompletePcs \cup DetachPcs
  <2>1. amf'[w].pc \in {"idle", "rem_itfid"}
    BY <1>0, GotoFields DEF AmfReturn, IdleAmf
  <2>. QED  BY <2>1 DEF CompletePcs, DetachPcs
<1>4. UNCHANGED down \/ ran[n].pc # "session"
  <2>1. CASE ModifyBearerEnd(w)
    BY <2>1 DEF ModifyBearerEnd
  <2>2. CASE DetachEnd(w)
    BY <1>0, <2>2, HandlerPhase DEF DetachEnd, AmfAt, DetachPcs
  <2>. QED  BY <2>1, <2>2
<1>. QED  BY <1>1, <1>2, <1>3, <1>4, QuietGrants

\* A message starts its handler: an attach complete carries the teid that was
\* granted, and it and a detach come from a subscriber with a session.
LEMMA DeliverGrants ==
    ASSUME TypeOK, GrantsOK, NEW w \in Workers, NEW n \in Ues, Delivers(w, n),
           SubscriberOK(n), ServiceOK(w), Running("amf"), UNCHANGED uplink_info
    PROVE  GrantsOK'
<1> USE DEF Delivers
<1>0. /\ up \in [Ues -> Seq(UplinkMessages)] /\ up[n] \in Seq(UplinkMessages)
      /\ amf \in [Workers -> AmfStates]
      /\ UNCHANGED <<ran, uplink_info, down, udm_ctx, smf>>
  BY DEF TypeOK, ServerTypeOK, AmfTypeOK
<1>1. up'[n] = Tail(up[n]) /\ \A k \in Ues \ {n} : up'[k] = up[k]
  BY <1>0
<1>2. /\ 1 \in DOMAIN up[n] /\ Head(up[n]) = up[n][1]
      /\ \A i \in DOMAIN Tail(up[n]) : i + 1 \in DOMAIN up[n] /\ Tail(up[n])[i] = up[n][i + 1]
  BY <1>0, TailItems
<1>3. \A m : (Stored(m)' <=> Stored(m)) /\ (Accepted(m)' <=> Accepted(m))
  BY <1>0 DEF Stored, Accepted
<1>4. ASSUME NEW m \in Ues PROVE GrantOK(m)'
  <2>1. GrantOK(m)
    BY DEF GrantsOK
  <2>2. \A i \in DOMAIN up'[m] : up'[m][i].typ = 4 => up'[m][i].arg = Teid(m)
    <3>1. CASE m = n
      BY <1>1, <1>2, <2>1, <3>1 DEF GrantOK
    <3>2. CASE m # n
      BY <1>1, <2>1, <3>2 DEF GrantOK
    <3>. QED  BY <3>1, <3>2
  <2>. QED  BY <1>0, <1>3, <2>1, <2>2 DEF GrantOK
<1>5. ASSUME NEW x \in Workers, x # w PROVE HandlerGrantOK(x)' /\ CallGrantOK(x)'
  <2>1. HandlerGrantOK(x) /\ CallGrantOK(x) /\ amf'[x] = amf[x]
    BY <1>0, <1>5 DEF GrantsOK
  <2>. QED  BY <1>0, <1>3, <2>1 DEF HandlerGrantOK, CallGrantOK
<1>6. CallGrantOK(w)'
  BY <1>0, NoCall DEF CallGrantOK
<1>7. HandlerGrantOK(w)'
  <2>1. PICK m : m = Head(up[n])
    OBVIOUS
  <2>2. /\ amf'[w].pc = HandlerOf(m)
        /\ HandlerOf(m) # "idle" => amf'[w].ue = n /\ amf'[w].arg = m.arg
    BY <1>0, <2>1 DEF IdleAmf
  <2>3. CASE HandlerOf(m) \in {"attach_complete", "detach"}
    <3>1. m.typ \in {4, 5} /\ (HandlerOf(m) = "attach_complete" => m.typ = 4)
      <4>1. m \in UplinkMessages
        BY <1>0, <1>2, <2>1
      <4>2. m.typ \in 1 .. 10
        BY <4>1 DEF UplinkMessages
      <4>. QED  BY <2>3, <4>2 DEF HandlerOf
    <3>2. ran[n].pc \in {"data", "detach"}
      BY <1>0, <1>2, <2>1, <3>1 DEF SubscriberOK, UplinkOK, UplinkShape, Just
    <3>3. Stored(n) /\ (m.typ = 4 => m.arg = Teid(n))
      BY <1>2, <2>1, <3>2 DEF GrantsOK, GrantOK
    <3>. QED  BY <1>3, <2>2, <2>3, <3>1, <3>3 DEF HandlerGrantOK
  <2>4. CASE HandlerOf(m) \notin {"attach_complete", "detach"}
    <3>1. HandlerOf(m) \notin CompletePcs \cup DetachPcs
      <4>1. m \in UplinkMessages
        BY <1>0, <1>2, <2>1
      <4>2. m.typ \in 1 .. 10
        BY <4>1 DEF UplinkMessages
      <4>. QED  BY <2>4, <4>2 DEF HandlerOf, CompletePcs, DetachPcs
    <3>. QED  BY <2>2, <3>1 DEF HandlerGrantOK, CompletePcs, DetachPcs
  <2>. QED  BY <2>3, <2>4
<1>. QED  BY <1>4, <1>5, <1>6, <1>7 DEF GrantsOK

\* A worker of the AMF keeps the link and the grants in order.
LEMMA AmfStepLinks ==
    ASSUME TypeOK, Placement, FreshIds, Agreement, LinkOK, GrantsOK, NoWrap',
           NEW w \in Workers, AmfStep(w)
    PROVE  LinkOK' /\ GrantsOK'
<1>0. /\ AmfWorker(w) /\ UNCHANGED <<ran, uplink_info>> /\ ServiceOK(w)
      /\ amf[w].ue \in Ues
  BY AmfStateType DEF AmfStep, ranVars, TypeOK, Agreement
<1>1. LinkOK'
  BY <1>0, AmfLink
<1>2. CASE AmfSelect(w) \/ AmfClose(w)
  <2>1. UNCHANGED <<ran, uplink_info, up, down, udm_ctx, amf, smf>>
    BY <1>0, <1>2 DEF AmfSelect, AmfClose, Select, CloseConn, linkVars, udmVars, smfVars,
                      amfVars
  <2>. QED  BY <1>1, <2>1, GrantsUntouched
<1>3. CASE HandleUe(w)
  <2>1. \E i \in DOMAIN conns[w] : Delivers(w, conns[w][i])
    BY <1>0, <1>3 DEF HandleUe, Delivers, AmfAt, udmVars, smfVars
  <2>2. conns[w] \in Seq(Ues)
    BY DEF TypeOK, ServerTypeOK
  <2>3. PICK n \in Ues : Delivers(w, n)
    BY <2>1, <2>2
  <2>. QED  BY <1>0, <1>1, <2>3, DeliverGrants DEF Agreement, Delivers
<1>4. CASE ~AmfSelect(w) /\ ~AmfClose(w) /\ ~HandleUe(w)
  <2>1. PICK n \in Ues : n = amf[w].ue
    BY <1>0
  <2>2. Handles(w, n)
    <3>1. amf[w].pc # "idle" /\ Running("amf")
      BY <1>0, <1>4 DEF AmfWorker, InitialAttach, AttachInit, AttachAuth, HandleAutn,
         SecurityModeCmd, SetIntegrityContext, SendSecurityModeCmd,
         SecurityModeComplete, LocationUpdate, LocationDelete, LocationInsert,
         CreateSessionBegin, CreateSessionEnd, AttachComplete, ModifyBearerBegin,
         ModifyBearerEnd, DetachBegin, DetachEnd, RemItfid, RemUectx, AmfAt
    <3>2. UNCHANGED up
      BY <1>0, <1>4 DEF AmfWorker, InitialAttach, AttachInit, AttachAuth, HandleAutn,
         SecurityModeCmd, SetIntegrityContext, SendSecurityModeCmd,
         SecurityModeComplete, LocationUpdate, LocationDelete, LocationInsert,
         CreateSessionBegin, CreateSessionEnd, AttachComplete, ModifyBearerBegin,
         ModifyBearerEnd, DetachBegin, DetachEnd, RemItfid, RemUectx, localFrame
    <3>. QED  BY <1>0, <2>1, <3>1, <3>2 DEF Handles, Agreement
  <2>3. Grants(w, n)
    BY <1>0, <2>2, HandlerStepKeeps DEF Grants
  <2>. QED
    BY <1>0, <1>1, <1>4, <2>3, QuietHandlers, CreateSessionBeginGrants,
       CreateSessionEndGrants, AttachCompleteGrants, BearerBeginGrants, BearerEndGrants
       DEF AmfWorker
<1>. QED  BY <1>1, <1>2, <1>3, <1>4

----------------------------------------------------------------------------
(* The simulator                                                           *)

\* A thread of the simulator learns what was granted, and says the teid it
\* learned; the address it is given is its own, so it writes no other entry of
\* the uplink table.
LEMMA RanStepLinks ==
    ASSUME TypeOK, Placement, Agreement, LinkOK, GrantsOK, NEW n \in Ues, RanStep(n)
    PROVE  LinkOK' /\ GrantsOK'
<1>0. /\ RanThread(n) /\ UNCHANGED <<upf, n4_req, n4_rsp, udm_ctx, smf, amf>>
      /\ \A m \in Ues \ {n} : ran'[m] = ran[m] /\ up'[m] = up[m] /\ down'[m] = down[m]
      /\ SubscriberOK(n) /\ SubscriberOK(n)' /\ GrantOK(n)
      /\ ran \in [Ues -> RanContexts] /\ ran[n] \in RanContexts
      /\ up \in [Ues -> Seq(UplinkMessages)] /\ up[n] \in Seq(UplinkMessages)
      /\ down[n] \in Seq(DownlinkMessages)
      /\ uplink_info \in [Addresses -> Teids \cup {NoTeid}]
  <2>1. Agreement'
    BY RanStepAgrees
  <2>. QED  BY <2>1, RanSteps DEF RanStep, Agreement, GrantsOK, TypeOK, RanTypeOK,
               ServerTypeOK, upfVars, udmVars, smfVars, amfVars
<1>1. LinkOK'
  BY <1>0, LinkFrame DEF StillWaits, TypeOK
<1>2. \A m : Stored(m)' <=> Stored(m)
  BY <1>0 DEF Stored
<1>3. \A m \in Ues : IpAddr(Imsi(m)) \in Addresses
  BY IdentityTypes
<1>4. GrantOK(n)' /\ \A a \in Addresses \ {IpAddr(Imsi(n))} : uplink_info'[a] = uplink_info[a]
  <2>1. CASE SetEpsSession(n)
    <3>1. PICK m : m = Head(down[n])
      OBVIOUS
    <3>2. /\ ran[n].pc = "session" /\ down[n] # <<>>
          /\ uplink_info' = [uplink_info EXCEPT ![m.ip] = m.ul]
          /\ up' = [up EXCEPT ![n] = Append(@, [typ |-> 4,
                       mme |-> ran[n].mme_s1ap_ue_id, arg |-> m.ul])]
          /\ ran' = [ran EXCEPT ![n] =
                       [@ EXCEPT !.guti = m.guti, !.s1_uteid_ul = m.ul,
                                 !.s1_uteid_dl = m.ul, !.ip_addr = m.ip,
                                 !.pc = "data"]]
      BY <2>1, <3>1 DEF SetEpsSession, Received, SendUp
    <3>3. Stored(n) /\ AcceptOK(n, down[n][1]) /\ Just(down[n], 3)
      BY <1>0, <3>2 DEF GrantOK, Accepted, SubscriberOK, DownlinkOK
    <3>4. m.ip = IpAddr(Imsi(n)) /\ m.ul = Teid(n)
      BY <1>0, <3>1, <3>3, JustOne DEF AcceptOK, Stored
    <3>5. ran'[n].pc = "data"
      BY <1>0, <3>2 DEF RanContexts
    <3>6. /\ uplink_info'[IpAddr(Imsi(n))] = Teid(n)
          /\ \A a \in Addresses \ {IpAddr(Imsi(n))} : uplink_info'[a] = uplink_info[a]
      BY <1>0, <1>3, <3>2, <3>4
    <3>7. PICK e : /\ e = [typ |-> 4, mme |-> ran[n].mme_s1ap_ue_id, arg |-> Teid(n)]
                   /\ up'[n] = Append(up[n], e) /\ e.arg = Teid(n)
      BY <1>0, <3>2, <3>4
    <3>8. \A i \in DOMAIN up'[n] : up'[n][i].typ = 4 => up'[n][i].arg = Teid(n)
      BY <1>0, <3>7, AppendItems DEF GrantOK
    <3>. QED  BY <1>2, <3>3, <3>5, <3>6, <3>8 DEF GrantOK, Accepted
  <2>2. CASE ~SetEpsSession(n)
    <3>1. UNCHANGED uplink_info
      BY <1>0, <2>2 DEF RanThread, ConnMme, TimeExceeded, RanInitialAttach,
         RanAuthenticate, SetSecurity, RanDetach, DetachAccepted, ConnLost
    <3>a. ASSUME NEW e, e.typ # 4, up'[n] = up[n] \/ up'[n] = Append(up[n], e),
                 NEW pc, ran'[n].pc = pc, pc # "data",
                 pc = "detach" => ran[n].pc = "data",
                 pc = "session" => up'[n] = Append(up[n], e)
          PROVE  GrantOK(n)'
      <4>1. \A i \in DOMAIN up'[n] : up'[n][i].typ = 4 => up'[n][i].arg = Teid(n)
        <5>1. CASE up'[n] = up[n]
          BY <1>0, <5>1 DEF GrantOK
        <5>2. CASE up'[n] = Append(up[n], e)
          <6>1. \A i \in DOMAIN up'[n] : \/ i \in DOMAIN up[n] /\ up'[n][i] = up[n][i]
                                         \/ up'[n][i] = e
            BY <1>0, <5>2, AppendItems
          <6>. QED  BY <1>0, <3>a, <6>1 DEF GrantOK
        <5>. QED  BY <3>a, <5>1, <5>2
      <4>2. ~Accepted(n)'
        <5>1. pc = "session" => up'[n] # <<>>
          <6>1. DOMAIN <<>> = {} /\ Len(up[n]) + 1 \in DOMAIN Append(up[n], e)
            BY <1>0, AppendItems
          <6>. QED  BY <3>a, <6>1
        <5>. QED  BY <1>0, <3>a, <5>1 DEF SubscriberOK, DownlinkOK, Accepted
      <4>3. pc = "detach" => Stored(n)
        BY <1>0, <3>a DEF GrantOK
      <4>. QED  BY <1>2, <3>a, <4>1, <4>2, <4>3 DEF GrantOK
    <3> DEFINE Said(typ) == \E k, a : up' = [up EXCEPT ![n] =
                                         Append(@, [typ |-> typ, mme |-> k, arg |-> a])]
    <3>b. ASSUME NEW typ, typ # 4, NEW pc, ran'[n].pc = pc,
                 Said(typ) \/ (UNCHANGED up /\ pc # "session"),
                 pc # "data", pc = "detach" => ran[n].pc = "data"
          PROVE  GrantOK(n)'
      <4>1. CASE UNCHANGED up /\ pc # "session"
        <5>1. [typ |-> typ].typ # 4
          BY <3>b
        <5>. QED  BY <3>a, <3>b, <4>1, <5>1
      <4>2. CASE Said(typ)
        <5>1. PICK k, a, e : /\ e = [typ |-> typ, mme |-> k, arg |-> a]
                             /\ up' = [up EXCEPT ![n] = Append(@, e)]
          BY <4>2
        <5>2. e.typ # 4 /\ up'[n] = Append(up[n], e)
          BY <1>0, <3>b, <5>1
        <5>. QED  BY <3>a, <3>b, <5>2
      <4>. QED  BY <3>b, <4>1, <4>2
    <3> HIDE DEF Said
    <3>c. ASSUME NEW pc, RanGoto(n, pc) PROVE ran'[n].pc = pc
      BY <1>0, <3>c DEF RanGoto, RanContexts
    <3>2. CASE ConnMme(n) \/ TimeExceeded(n) \/ DetachAccepted(n) \/ ConnLost(n)
      <4>1. UNCHANGED up /\ \E pc \in {"start", "done", "failed"} : RanGoto(n, pc)
        BY <3>2 DEF ConnMme, TimeExceeded, DetachAccepted, ConnLost, linkVars
      <4>2. ran'[n].pc \in {"start", "done", "failed"}
        BY <3>c, <4>1
      <4>. QED  BY <3>b, <3>1, <4>1, <4>2
    <3>3. CASE RanInitialAttach(n)
      <4>1. Said(1) /\ ran'[n].pc = "autn"
        BY <1>0, <3>3 DEF Said, RanInitialAttach, SendUp, RanContexts
      <4>. QED  BY <3>b, <3>1, <4>1
    <3>4. CASE RanAuthenticate(n)
      <4>1. \/ /\ Said(2)
               /\ \E i, k : ran' = [ran EXCEPT ![n] =
                     [@ EXCEPT !.mme_s1ap_ue_id = i, !.k_asme = k, !.pc = "security"]]
            \/ /\ UNCHANGED up
               /\ \E i : ran' = [ran EXCEPT ![n] =
                     [@ EXCEPT !.mme_s1ap_ue_id = i, !.pc = "failed"]]
        BY <3>4 DEF Said, RanAuthenticate, SendUp
      <4>2. PICK pc \in {"security", "failed"} : ran'[n].pc = pc
        BY <1>0, <4>1 DEF RanContexts
      <4>3. Said(2) \/ UNCHANGED up
        BY <4>1
      <4>4. GrantOK(n)'
        BY <3>b, <4>2, <4>3
      <4>. QED  BY <3>1, <4>4
    <3>5. CASE SetSecurity(n)
      <4>1. /\ Said(3)
            /\ \E k : ran' = [ran EXCEPT ![n] = [@ EXCEPT !.k_nas = k, !.pc = "session"]]
        BY <3>5 DEF Said, SetSecurity, SendUp
      <4>2. ran'[n].pc = "session"
        BY <1>0, <4>1 DEF RanContexts
      <4>. QED  BY <3>b, <3>1, <4>1, <4>2
    <3>6. CASE RanDetach(n)
      <4>1. Said(5) /\ RanGoto(n, "detach") /\ ran[n].pc = "data"
        BY <3>6 DEF Said, RanDetach, SendUp
      <4>. QED  BY <3>b, <3>c, <3>1, <4>1
    <3>. QED  BY <1>0, <2>2, <3>1, <3>2, <3>3, <3>4, <3>5, <3>6 DEF RanThread
  <2>. QED  BY <2>1, <2>2
<1>5. GrantsOK'
  <2>1. ASSUME NEW m \in Ues, m # n PROVE GrantOK(m)'
    <3>1. GrantOK(m) /\ (Accepted(m)' <=> Accepted(m))
      BY <1>0, <2>1 DEF GrantsOK, Accepted
    <3>2. uplink_info'[IpAddr(Imsi(m))] = uplink_info[IpAddr(Imsi(m))]
      <4>1. IpAddr(Imsi(m)) # IpAddr(Imsi(n))
        BY <2>1, OwnFacts DEF IpAddr
      <4>. QED  BY <1>3, <1>4, <4>1
    <3>. QED  BY <1>0, <1>2, <2>1, <3>1, <3>2 DEF GrantOK
  <2>2. ASSUME NEW w \in Workers PROVE HandlerGrantOK(w)' /\ CallGrantOK(w)'
    <3>1. HandlerGrantOK(w) /\ CallGrantOK(w)
      BY DEF GrantsOK
    <3>. QED  BY <1>0, <1>2, <3>1 DEF HandlerGrantOK, CallGrantOK
  <2>. QED  BY <1>4, <2>1, <2>2 DEF GrantsOK
<1>. QED  BY <1>1, <1>5

----------------------------------------------------------------------------
(* The UPF, and what can go wrong outside the code                         *)

\* A thread of the UPF, or a loss, disturbs nothing but the link, and the link
\* stays in order.
LEMMA UpfStepLinks ==
    ASSUME TypeOK, LookupsOwned, LinkOK, GrantsOK,
           (\E t \in UpfThreads : UpfStep(t)) \/ Lose
    PROVE  LinkOK' /\ GrantsOK'
<1>1. UNCHANGED <<ran, uplink_info, up, down, udm_ctx, amf, smf>>
  BY DEF UpfStep, Lose, udmVars, smfVars, linkVars, amfVars, ranVars
<1>2. GrantsOK'
  BY <1>1, GrantsUntouched
<1>3. ASSUME NEW t \in UpfThreads, UpfStep(t) PROVE LinkOK'
  BY <1>1, <1>3, ReceiveLink, SendLink, ThreadLink DEF UpfStep, TypeOK
<1>4. CASE Lose
  BY <1>1, <1>2, <1>4, LoseLink DEF Lose, TypeOK
<1>. QED  BY <1>2, <1>3, <1>4

\* A context changes in the UPF alone, and its downlink when a modify bearer
\* brings the subscriber's own teid, or a release ends it.
LEMMA DownlinkStep ==
    ASSUME TypeOK, DownlinkOwn, Running("upf") => LinkOK /\ GrantsOK, [Next]_vars
    PROVE  DownlinkOwn'
<1>0. upf_ctx \in [Imsis -> UpfContexts]
  BY DEF TypeOK, UpfTypeOK
<1>1. UNCHANGED upf_ctx \/ \E t \in UpfThreads : UpfThread(t)
  <2>1. ASSUME NEW n \in Ues, RanStep(n) PROVE UNCHANGED upf_ctx
    BY <2>1 DEF RanStep, upfVars
  <2>2. ASSUME NEW w \in Workers, AmfStep(w) PROVE UNCHANGED upf_ctx
    BY <2>2 DEF AmfStep, AmfWorker, AmfSelect, AmfClose, HandleUe, InitialAttach,
         AttachInit, AttachAuth, HandleAutn, SecurityModeCmd, SetIntegrityContext,
         SendSecurityModeCmd, SecurityModeComplete, LocationUpdate, LocationDelete,
         LocationInsert, CreateSessionBegin, CreateSessionEnd, AttachComplete,
         ModifyBearerBegin, ModifyBearerEnd, DetachBegin, DetachEnd, RemItfid,
         RemUectx, localFrame, unusedByAmf, upfVars
  <2>3. ASSUME NEW w \in Workers, SmfStep(w) PROVE UNCHANGED upf_ctx
    BY <2>3 DEF SmfStep, SmfWorker, RequestCreate, RequestModify, RequestRelease,
         RcvAnswer, RcvTimeout, UpdateCreate, upfTables
  <2>4. CASE AcceptStep \/ Lose \/ AmfCrash \/ UNCHANGED vars
    BY <2>4 DEF AcceptStep, Lose, LoseRequest, LoseReply, AmfCrash, vars, upfVars,
                upfTables
  <2>. QED  BY <2>1, <2>2, <2>3, <2>4 DEF Next, UpfStep, Finished
<1>2. CASE UNCHANGED upf_ctx
  BY <1>2 DEF DownlinkOwn
<1>3. ASSUME NEW t \in UpfThreads, UpfThread(t), ~UNCHANGED upf_ctx PROVE DownlinkOwn'
  <2>0. PICK r \in UpfThreadStates : r = upf[t]
    BY DEF TypeOK, UpfTypeOK
  <2>1. CreateContext(t) \/ ModifyContext(t) \/ RemUpfContext(t)
    BY <1>3 DEF UpfThread, UpfReceive, UpfSend, CreateS11, CreateS1, CreateSgi,
       UpfLookup, DetachContext, DetachS11, DetachS1, DetachSgi, upfTables
  <2>2. CASE CreateContext(t)
    <3>1. \E a, b, c : upf_ctx' = [upf_ctx EXCEPT ![r.imsi] =
              [@ EXCEPT !.present = TRUE, !.ip_addr = a, !.s1_uteid_ul = b, !.s11_cteid = c]]
      BY <2>0, <2>2 DEF CreateContext
    <3>2. \A i \in Imsis : /\ upf_ctx'[i].enodeb = upf_ctx[i].enodeb
                           /\ upf_ctx'[i].s1_uteid_dl = upf_ctx[i].s1_uteid_dl
      BY <1>0, <3>1 DEF UpfContexts
    <3>. QED  BY <3>2 DEF DownlinkOwn
  <2>3. CASE ModifyContext(t)
    <3>1. /\ r.pc = "m_ctx" /\ Running("upf")
          /\ \E c \in Looked(r.imsi) : upf_ctx' = [upf_ctx EXCEPT ![r.imsi] =
                [c EXCEPT !.s1_uteid_dl = r.dl, !.enodeb = TRUE]]
      BY <2>0, <2>3 DEF ModifyContext
    <3>2. HandlerOK(t)
      BY <3>1 DEF LinkOK
    <3>3. r.dl = TeidOf(r.imsi)
      BY <2>0, <3>1, <3>2 DEF HandlerOK, AnsweringPcs
    <3>4. \A i \in Imsis : \/ i # r.imsi /\ upf_ctx'[i] = upf_ctx[i]
                           \/ i = r.imsi /\ upf_ctx'[i].s1_uteid_dl = TeidOf(r.imsi)
      <4>1. PICK c \in Looked(r.imsi) : upf_ctx' = [upf_ctx EXCEPT ![r.imsi] =
                [c EXCEPT !.s1_uteid_dl = r.dl, !.enodeb = TRUE]]
        BY <3>1
      <4>2. r.imsi \in Imsis => c \in UpfContexts
        BY <1>0, LookFinds
      <4>. QED  BY <1>0, <3>3, <4>1, <4>2 DEF UpfContexts
    <3>. QED  BY <3>4 DEF DownlinkOwn
  <2>4. CASE RemUpfContext(t)
    <3>1. upf_ctx' = [upf_ctx EXCEPT ![r.imsi] = NoUpfContext]
      BY <2>0, <2>4 DEF RemUpfContext
    <3>2. \A i \in Imsis : upf_ctx'[i] = upf_ctx[i] \/ upf_ctx'[i] = NoUpfContext
      BY <1>0, <3>1
    <3>3. NoUpfContext.enodeb = FALSE
      BY DEF NoUpfContext
    <3>. QED  BY <3>2, <3>3 DEF DownlinkOwn
  <2>. QED  BY <2>1, <2>2, <2>3, <2>4
<1>. QED  BY <1>1, <1>2, <1>3

----------------------------------------------------------------------------
(* The invariant                                                           *)

\* Who has given up waiting once has given up for ever.
LEMMA PromptBefore ==
    ASSUME TypeOK, [Next]_vars, Prompt'
    PROVE  Prompt
<1>0. timeouts \in Nat /\ timeouts' = 0
  BY MaxTimeoutsAssumption DEF TypeOK, SmfTypeOK, Prompt
<1>1. timeouts' = timeouts \/ timeouts' = timeouts + 1
  <2>1. ASSUME NEW n \in Ues, RanStep(n) PROVE UNCHANGED timeouts
    BY <2>1 DEF RanStep, smfVars
  <2>2. ASSUME NEW w \in Workers, AmfStep(w) PROVE UNCHANGED timeouts
    BY <2>2 DEF AmfStep, AmfWorker, AmfSelect, AmfClose, HandleUe, InitialAttach,
         AttachInit, AttachAuth, HandleAutn, SecurityModeCmd, SetIntegrityContext,
         SendSecurityModeCmd, SecurityModeComplete, LocationUpdate, LocationDelete,
         LocationInsert, CreateSessionBegin, CreateSessionEnd, AttachComplete,
         ModifyBearerBegin, ModifyBearerEnd, DetachBegin, DetachEnd, RemItfid,
         RemUectx, localFrame, unusedByAmf, smfVars
  <2>3. ASSUME NEW w \in Workers, SmfStep(w)
        PROVE  timeouts' = timeouts \/ timeouts' = timeouts + 1
    BY <2>3 DEF SmfStep, SmfWorker, RequestCreate, RequestModify, RequestRelease,
         RcvAnswer, RcvTimeout, UpdateCreate
  <2>4. ASSUME NEW t \in UpfThreads, UpfStep(t) PROVE UNCHANGED timeouts
    BY <2>4 DEF UpfStep, smfVars
  <2>5. CASE AcceptStep \/ Lose \/ AmfCrash \/ UNCHANGED vars
    BY <2>5 DEF AcceptStep, Lose, AmfCrash, vars, smfVars
  <2>. QED  BY <2>1, <2>2, <2>3, <2>4, <2>5 DEF Next, Finished
<1>. QED  BY <1>0, <1>1 DEF Prompt

\* An exit is for ever.
LEMMA ExitsStay ==
    ASSUME TypeOK, [Next]_vars
    PROVE  exited \subseteq exited'
<1>1. ASSUME NEW n \in Ues, RanStep(n) PROVE UNCHANGED exited
  BY <1>1, RanThreadType DEF RanStep, TypeOK
<1>2. ASSUME NEW w \in Workers, AmfStep(w) PROVE exited \subseteq exited'
  <2>1. CASE AmfSelect(w) \/ AmfClose(w) \/ HandleUe(w)
    BY <2>1 DEF AmfSelect, AmfClose, HandleUe
  <2>2. CASE ~(AmfSelect(w) \/ AmfClose(w) \/ HandleUe(w))
    BY <1>2, <2>2 DEF AmfStep, AmfWorker, InitialAttach, AttachInit, AttachAuth,
         HandleAutn, SecurityModeCmd, SetIntegrityContext,
         SendSecurityModeCmd, SecurityModeComplete, LocationUpdate, LocationDelete,
         LocationInsert, CreateSessionBegin, CreateSessionEnd, AttachComplete,
         ModifyBearerBegin, ModifyBearerEnd, DetachBegin, DetachEnd, RemItfid,
         RemUectx, IfKnown, Exit
  <2>. QED  BY <2>1, <2>2
<1>3. ASSUME NEW w \in Workers, SmfStep(w) PROVE exited \subseteq exited'
  BY <1>3 DEF SmfStep, SmfWorker, RequestCreate, RequestModify, RequestRelease,
       RcvAnswer, RcvTimeout, UpdateCreate, Exit
<1>4. ASSUME NEW t \in UpfThreads, UpfStep(t) PROVE exited \subseteq exited'
  BY <1>4, UpfExits DEF UpfStep
<1>5. CASE AcceptStep \/ Lose \/ AmfCrash \/ UNCHANGED vars
  BY <1>5 DEF AcceptStep, Lose, LoseRequest, LoseReply, AmfCrash, Exit, vars
<1>. QED  BY <1>1, <1>2, <1>3, <1>4, <1>5 DEF Next, Finished

\* At the start nothing was asked, and nothing granted.
LEMMA LinkInit == Init => LinkInv
<1>. SUFFICES ASSUME Init PROVE DownlinkOwn /\ LinkOK /\ GrantsOK
  BY DEF LinkInv
<1>1. /\ \A n \in Ues : ran[n].pc = "connect" /\ DOMAIN up[n] = {}
      /\ \A w \in Workers : /\ amf[w].pc = "idle" /\ smf[w].pc = "idle"
                            /\ n4_rsp[w] = <<>>
      /\ DOMAIN n4_req = {}
      /\ \A t \in UpfThreads : upf[t].pc = "idle"
      /\ \A i \in Imsis : ~upf_ctx[i].enodeb
  BY DEF Init, RanInit, NewRan, ServerInit, AmfInit, IdleAmf, SmfInit, IdleSmf, UpfInit,
         IdleThread, NoUpfContext
<1>2. DownlinkOwn
  BY <1>1 DEF DownlinkOwn
<1>3. LinkOK
  BY <1>1 DEF LinkOK, OneAtATime, Answering, AnsweringPcs, Queued, HandlerOK, ReplyOK
<1>4. GrantsOK
  BY <1>1 DEF GrantsOK, GrantOK, Accepted, HandlerGrantOK, CallGrantOK, CompletePcs,
              DetachPcs
<1>. QED  BY <1>2, <1>3, <1>4

\* Every step keeps the invariant: what an exit, a timeout or a wrapped counter
\* has ended stays ended.
LEMMA LinkStep ==
    ASSUME TypeOK, FreshIds, LookupInv, ConvInv, LinkInv, [Next]_vars
    PROVE  LinkInv'
<1>. SUFFICES ASSUME NoWrap', Prompt'
              PROVE  DownlinkOwn' /\ (Running("upf")' => LinkOK' /\ GrantsOK')
  BY DEF LinkInv
<1>1. Placement /\ Agreement /\ LookupsOwned
  BY WrapsOnce DEF ConvInv, LookupInv
<1>2. DownlinkOwn /\ (Running("upf") => LinkOK /\ GrantsOK)
  BY WrapsOnce, PromptBefore DEF LinkInv
<1>3. DownlinkOwn'
  BY <1>2, DownlinkStep
<1>4. ASSUME Running("upf")' PROVE LinkOK' /\ GrantsOK'
  <2>0. Running("upf") /\ LinkOK /\ GrantsOK
    BY <1>2, <1>4, ExitsStay DEF Running
  <2>1. ASSUME NEW n \in Ues, RanStep(n) PROVE LinkOK' /\ GrantsOK'
    BY <1>1, <2>0, <2>1, RanStepLinks
  <2>2. ASSUME NEW w \in Workers, AmfStep(w) PROVE LinkOK' /\ GrantsOK'
    BY <1>1, <2>0, <2>2, AmfStepLinks
  <2>3. ASSUME NEW w \in Workers, SmfStep(w) PROVE LinkOK' /\ GrantsOK'
    BY <1>1, <2>0, <2>3, SmfStepLinks
  <2>4. CASE (\E t \in UpfThreads : UpfStep(t)) \/ Lose
    BY <1>1, <2>0, <2>4, UpfStepLinks
  <2>5. CASE AcceptStep \/ AmfCrash \/ UNCHANGED vars
    <3>1. /\ UNCHANGED <<ran, uplink_info, up, down, udm_ctx, amf, smf>>
          /\ UNCHANGED <<upf, n4_req, n4_rsp>>
      BY <2>5 DEF AcceptStep, Accept, AmfCrash, vars, udmVars, upfVars, n4Vars, smfVars,
                  linkVars, amfVars, ranVars
    <3>2. \A w \in Workers : StillWaits(w)
      BY <3>1 DEF StillWaits
    <3>. QED  BY <2>0, <3>1, <3>2, LinkFrame, GrantsUntouched DEF TypeOK
  <2>. QED  BY <2>1, <2>2, <2>3, <2>4, <2>5 DEF Next, Finished
<1>. QED  BY <1>3, <1>4

\* Until the counter wraps or a worker of the SMF gives up: every request, every
\* handler of the UPF and every answer belong to one waiting call, of its type
\* (smf.cpp, the three handlers; upf.cpp, handle_smf), and the teids and the
\* address of a grant are the same at every place that stores them. No lost
\* datagram and no order of the UPF's threads changes that.
THEOREM LinkAgrees == Spec => []LinkInv
<1>1. TypeOK /\ FreshIds /\ LookupInv /\ ConvInv /\ LinkInv /\ [Next]_vars => LinkInv'
  BY LinkStep
<1>. QED
  BY <1>1, LinkInit, TypeCorrect, NextIdsFree, LookupHolds, ConversationAgrees,
     PTL DEF Spec

----------------------------------------------------------------------------
(* What the runs check on small instances                                  *)

\* A packet for an address leaves the UPF on the downlink teid of the UE that
\* has the address, however many threads the UPF has and whatever is lost.
THEOREM DownlinksIsolated == Spec => [](NoWrap /\ Prompt => DownlinkIsolation)
<1>1. TypeOK /\ LookupsOwned /\ LinkInv => (NoWrap /\ Prompt => DownlinkIsolation)
  <2>. SUFFICES ASSUME TypeOK, LookupsOwned, DownlinkOwn, NEW a \in Addresses,
                       sgi_id[a] # 0, HasDownlink(sgi_id[a])
                PROVE  /\ a = IpAddr(sgi_id[a])
                       /\ upf_ctx[sgi_id[a]].s1_uteid_dl = TeidOf(sgi_id[a])
    BY DEF LinkInv, DownlinkIsolation, DownlinkUe, TeidOf
  <2>1. sgi_id[a] \in Imsis
    BY DEF TypeOK, UpfTypeOK
  <2>. QED  BY <2>1 DEF LookupsOwned, DownlinkOwn, HasDownlink
<1>. QED  BY <1>1, LinkAgrees, LookupsSafe, TypeCorrect, PTL
=============================================================================
