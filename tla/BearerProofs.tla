----------------------------- MODULE BearerProofs -----------------------------
(***************************************************************************)
(* With one N4 thread BearerInv holds in every reachable state, for every  *)
(* number of subscribers and workers: the tables of the UPF are where      *)
(* everyone who relies on them takes them to be.  RecordInv holds in every *)
(* reachable state whatever the UPF does.  What the core promises of its   *)
(* sessions follows from the two, and that it implements Registration and  *)
(* Session.                                                                *)
(***************************************************************************)
EXTENDS LinkProofs, Refinement

USE UeCountAssumption, WorkerCountAssumption, IdSpaceAssumption

----------------------------------------------------------------------------
(* Steps that leave the tables alone                                       *)

\* A step makes nobody rely on the tables in a new way.
ClaimsKept(m) ==
    /\ ToBeAway(m)' => ToBeAway(m)
    /\ ToBeFull(m)' => ToBeFull(m)
    /\ ToBeActive(m)' => ToBeActive(m)

\* If the UPF and its tables stay as they are and nobody relies on them in a new
\* way, the tables are still where they should be.
LEMMA TablesFrame ==
    ASSUME BearerOK, UNCHANGED <<upf, upfTables>>,
           \A m \in Ues : ClaimsKept(m), \A w \in Workers : AnswerOK(w)'
    PROVE  BearerOK'
<1>1. \A m : (HasContext(m)' <=> HasContext(m)) /\ (NoContext(m)' <=> NoContext(m))
  BY DEF HasContext, NoContext, upfTables
<1>2. \A m, T : Entered(m, T)' <=> Entered(m, T)
  BY DEF Entered, upfTables
<1>3. \A m : /\ Leaving(m)' <=> Leaving(m)
             /\ Gone(m)' <=> Gone(m)
  BY <1>1, <1>2 DEF Leaving, Gone, Thread
<1>4. \A m : Full(m)' <=> Full(m)
  BY <1>1, <1>2, <1>3 DEF Full
<1>5. \A m : (Away(m)' <=> Away(m)) /\ (Active(m)' <=> Active(m))
  BY <1>3, <1>4 DEF Away, Active, upfTables
<1>6. \A m \in Ues : TablesOK(m)'
  BY <1>4, <1>5 DEF ClaimsKept, TablesOK, BearerOK
<1>7. \A m : /\ CreateOK(m)' <=> CreateOK(m)
             /\ RemovalOK(m)' <=> RemovalOK(m)
             /\ KeysInHand(m)' <=> KeysInHand(m)
  <2>1. \A m : KeysInHand(m)' <=> KeysInHand(m)
    BY DEF KeysInHand, Thread
  <2>2. \A m : CreateOK(m)' <=> CreateOK(m)
    BY <1>1, <1>2, <1>3, <1>4 DEF CreateOK, Thread
  <2>3. \A m : RemovalOK(m)' <=> RemovalOK(m)
    BY <1>2, <2>1 DEF RemovalOK, Thread
  <2>. QED  BY <2>1, <2>2, <2>3
<1>8. ThreadOK'
  BY <1>3, <1>5, <1>7 DEF ThreadOK, ThreadFor, BearerOK, Thread
<1>. QED  BY <1>6, <1>8 DEF BearerOK

\* What a worker is at stays, or less of it is outstanding.
CallStays(x) ==
    /\ amf'[x] = amf[x] /\ smf'[x] = smf[x]
    /\ Queued(x)' => Queued(x)
    /\ Answering(1, x)' => Answering(1, x)
    /\ n4_rsp'[x] # <<>> => n4_rsp[x] # <<>>

\* A worker whose call stays relies on what it has relied on.
LEMMA CallClaims ==
    ASSUME NEW x, CallStays(x)
    PROVE  /\ AwayFor(x)' => AwayFor(x)
           /\ FullFor(x)' => FullFor(x)
           /\ ActiveFor(x)' => ActiveFor(x)
<1>1. (Asking(x)' => Asking(x)) /\ (Handled(x)' => Handled(x)) /\ (Replied(x)' => Replied(x))
  BY DEF CallStays, Asking, Handled, Replied
<1>. QED  BY <1>1 DEF CallStays, AwayFor, FullFor, ActiveFor

\* So does a subscriber who is where it was, with those who serve it.
LEMMA ClaimsStay ==
    ASSUME NEW m, ran'[m] = ran[m], up'[m] = up[m], down'[m] = down[m],
           \A x \in Workers : Serves(x, m) \/ Serves(x, m)' => CallStays(x)
    PROVE  ClaimsKept(m)
<1>1. \A x \in Workers : Serves(x, m)' <=> Serves(x, m)
  BY DEF Serves, CallStays
<1>2. (InCreate(m)' <=> InCreate(m)) /\ (BeingServed(m)' <=> BeingServed(m))
  <2>1. InCreate(m)' <=> InCreate(m)
    BY <1>1 DEF InCreate, CallStays
  <2>2. BeingServed(m)' <=> BeingServed(m)
    BY <1>1 DEF BeingServed
  <2>. QED  BY <2>1, <2>2
<1>3. \A x \in Workers : Serves(x, m) =>
         /\ AwayFor(x)' => AwayFor(x)
         /\ FullFor(x)' => FullFor(x)
         /\ ActiveFor(x)' => ActiveFor(x)
  BY CallClaims
<1>4. /\ AwayPhase(m)' <=> AwayPhase(m)
      /\ Accepted(m)' <=> Accepted(m)
      /\ InSession(m)' <=> InSession(m)
      /\ Settled(m)' <=> Settled(m)
  BY <1>2 DEF AwayPhase, Accepted, InSession, Settled
<1>5. ToBeAway(m)' => ToBeAway(m)
  BY <1>1, <1>3, <1>4 DEF ToBeAway
<1>6. ToBeFull(m)' => ToBeFull(m)
  BY <1>1, <1>3, <1>4 DEF ToBeFull
<1>7. ToBeActive(m)' => ToBeActive(m)
  BY <1>1, <1>3, <1>4 DEF ToBeActive
<1>. QED  BY <1>5, <1>6, <1>7 DEF ClaimsKept

\* Worker w serves n or nobody, and nobody else serves n.
Alone(w, n) ==
    /\ amf[w].pc # "idle" => amf[w].ue = n
    /\ \A x \in Workers : Serves(x, n) => x = w

\* Two workers never serve one subscriber, as its connection is at one of them.
LEMMA ServesAlone ==
    ASSUME Placement, NEW w \in Workers, NEW n \in Ues, n \in ToSet(conns[w]),
           amf[w].pc # "idle" => amf[w].ue = n
    PROVE  Alone(w, n)
BY DEF Placement, ServesOwn, Homes, AtWorker, Alone, Serves

\* What n and the one worker that serves it rely on.
AwayAlone(w, n) == AwayPhase(n) \/ (amf[w].pc # "idle" /\ AwayFor(w))
FullAlone(w, n) ==
    Accepted(n) \/ InSession(n) \/ (amf[w].pc # "idle" /\ FullFor(w))
ActiveAlone(w, n) ==
    (InSession(n) /\ Settled(n)) \/ (amf[w].pc # "idle" /\ ActiveFor(w))

AloneKept(w, n) ==
    /\ AwayAlone(w, n)' => AwayAlone(w, n)
    /\ FullAlone(w, n)' => FullAlone(w, n)
    /\ ActiveAlone(w, n)' => ActiveAlone(w, n)

\* If only w serves n, those two are all who rely on its tables.
LEMMA ClaimsAlone ==
    ASSUME NEW w \in Workers, NEW n, Alone(w, n), Alone(w, n)', AloneKept(w, n)
    PROVE  ClaimsKept(n)
<1>1. \A x \in Workers : (Serves(x, n) <=> x = w /\ amf[w].pc # "idle")
  BY DEF Alone, Serves
<1>2. \A x \in Workers : (Serves(x, n)' <=> x = w /\ amf'[w].pc # "idle")
  BY DEF Alone, Serves
<1>3. ToBeAway(n)' => ToBeAway(n)
  BY <1>1, <1>2 DEF ToBeAway, AloneKept, AwayAlone
<1>4. ToBeFull(n)' => ToBeFull(n)
  BY <1>1, <1>2 DEF ToBeFull, AloneKept, FullAlone
<1>5. ToBeActive(n)' => ToBeActive(n)
  BY <1>1, <1>2 DEF ToBeActive, AloneKept, ActiveAlone
<1>. QED  BY <1>3, <1>4, <1>5 DEF ClaimsKept

----------------------------------------------------------------------------
(* The simulator                                                           *)

\* A step of a subscriber's thread makes it rely on no more than before: it
\* learns of a session when it has been accepted, it asks for the release behind
\* its attach complete, and it takes a bearer for gone when the release was
\* answered.
PhaseKept(n) ==
    /\ AwayPhase(n)' => AwayPhase(n)
    /\ Accepted(n)' \/ InSession(n)' => Accepted(n) \/ InSession(n)
    /\ InSession(n)' /\ Settled(n)' => InSession(n) /\ Settled(n)

LEMMA RanPhase ==
    ASSUME TypeOK, Placement, Agreement, NEW n \in Ues, RanStep(n)
    PROVE  PhaseKept(n)
<1>0. /\ RanThread(n) /\ UNCHANGED amf /\ SubscriberOK(n)
      /\ ran \in [Ues -> RanContexts] /\ ran[n] \in RanContexts
      /\ up \in [Ues -> Seq(UplinkMessages)] /\ up[n] \in Seq(UplinkMessages)
      /\ down \in [Ues -> Seq(DownlinkMessages)]
  BY DEF RanStep, amfVars, Agreement, TypeOK, RanTypeOK, ServerTypeOK
<1>1. (InCreate(n)' <=> InCreate(n)) /\ (BeingServed(n)' <=> BeingServed(n))
  BY <1>0 DEF InCreate, BeingServed, Serves
<1>2. DownlinkOK(n)
  BY <1>0 DEF SubscriberOK
<1>3. CASE ConnMme(n) \/ TimeExceeded(n) \/ RanInitialAttach(n) \/ ConnLost(n)
           \/ DetachAccepted(n)
  <2>1. /\ ran'[n].pc \in {"start", "autn", "done", "failed"}
        /\ ran'[n].pc # "failed" => \/ ran[n].pc \in {"connect", "start"}
                                    \/ ran[n].pc = "detach" /\ down[n] # <<>>
    <3>1. CASE ConnMme(n)
      BY <1>0, <3>1 DEF ConnMme, RanGoto
    <3>2. CASE TimeExceeded(n)
      BY <1>0, <3>2 DEF TimeExceeded, RanGoto
    <3>3. CASE RanInitialAttach(n)
      <4>1. ran'[n].pc = "autn" /\ ran[n].pc = "start"
        BY <1>0, <3>3 DEF RanInitialAttach
      <4>. QED  BY <4>1
    <3>4. CASE ConnLost(n)
      BY <1>0, <3>4 DEF ConnLost, RanGoto
    <3>5. CASE DetachAccepted(n)
      BY <1>0, <3>5 DEF DetachAccepted, RanGoto, Received
    <3>. QED  BY <1>3, <3>1, <3>2, <3>3, <3>4, <3>5
  <2>. QED  BY <2>1 DEF PhaseKept, AwayPhase, Accepted, InSession
<1>4. CASE RanAuthenticate(n) \/ SetSecurity(n)
  <2>1. /\ ran[n].pc \in {"autn", "security"}
        /\ ran'[n].pc \in {"security", "failed", "session"}
        /\ ran'[n].pc = "session" => SetSecurity(n)
    <3>1. CASE RanAuthenticate(n)
      <4>1. ran[n].pc = "autn"
        BY <3>1 DEF RanAuthenticate
      <4>2. ran'[n].pc \in {"security", "failed"}
        <5>1. \/ \E i, k : ran' = [ran EXCEPT ![n] = [@ EXCEPT !.mme_s1ap_ue_id = i,
                                          !.k_asme = k, !.pc = "security"]]
              \/ \E i : ran' = [ran EXCEPT ![n] = [@ EXCEPT !.mme_s1ap_ue_id = i,
                                          !.pc = "failed"]]
          BY <3>1 DEF RanAuthenticate
        <5>2. CASE \E i, k : ran' = [ran EXCEPT ![n] = [@ EXCEPT !.mme_s1ap_ue_id = i,
                                          !.k_asme = k, !.pc = "security"]]
          BY <1>0, <5>2 DEF RanContexts
        <5>3. CASE \E i : ran' = [ran EXCEPT ![n] = [@ EXCEPT !.mme_s1ap_ue_id = i,
                                          !.pc = "failed"]]
          BY <1>0, <5>3 DEF RanContexts
        <5>. QED  BY <5>1, <5>2, <5>3
      <4>. QED  BY <4>1, <4>2
    <3>2. CASE SetSecurity(n)
      <4>1. ran[n].pc = "security" /\ ran'[n].pc = "session"
        BY <1>0, <3>2 DEF SetSecurity
      <4>. QED  BY <3>2, <4>1
    <3>. QED  BY <1>4, <3>1, <3>2
  <2>2. ran'[n].pc = "session" => down'[n] = <<>>
    <3>1. CASE ran'[n].pc = "session"
      <4>1. /\ SetSecurity(n) /\ down[n] # <<>> /\ ran[n].pc = "security"
            /\ down' = [down EXCEPT ![n] = Tail(@)]
        BY <2>1, <3>1 DEF SetSecurity, Received
      <4>2. Just(down[n], 2)
        BY <1>2, <4>1 DEF DownlinkOK
      <4>. QED  BY <1>0, <4>1, <4>2, JustOne
    <3>. QED  BY <3>1
  <2>. QED  BY <2>1, <2>2 DEF PhaseKept, AwayPhase, Accepted, InSession
<1>5. CASE SetEpsSession(n)
  <2>1. /\ ran[n].pc = "session" /\ down[n] # <<>> /\ ran'[n].pc = "data"
        /\ \E m : m.typ = 4 /\ up' = [up EXCEPT ![n] = Append(@, m)]
    BY <1>0, <1>5 DEF SetEpsSession, RanContexts, SendUp, Received
  <2>2. PICK m : m.typ = 4 /\ up' = [up EXCEPT ![n] = Append(@, m)]
    BY <2>1
  <2>3. Len(up[n]) + 1 \in DOMAIN up'[n] /\ up'[n][Len(up[n]) + 1] = m
    BY <1>0, <2>2, AppendItems
  <2>. QED  BY <2>1, <2>2, <2>3 DEF PhaseKept, AwayPhase, Accepted, InSession, Settled
<1>6. CASE RanDetach(n)
  <2>1. /\ ran[n].pc = "data" /\ ran'[n].pc = "detach" /\ down'[n] = down[n]
        /\ \E m : up' = [up EXCEPT ![n] = Append(@, m)]
    BY <1>0, <1>6 DEF RanDetach, RanContexts, SendUp, RanGoto
  <2>2. PICK m : up' = [up EXCEPT ![n] = Append(@, m)]
    BY <2>1
  <2>3. \A i \in DOMAIN up[n] : i \in DOMAIN up'[n] /\ up'[n][i] = up[n][i]
    BY <1>0, <2>2, AppendItems
  <2>4. down[n] = <<>>
    BY <1>2, <2>1 DEF DownlinkOK
  <2>5. Settled(n)' => Settled(n)
    BY <1>1, <2>3 DEF Settled
  <2>. QED  BY <2>1, <2>4, <2>5 DEF PhaseKept, AwayPhase, Accepted, InSession
<1>. QED  BY <1>0, <1>3, <1>4, <1>5, <1>6 DEF RanThread

\* A thread of the simulator leaves the tables where everyone expects them.
LEMMA RanStepBearer ==
    ASSUME TypeOK, Placement, Agreement, BearerOK, NEW n \in Ues, RanStep(n)
    PROVE  BearerOK'
<1>0. /\ UNCHANGED <<amf, smf, upf, upfTables, n4_req, n4_rsp>> /\ RanThread(n)
      /\ \A m \in Ues \ {n} : ran'[m] = ran[m] /\ up'[m] = up[m] /\ down'[m] = down[m]
  BY RanSteps DEF RanStep, amfVars, smfVars, upfVars, upfTables
<1>1. \A x \in Workers : CallStays(x)
  BY <1>0 DEF CallStays, Queued, Answering
<1>2. \A m \in Ues \ {n} : ClaimsKept(m)
  BY <1>0, <1>1, ClaimsStay
<1>3. ClaimsKept(n)
  <2>1. \A x \in Workers : /\ Serves(x, n)' <=> Serves(x, n)
                           /\ AwayFor(x)' => AwayFor(x)
                           /\ FullFor(x)' => FullFor(x)
                           /\ ActiveFor(x)' => ActiveFor(x)
    BY <1>0, <1>1, CallClaims DEF Serves
  <2>. QED  BY <2>1, RanPhase DEF PhaseKept, ClaimsKept, ToBeAway, ToBeFull, ToBeActive
<1>4. \A w \in Workers : AnswerOK(w)'
  BY <1>0 DEF AnswerOK, BearerOK
<1>. QED  BY <1>0, <1>2, <1>3, <1>4, TablesFrame

----------------------------------------------------------------------------
(* The AMF                                                                 *)

\* Worker w is inside a handler for n whose step keeps the conversation.
Works(w, n) ==
    /\ Handles(w, n) /\ HandlerKeeps(w, n) /\ Placement /\ LinkOK /\ BearerOK
    /\ AmfWorker(w) /\ ~HandleUe(w) /\ ~AmfSelect(w) /\ ~AmfClose(w)

\* The AMF has no part in the N4 link or the tables of the UPF.
LEMMA AmfLeavesUpf ==
    ASSUME NEW w, AmfWorker(w)
    PROVE  UNCHANGED <<upf, upfTables, n4_req, n4_rsp>>
BY DEF AmfWorker, AmfSelect, AmfClose, HandleUe, InitialAttach, AttachInit,
       AttachAuth, HandleAutn, SecurityModeCmd, SetIntegrityContext,
       SendSecurityModeCmd, SecurityModeComplete, LocationUpdate, LocationDelete,
       LocationInsert, CreateSessionBegin, CreateSessionEnd, AttachComplete,
       ModifyBearerBegin, ModifyBearerEnd, DetachBegin, DetachEnd, RemItfid,
       RemUectx, localFrame, unusedByAmf, upfVars, upfTables

\* A step of one worker, whose subscriber and which itself rely on no more.
LEMMA WorkerBearer ==
    ASSUME BearerOK, UNCHANGED <<upf, upfTables, ran>>,
           NEW w \in Workers, NEW n \in Ues, Alone(w, n), Alone(w, n)',
           AloneKept(w, n), AnswerOK(w)',
           \A m \in Ues \ {n} : up'[m] = up[m] /\ down'[m] = down[m],
           \A x \in Workers \ {w} : /\ amf'[x] = amf[x] /\ smf'[x] = smf[x]
                                    /\ Queued(x)' => Queued(x)
                                    /\ n4_rsp'[x] = n4_rsp[x]
    PROVE  BearerOK'
<1>1. \A x \in Workers \ {w} : CallStays(x)
  BY DEF CallStays, Answering
<1>2. ASSUME NEW m \in Ues, m # n PROVE ClaimsKept(m)
  <2>1. ~Serves(w, m) /\ ~Serves(w, m)'
    BY <1>2 DEF Alone, Serves
  <2>. QED  BY <1>1, <1>2, <2>1, ClaimsStay
<1>3. ClaimsKept(n)
  BY ClaimsAlone
<1>4. \A x \in Workers : AnswerOK(x)'
  BY DEF BearerOK, AnswerOK
<1>. QED  BY <1>2, <1>3, <1>4, TablesFrame

\* Only w serves n, before and after a step of its handler.
LEMMA WorksAlone ==
    ASSUME NEW w, NEW n, Works(w, n)
    PROVE  Alone(w, n) /\ Alone(w, n)'
<1>0. /\ TypeOK /\ w \in Workers /\ n \in Ues /\ amf[w].pc # "idle" /\ amf[w].ue = n
      /\ Placement
  BY DEF Works, Handles
<1>1. n \in ToSet(conns[w])
  BY <1>0 DEF Placement, ServesOwn
<1>2. Alone(w, n)
  BY <1>0, <1>1, ServesAlone
<1>3. /\ \A x \in Workers \ {w} : amf'[x] = amf[x]
      /\ amf'[w].pc # "idle" => amf'[w].ue = n
  BY <1>0, WorkerSteps DEF Works
<1>. QED  BY <1>2, <1>3 DEF Alone, Serves

\* What a step of a handler for n has to show.
LEMMA HandlerBearer ==
    ASSUME NEW w, NEW n, Works(w, n), AloneKept(w, n),
           smf'[w] = smf[w] \/ (smf[w].pc # "wait" /\ smf'[w].pc # "done")
    PROVE  BearerOK'
<1>0. /\ TypeOK /\ w \in Workers /\ n \in Ues /\ LinkOK /\ BearerOK
      /\ UNCHANGED <<upf, upfTables, n4_req, n4_rsp, ran>>
      /\ \A m \in Ues \ {n} : up'[m] = up[m] /\ down'[m] = down[m]
  BY AmfLeavesUpf DEF Works, Handles, HandlerKeeps, Untouched
<1>1. Alone(w, n) /\ Alone(w, n)'
  BY WorksAlone
<1>2. \A x \in Workers \ {w} : /\ amf'[x] = amf[x] /\ smf'[x] = smf[x]
                               /\ Queued(x)' => Queued(x)
                               /\ n4_rsp'[x] = n4_rsp[x]
  BY <1>0, WorkerSteps DEF Works, Queued
<1>3. AnswerOK(w)'
  <2>1. CASE smf'[w] = smf[w]
    BY <1>0, <2>1 DEF BearerOK, AnswerOK
  <2>2. CASE smf[w].pc # "wait" /\ smf'[w].pc # "done"
    <3>1. n4_rsp[w] = <<>>
      BY <1>0, <2>2, NotWaiting DEF Free
    <3>. QED  BY <1>0, <2>2, <3>1 DEF AnswerOK
  <2>. QED  BY <2>1, <2>2
<1>. QED  BY <1>0, <1>1, <1>2, <1>3, WorkerBearer

\* Whom the worker of n is serving, before and after its step.
LEMMA WorksServed ==
    ASSUME NEW w, NEW n, Works(w, n)
    PROVE  /\ InCreate(n) <=> amf[w].pc = "session_end"
           /\ BeingServed(n)
           /\ InCreate(n)' <=> amf'[w].pc = "session_end"
           /\ BeingServed(n)' <=> amf'[w].pc # "idle"
BY WorksAlone DEF Works, Handles, Alone, Serves, InCreate, BeingServed

\* The steps of a handler at which its worker relies on the tables.
RelyingPcs == {"session_end", "attach_complete", "modify", "detach"}

\* A handler that has no call at the SMF and is at none of these steps.
LEMMA QuietBearer ==
    ASSUME NEW w, NEW n, Works(w, n), smf[w].pc = "idle", smf'[w] = smf[w],
           amf[w].pc \notin RelyingPcs, amf'[w].pc \notin RelyingPcs,
           ~InSession(n), down' = down \/ ran[n].pc \notin {"session", "detach"}
    PROVE  BearerOK'
<1>0. ran' = ran /\ up' = up
  BY DEF Works, Handles
<1>1. ~AwayFor(w)' /\ ~FullFor(w)' /\ ~ActiveFor(w)'
  BY DEF AwayFor, FullFor, ActiveFor, Asking, Handled, Replied, RelyingPcs
<1>2. AwayPhase(n)' => AwayPhase(n)
  BY <1>0, WorksServed DEF AwayPhase, RelyingPcs
<1>3. (Accepted(n)' => Accepted(n)) /\ ~InSession(n)'
  BY <1>0 DEF Accepted, InSession
<1>4. AloneKept(w, n)
  BY <1>1, <1>2, <1>3 DEF AloneKept, AwayAlone, FullAlone, ActiveAlone
<1>. QED  BY <1>4, HandlerBearer

\* Where the simulator is while each kind of handler works for it.
LEMMA WorksPhase ==
    ASSUME NEW w, NEW n, Works(w, n)
    PROVE  /\ amf[w].pc \in AttachPcs => ran[n].pc = "autn"
           /\ amf[w].pc \in AutnPcs => ran[n].pc = "security"
           /\ amf[w].pc \in SessionPcs => ran[n].pc = "session"
           /\ amf[w].pc \in AttachPcs \cup AutnPcs \cup SessionPcs \cup RemPcs =>
                 ~InSession(n)
<1>0. Handles(w, n) /\ DownlinkOK(n) /\ WorkerOK(w) /\ amf[w].ue = n
  BY DEF Works, Handles, SubscriberOK, ServiceOK
<1>1. amf[w].pc \in RemPcs => ~InSession(n)
  BY <1>0 DEF WorkerOK, RemovesFor, DownlinkOK, InSession
<1>. QED  BY <1>0, <1>1, HandlerPhase DEF InSession

\* The handlers of the attach up to the session, and the two removals.
LEMMA QuietHandlersBearer ==
    ASSUME NEW w, NEW n, Works(w, n),
           \/ InitialAttach(w) \/ AttachInit(w) \/ AttachAuth(w) \/ HandleAutn(w)
           \/ SecurityModeCmd(w) \/ SetIntegrityContext(w) \/ SendSecurityModeCmd(w)
           \/ SecurityModeComplete(w) \/ LocationUpdate(w) \/ LocationDelete(w)
           \/ LocationInsert(w) \/ RemItfid(w) \/ RemUectx(w)
    PROVE  BearerOK'
<1>0. /\ TypeOK /\ w \in Workers /\ n \in Ues /\ ServiceOK(w)
      /\ amf[w] \in AmfStates /\ amf \in [Workers -> AmfStates]
  BY DEF Works, Handles, TypeOK, AmfTypeOK
<1>1. /\ amf[w].pc \in AttachPcs \cup AutnPcs \cup SessionPcs \cup RemPcs
      /\ amf[w].pc \notin RelyingPcs /\ UNCHANGED smf
  BY DEF InitialAttach, AttachInit, AttachAuth, HandleAutn, SecurityModeCmd,
         SetIntegrityContext, SendSecurityModeCmd, SecurityModeComplete,
         LocationUpdate, LocationDelete, LocationInsert, RemItfid, RemUectx, smfVars,
         AmfAt, AttachPcs, AutnPcs, SessionPcs, RemPcs, RelyingPcs
<1>2. smf[w].pc = "idle"
  BY <1>0, <1>1, NoCall DEF AttachPcs, AutnPcs, SessionPcs, RemPcs, RelyingPcs
<1>3. down' = down \/ AttachAuth(w) \/ SendSecurityModeCmd(w)
  BY DEF InitialAttach, AttachInit, HandleAutn, SecurityModeCmd,
         SetIntegrityContext, SecurityModeComplete,
         LocationUpdate, LocationDelete, LocationInsert, RemItfid, RemUectx
<1>4. AttachAuth(w) \/ SendSecurityModeCmd(w) => ran[n].pc \notin {"session", "detach"}
  BY WorksPhase DEF AttachAuth, SendSecurityModeCmd, AmfAt, AttachPcs, AutnPcs
<1>5. amf'[w].pc \notin RelyingPcs
  <2>1. ASSUME NEW pc, AmfGoto(w, pc), pc \notin RelyingPcs PROVE amf'[w].pc \notin RelyingPcs
    BY <1>0, <2>1, GotoFields
  <2>2. ASSUME AmfReturn(w) PROVE amf'[w].pc \notin RelyingPcs
    BY <1>0, <2>2 DEF AmfReturn, IdleAmf, RelyingPcs
  <2>3. CASE InitialAttach(w)
    <3>1. \E i, g, s : amf' = [amf EXCEPT ![w] =
               [@ EXCEPT !.id = i, !.guti = g, !.imsi = s, !.pc = "attach_init"]]
      BY <2>3 DEF InitialAttach
    <3>2. amf'[w].pc = "attach_init"
      BY <1>0, <3>1 DEF AmfStates
    <3>. QED  BY <3>2 DEF RelyingPcs
  <2>4. CASE AttachInit(w) \/ AttachAuth(w)
    <3>1. AmfGoto(w, "attach_auth") \/ AmfReturn(w)
      BY <2>4 DEF AttachInit, AttachAuth
    <3>. QED  BY <2>1, <2>2, <3>1 DEF RelyingPcs
  <2>5. CASE HandleAutn(w) \/ SecurityModeComplete(w)
    <3>1. AmfGoto(w, "security_cmd") \/ AmfGoto(w, "location") \/ AmfReturn(w) \/ UNCHANGED amf
      BY <2>5 DEF HandleAutn, SecurityModeComplete, IfKnown
    <3>. QED  BY <1>1, <2>1, <2>2, <3>1 DEF RelyingPcs
  <2>6. CASE SecurityModeCmd(w)
    <3>1. \/ UNCHANGED amf
          \/ \E g : amf' = [amf EXCEPT ![w] = [@ EXCEPT !.guti = g, !.pc = "integrity"]]
      BY <2>6 DEF SecurityModeCmd, IfKnown
    <3>2. amf'[w].pc = "integrity" \/ amf'[w].pc = amf[w].pc
      BY <1>0, <3>1 DEF AmfStates
    <3>. QED  BY <1>1, <3>2 DEF RelyingPcs
  <2>7. CASE SetIntegrityContext(w) \/ SendSecurityModeCmd(w)
    <3>1. AmfGoto(w, "security_send") \/ AmfReturn(w)
      BY <2>7 DEF SetIntegrityContext, SendSecurityModeCmd
    <3>. QED  BY <2>1, <2>2, <3>1 DEF RelyingPcs
  <2>8. CASE LocationUpdate(w)
    <3>1. \/ UNCHANGED amf
          \/ \E g, s : amf' = [amf EXCEPT ![w] =
                           [@ EXCEPT !.guti = g, !.imsi = s, !.pc = "loc_delete"]]
      BY <2>8 DEF LocationUpdate, IfKnown
    <3>2. amf'[w].pc = "loc_delete" \/ amf'[w].pc = amf[w].pc
      BY <1>0, <3>1 DEF AmfStates
    <3>. QED  BY <1>1, <3>2 DEF RelyingPcs
  <2>9. CASE LocationDelete(w) \/ LocationInsert(w) \/ RemItfid(w) \/ RemUectx(w)
    <3>1. \/ AmfGoto(w, "loc_insert") \/ AmfGoto(w, "session")
          \/ AmfGoto(w, "rem_uectx") \/ AmfReturn(w)
      BY <2>9 DEF LocationDelete, LocationInsert, RemItfid, RemUectx
    <3>. QED  BY <2>1, <2>2, <3>1 DEF RelyingPcs
  <2>. QED  BY <2>3, <2>4, <2>5, <2>6, <2>7, <2>8, <2>9
<1>6. ~InSession(n)
  BY <1>1, WorksPhase
<1>. QED  BY <1>1, <1>2, <1>3, <1>4, <1>5, <1>6, QuietBearer

\* What a call begins with, and that the other fields of the worker stay.
LEMMA BeginsCall ==
    ASSUME NEW w, NEW n, Works(w, n),
           CreateSessionBegin(w) \/ ModifyBearerBegin(w) \/ DetachBegin(w)
    PROVE  /\ smf[w].pc = "idle" /\ smf'[w].pc = "call" /\ UNCHANGED down
           /\ CreateSessionBegin(w) =>
                 smf'[w].typ = "create" /\ amf'[w].pc = "session_end"
           /\ ModifyBearerBegin(w) =>
                 smf'[w].typ = "modify" /\ amf'[w].pc = "modify_end"
           /\ DetachBegin(w) =>
                 smf'[w].typ = "release" /\ amf'[w].pc = "detach_end"
<1>0. /\ TypeOK /\ w \in Workers /\ n \in Ues /\ ServiceOK(w) /\ Handles(w, n)
      /\ amf[w] \in AmfStates /\ amf \in [Workers -> AmfStates]
      /\ amf[w].pc \in {"session", "modify", "detach"}
  BY DEF Works, Handles, TypeOK, AmfTypeOK, CreateSessionBegin, ModifyBearerBegin,
         DetachBegin, AmfAt
<1>1. smf[w].pc = "idle" /\ UNCHANGED down
  BY <1>0, NoCall DEF CreateSessionBegin, ModifyBearerBegin, DetachBegin
<1>2. GutiOf(w) # 0
  BY <1>0, HandlerId DEF SessionPcs, CompletePcs, DetachPcs
<1>3. CASE CreateSessionBegin(w)
  <2>1. /\ \E g, i, t : CallSmf(w, "create", g, i, t)
        /\ \E g : amf' = [amf EXCEPT ![w] = [@ EXCEPT !.guti = g, !.pc = "session_end"]]
    BY <1>2, <1>3 DEF CreateSessionBegin, IfKnown
  <2>2. amf'[w].pc = "session_end"
    BY <1>0, <2>1 DEF AmfStates
  <2>3. amf[w].pc = "session"
    BY <1>3 DEF CreateSessionBegin, AmfAt
  <2>. QED  BY <1>0, <1>1, <2>1, <2>2, <2>3, CalledSmf DEF ModifyBearerBegin, DetachBegin, AmfAt
<1>4. CASE ModifyBearerBegin(w)
  <2>1. /\ \E g : CallSmf(w, "modify", g, 0, 0)
        /\ \E g : amf' = [amf EXCEPT ![w] = [@ EXCEPT !.guti = g, !.pc = "modify_end"]]
    BY <1>2, <1>4 DEF ModifyBearerBegin, IfKnown
  <2>2. amf'[w].pc = "modify_end"
    BY <1>0, <2>1 DEF AmfStates
  <2>3. amf[w].pc = "modify"
    BY <1>4 DEF ModifyBearerBegin, AmfAt
  <2>. QED  BY <1>0, <1>1, <2>1, <2>2, <2>3, CalledSmf DEF CreateSessionBegin, DetachBegin, AmfAt
<1>5. CASE DetachBegin(w)
  <2>1. /\ CallSmf(w, "release", amf[w].arg, 0, 0)
        /\ amf' = [amf EXCEPT ![w] = [@ EXCEPT !.guti = amf[w].arg, !.pc = "detach_end"]]
    BY <1>2, <1>5 DEF DetachBegin, IfKnown
  <2>2. amf'[w].pc = "detach_end"
    BY <1>0, <2>1 DEF AmfStates
  <2>3. amf[w].pc = "detach"
    BY <1>5 DEF DetachBegin, AmfAt
  <2>. QED  BY <1>0, <1>1, <2>1, <2>2, <2>3, CalledSmf DEF CreateSessionBegin, ModifyBearerBegin, AmfAt
<1>. QED  BY <1>3, <1>4, <1>5

\* A create is asked for while the tables have nothing of the subscriber.
LEMMA CreateSessionBeginBearer ==
    ASSUME NEW w, NEW n, Works(w, n), CreateSessionBegin(w)
    PROVE  BearerOK'
<1>1. /\ smf[w].pc = "idle" /\ smf'[w].pc = "call" /\ UNCHANGED <<down, ran, up>>
      /\ smf'[w].typ = "create" /\ amf'[w].pc = "session_end" /\ amf[w].pc = "session"
  BY BeginsCall DEF Works, Handles, CreateSessionBegin, AmfAt
<1>2. ran[n].pc = "session" /\ down[n] = <<>> /\ ~InSession(n)
  BY <1>1, WorksPhase, HandlerPhase DEF Works, SessionPcs, Quiescent
<1>3. AwayPhase(n)
  BY <1>1, <1>2, WorksServed DEF AwayPhase
<1>4. ~Accepted(n)' /\ ~InSession(n)'
  BY <1>1, <1>2 DEF Accepted, InSession
<1>5. ~FullFor(w)' /\ ~ActiveFor(w)'
  BY <1>1 DEF FullFor, ActiveFor, Replied
<1>6. AloneKept(w, n)
  BY <1>3, <1>4, <1>5 DEF AloneKept, AwayAlone, FullAlone, ActiveAlone
<1>. QED  BY <1>1, <1>6, HandlerBearer

\* The call of worker w has come back, and it was for this.
LEMMA EndsCall ==
    ASSUME NEW w, NEW n, Works(w, n),
           CreateSessionEnd(w) \/ ModifyBearerEnd(w) \/ DetachEnd(w)
    PROVE  /\ smf[w].pc = "done" /\ Replied(w) /\ smf'[w].pc = "idle"
           /\ CreateSessionEnd(w) => smf[w].typ = "create" /\ amf[w].pc = "session_end"
           /\ ModifyBearerEnd(w) => smf[w].typ = "modify" /\ amf[w].pc = "modify_end"
           /\ DetachEnd(w) => smf[w].typ = "release" /\ amf[w].pc = "detach_end"
           /\ amf'[w].pc \in {"idle", "rem_itfid"}
           /\ ~AwayFor(w)' /\ ~FullFor(w)' /\ ~ActiveFor(w)'
<1>0. TypeOK /\ w \in Workers /\ ServiceOK(w) /\ ReturnFromSmf(w) /\ smf[w].pc = "done"
  BY DEF Works, Handles, CreateSessionEnd, ModifyBearerEnd, DetachEnd
<1>1. smf'[w].pc = "idle"
  BY <1>0, SmfReturned
<1>2. /\ CreateSessionEnd(w) => smf[w].typ = "create" /\ amf[w].pc = "session_end"
      /\ ModifyBearerEnd(w) => smf[w].typ = "modify" /\ amf[w].pc = "modify_end"
      /\ DetachEnd(w) => smf[w].typ = "release" /\ amf[w].pc = "detach_end"
  BY <1>0 DEF ServiceOK, CallOK, CreateSessionEnd, ModifyBearerEnd, DetachEnd, AmfAt
<1>3. amf'[w].pc \in {"idle", "rem_itfid"}
  <2>1. AmfReturn(w) \/ AmfGoto(w, "rem_itfid")
    BY DEF CreateSessionEnd, ModifyBearerEnd, DetachEnd
  <2>2. amf \in [Workers -> AmfStates]
    BY <1>0 DEF TypeOK, AmfTypeOK
  <2>. QED  BY <1>0, <2>1, <2>2, GotoFields DEF AmfReturn, IdleAmf
<1>4. ~AwayFor(w)' /\ ~FullFor(w)' /\ ~ActiveFor(w)'
  BY <1>1, <1>3 DEF AwayFor, FullFor, ActiveFor, Asking, Handled, Replied
<1>. QED  BY <1>0, <1>1, <1>2, <1>3, <1>4 DEF Replied

\* The attach is accepted when the UPF has the session.
LEMMA CreateSessionEndBearer ==
    ASSUME NEW w, NEW n, Works(w, n), CreateSessionEnd(w)
    PROVE  BearerOK'
<1>1. /\ smf[w].pc = "done" /\ Replied(w) /\ smf'[w].pc = "idle" /\ UNCHANGED <<ran, up>>
      /\ smf[w].typ = "create" /\ amf[w].pc = "session_end"
      /\ ~AwayFor(w)' /\ ~ActiveFor(w)'
  BY EndsCall DEF Works, Handles
<1>2. ran[n].pc = "session" /\ down[n] = <<>>
  BY <1>1, HandlerPhase DEF Works, SessionPcs, Quiescent
<1>3. down'[n] # <<>>
  BY <1>2, SentDown DEF CreateSessionEnd, Works, Handles
<1>4. ~AwayPhase(n)' /\ ~InSession(n)'
  BY <1>1, <1>2, <1>3 DEF AwayPhase, InSession
<1>5. FullAlone(w, n)
  BY <1>1 DEF FullAlone, FullFor
<1>6. AloneKept(w, n)
  BY <1>1, <1>4, <1>5 DEF AloneKept, AwayAlone, ActiveAlone
<1>. QED  BY <1>1, <1>6, HandlerBearer

\* The attach complete and the modify bearer find the session at the UPF, and
\* leave it with its downlink.
LEMMA CompleteBearer ==
    ASSUME NEW w, NEW n, Works(w, n),
           AttachComplete(w) \/ ModifyBearerBegin(w) \/ ModifyBearerEnd(w)
    PROVE  BearerOK'
<1>0. /\ TypeOK /\ w \in Workers /\ n \in Ues /\ ServiceOK(w) /\ Handles(w, n)
      /\ amf[w].pc \in CompletePcs /\ UNCHANGED <<ran, up, down>>
  BY DEF Works, Handles, AttachComplete, ModifyBearerBegin, ModifyBearerEnd, AmfAt,
         CompletePcs
<1>1. ran[n].pc \in {"data", "detach"} /\ down[n] = <<>>
  BY <1>0, HandlerPhase
<1>2. ~AwayPhase(n)' /\ (Accepted(n)' <=> Accepted(n)) /\ (InSession(n)' <=> InSession(n))
  BY <1>0, <1>1 DEF AwayPhase, Accepted, InSession
<1>3. CASE AttachComplete(w)
  <2>1. amf[w].pc = "attach_complete" /\ GutiOf(w) # 0 /\ UNCHANGED smf
    BY <1>0, <1>3, HandlerId DEF AttachComplete, AmfAt, CompletePcs, smfVars
  <2>2. amf'[w].pc = "modify" /\ smf[w].pc = "idle"
    BY <1>0, <1>3, <2>1, GotoFields, NoCall DEF AttachComplete, IfKnown
  <2>3. BeingServed(n)'
    BY <2>2, WorksServed
  <2>4. FullFor(w) /\ ~AwayFor(w)' /\ ~ActiveFor(w)'
    BY <2>1, <2>2 DEF FullFor, AwayFor, ActiveFor, Asking, Handled, Replied
  <2>5. AloneKept(w, n)
    BY <1>2, <2>1, <2>3, <2>4 DEF AloneKept, AwayAlone, FullAlone, ActiveAlone, Settled
  <2>. QED  BY <2>1, <2>5, HandlerBearer
<1>4. CASE ModifyBearerBegin(w)
  <2>1. /\ smf[w].pc = "idle" /\ smf'[w].pc = "call" /\ amf[w].pc = "modify"
        /\ smf'[w].typ = "modify" /\ amf'[w].pc = "modify_end"
    BY <1>4, BeginsCall DEF ModifyBearerBegin, AmfAt
  <2>2. BeingServed(n)'
    BY <2>1, WorksServed
  <2>3. FullFor(w) /\ ~AwayFor(w)' /\ ~ActiveFor(w)'
    BY <2>1 DEF FullFor, AwayFor, ActiveFor, Asking, Handled, Replied
  <2>4. AloneKept(w, n)
    BY <1>2, <2>1, <2>2, <2>3 DEF AloneKept, AwayAlone, FullAlone, ActiveAlone, Settled
  <2>. QED  BY <2>1, <2>4, HandlerBearer
<1>5. CASE ModifyBearerEnd(w)
  <2>1. /\ smf[w].pc = "done" /\ Replied(w) /\ smf'[w].pc = "idle"
        /\ smf[w].typ = "modify" /\ amf[w].pc = "modify_end"
        /\ ~AwayFor(w)' /\ ~FullFor(w)'
    BY <1>5, EndsCall
  <2>2. ActiveAlone(w, n)
    BY <2>1 DEF ActiveAlone, ActiveFor
  <2>3. AloneKept(w, n)
    BY <1>2, <2>1, <2>2 DEF AloneKept, AwayAlone, FullAlone
  <2>. QED  BY <2>1, <2>3, HandlerBearer
<1>. QED  BY <1>3, <1>4, <1>5

\* A release is asked for while the session is there, and answered when the
\* UPF has no more than its removal to do.
LEMMA DetachBearer ==
    ASSUME NEW w, NEW n, Works(w, n), DetachBegin(w) \/ DetachEnd(w)
    PROVE  BearerOK'
<1>0. /\ Handles(w, n) /\ amf[w].pc \in DetachPcs /\ UNCHANGED <<ran, up>>
  BY DEF Works, Handles, DetachBegin, DetachEnd, AmfAt, DetachPcs
<1>1. ran[n].pc = "detach" /\ up[n] = <<>> /\ down[n] = <<>>
  BY <1>0, HandlerPhase DEF Quiescent
<1>2. ~Accepted(n)' /\ ~InSession(n)'
  BY <1>0, <1>1 DEF Accepted, InSession
<1>3. CASE DetachBegin(w)
  <2>1. /\ smf[w].pc = "idle" /\ smf'[w].pc = "call" /\ amf[w].pc = "detach"
        /\ smf'[w].typ = "release" /\ amf'[w].pc = "detach_end" /\ UNCHANGED down
    BY <1>3, BeginsCall DEF DetachBegin, AmfAt
  <2>2. ~AwayPhase(n)'
    BY <1>0, <1>1, <2>1 DEF AwayPhase
  <2>3. ActiveFor(w) /\ ~AwayFor(w)' /\ ~FullFor(w)'
    BY <2>1 DEF FullFor, AwayFor, ActiveFor, Replied
  <2>4. AloneKept(w, n)
    BY <1>2, <2>1, <2>2, <2>3 DEF AloneKept, AwayAlone, FullAlone, ActiveAlone
  <2>. QED  BY <2>1, <2>4, HandlerBearer
<1>4. CASE DetachEnd(w)
  <2>1. /\ smf[w].pc = "done" /\ Replied(w) /\ smf'[w].pc = "idle"
        /\ smf[w].typ = "release" /\ amf[w].pc = "detach_end"
        /\ ~FullFor(w)' /\ ~ActiveFor(w)'
    BY <1>4, EndsCall
  <2>2. AwayAlone(w, n)
    BY <2>1 DEF AwayAlone, AwayFor
  <2>3. AloneKept(w, n)
    BY <1>2, <2>1, <2>2 DEF AloneKept, FullAlone, ActiveAlone
  <2>. QED  BY <2>1, <2>3, HandlerBearer
<1>. QED  BY <1>3, <1>4

\* An attach complete or a detach is served while the UPF has the session, and
\* a detach only when the attach complete has been served to its end.
LEMMA DeliverBearer ==
    ASSUME TypeOK, Placement, BearerOK, NEW w \in Workers, NEW n \in Ues,
           n \in ToSet(conns[w]), Delivers(w, n), SubscriberOK(n), ServiceOK(w),
           UNCHANGED <<upf, upfTables, n4_req, n4_rsp>>
    PROVE  BearerOK'
<1>0. /\ up \in [Ues -> Seq(UplinkMessages)] /\ up[n] \in Seq(UplinkMessages)
      /\ amf \in [Workers -> AmfStates] /\ up[n] # <<>>
      /\ UNCHANGED <<ran, down, smf>> /\ amf[w].pc = "idle"
  BY DEF Delivers, TypeOK, ServerTypeOK, AmfTypeOK
<1>1. up'[n] = Tail(up[n]) /\ \A k \in Ues \ {n} : up'[k] = up[k]
  BY <1>0 DEF Delivers
<1>2. /\ 1 \in DOMAIN up[n] /\ Head(up[n]) = up[n][1] /\ Head(up[n]) \in UplinkMessages
      /\ \A i \in DOMAIN up[n] : i = 1 \/ (i - 1 \in DOMAIN Tail(up[n])
                                           /\ up[n][i] = Tail(up[n])[i - 1])
  <2>1. /\ Len(up[n]) \in Nat /\ DOMAIN up[n] = 1 .. Len(up[n])
        /\ DOMAIN Tail(up[n]) = 1 .. (Len(up[n]) - 1)
        /\ \A i \in 1 .. (Len(up[n]) - 1) : Tail(up[n])[i] = up[n][i + 1]
    BY <1>0, HeadTailProperties
  <2>. QED  BY <1>0, <2>1, TailItems
<1>3. PICK m \in UplinkMessages : m = Head(up[n])
  BY <1>2
<1>4. /\ amf'[w].pc = HandlerOf(m) /\ (HandlerOf(m) # "idle" => amf'[w].ue = n)
      /\ \A x \in Workers \ {w} : amf'[x] = amf[x]
  BY <1>0, <1>3 DEF Delivers, IdleAmf
<1>5. m.typ \in 1 .. 10 /\ UplinkItem(n, m) /\ m = up[n][1]
  BY <1>2, <1>3 DEF UplinkMessages, SubscriberOK, UplinkOK
<1>6. HandlerOf(m) \notin {"session_end", "modify"}
  BY <1>5 DEF HandlerOf
<1>7. /\ HandlerOf(m) = "attach_complete" => m.typ = 4
      /\ HandlerOf(m) = "detach" => m.typ = 5
  BY <1>5 DEF HandlerOf
<1>8. m.typ \in {4, 5} => ran[n].pc \in {"data", "detach"}
  BY <1>0, <1>5 DEF SubscriberOK, UplinkOK, UplinkShape, Just, Delivers
<1>9. m.typ = 5 => Len(up[n]) = 1
  BY <1>0, <1>5 DEF SubscriberOK, UplinkOK, UplinkShape, Just, Delivers
<1>10. smf[w].pc = "idle"
  BY <1>0, NoCall
<1>11. Alone(w, n)
  BY <1>0, ServesAlone
<1>12. Alone(w, n)'
  BY <1>4, <1>11 DEF Alone, Serves
<1>13. ~BeingServed(n) /\ ~InCreate(n) /\ ~InCreate(n)'
       /\ (amf'[w].pc # "idle" => BeingServed(n)')
  BY <1>0, <1>4, <1>6, <1>11, <1>12 DEF Alone, Serves, BeingServed, InCreate
<1>14. AwayAlone(w, n)' => AwayAlone(w, n)
  <2>1. ~AwayFor(w)'
    BY <1>0, <1>10 DEF AwayFor, Asking, Replied
  <2>. QED  BY <1>0, <1>13, <2>1 DEF AwayAlone, AwayPhase
<1>15. InSession(n)' => InSession(n)
  BY <1>0 DEF InSession
<1>16. FullAlone(w, n)' => FullAlone(w, n)
  <2>1. FullFor(w)' => m.typ = 4
    BY <1>0, <1>4, <1>6, <1>7, <1>10 DEF FullFor, Replied
  <2>2. m.typ = 4 => InSession(n)
    BY <1>0, <1>8 DEF InSession
  <2>3. Accepted(n)' <=> Accepted(n)
    BY <1>0 DEF Accepted
  <2>. QED  BY <1>15, <2>1, <2>2, <2>3 DEF FullAlone
<1>17. ActiveAlone(w, n)' => ActiveAlone(w, n)
  <2>1. ASSUME ActiveFor(w)' PROVE InSession(n) /\ Settled(n)
    <3>1. m.typ = 5
      BY <1>0, <1>4, <1>7, <1>10, <2>1 DEF ActiveFor, Asking, Handled, Replied
    <3>2. \A i \in DOMAIN up[n] : i = 1
      BY <1>0, <1>9, <3>1
    <3>. QED  BY <1>0, <1>5, <1>8, <1>13, <3>1, <3>2 DEF InSession, Settled
  <2>2. ASSUME InSession(n)', Settled(n)' PROVE InSession(n) /\ Settled(n)
    <3>1. InSession(n) /\ HandlerOf(m) = "idle"
      BY <1>4, <1>13, <1>15, <2>2 DEF Settled
    <3>2. m.typ # 4
      <4>1. SUFFICES ASSUME m.typ = 4 PROVE m.mme # 0
        BY <3>1 DEF HandlerOf
      <4>2. m.mme = ran[n].mme_s1ap_ue_id
        BY <1>5, <4>1 DEF UplinkItem
      <4>3. IdInUse(n)
        BY <1>0, <1>8, <4>1 DEF IdInUse, HasAnId, SubscriberOK, DownlinkOK
      <4>. QED  BY <4>2, <4>3 DEF SubscriberOK, IdOK
    <3>3. ASSUME NEW i \in DOMAIN up[n] PROVE up[n][i].typ # 4
      <4>1. CASE i = 1
        BY <1>5, <3>2, <4>1
      <4>2. CASE i # 1
        <5>1. i - 1 \in DOMAIN up'[n] /\ up[n][i] = up'[n][i - 1]
          BY <1>1, <1>2, <4>2
        <5>2. up'[n][i - 1].typ # 4
          BY <2>2, <5>1 DEF Settled
        <5>. QED  BY <5>1, <5>2
      <4>. QED  BY <4>1, <4>2
    <3>. QED  BY <1>13, <3>1, <3>3 DEF Settled
  <2>. QED  BY <2>1, <2>2 DEF ActiveAlone
<1>18. AloneKept(w, n)
  BY <1>14, <1>16, <1>17 DEF AloneKept
<1>19. AnswerOK(w)'
  BY <1>0 DEF BearerOK, AnswerOK
<1>20. \A x \in Workers : (Queued(x)' => Queued(x)) /\ n4_rsp'[x] = n4_rsp[x]
  BY DEF Queued
<1>. QED  BY <1>0, <1>1, <1>4, <1>11, <1>12, <1>18, <1>19, <1>20, WorkerBearer

\* A worker of the AMF leaves the tables where everyone expects them.
LEMMA AmfStepBearer ==
    ASSUME TypeOK, Placement, FreshIds, Agreement, LinkOK, BearerOK, NoWrap',
           NEW w \in Workers, AmfStep(w)
    PROVE  BearerOK'
<1>0. /\ AmfWorker(w) /\ UNCHANGED <<ran, upf, upfTables, n4_req, n4_rsp>>
      /\ ServiceOK(w) /\ amf[w].ue \in Ues
  BY AmfStateType, AmfLeavesUpf DEF AmfStep, ranVars, TypeOK, Agreement
<1>1. CASE AmfSelect(w) \/ AmfClose(w)
  <2>1. UNCHANGED <<ran, up, down, amf, smf>>
    BY <1>0, <1>1 DEF AmfSelect, AmfClose, Select, CloseConn, linkVars, smfVars, amfVars
  <2>2. \A x \in Workers : CallStays(x) /\ AnswerOK(x)'
    BY <1>0, <2>1 DEF CallStays, Queued, Answering, AnswerOK, BearerOK
  <2>. QED  BY <1>0, <2>1, <2>2, ClaimsStay, TablesFrame
<1>2. CASE HandleUe(w)
  <2>1. PICK i \in DOMAIN conns[w] : Delivers(w, conns[w][i])
    BY <1>0, <1>2 DEF HandleUe, Delivers, AmfAt, udmVars, smfVars
  <2>2. conns[w] \in Seq(Ues)
    BY DEF TypeOK, ServerTypeOK
  <2>3. PICK n \in Ues : n = conns[w][i]
    BY <2>1, <2>2
  <2>4. n \in ToSet(conns[w]) /\ Delivers(w, n)
    BY <2>1, <2>3 DEF ToSet
  <2>. QED  BY <1>0, <2>4, DeliverBearer DEF Agreement
<1>3. CASE ~AmfSelect(w) /\ ~AmfClose(w) /\ ~HandleUe(w)
  <2>1. PICK n \in Ues : n = amf[w].ue
    BY <1>0
  <2>2. Handles(w, n)
    <3>1. amf[w].pc # "idle" /\ Running("amf")
      BY <1>0, <1>3 DEF AmfWorker, InitialAttach, AttachInit, AttachAuth, HandleAutn,
         SecurityModeCmd, SetIntegrityContext, SendSecurityModeCmd,
         SecurityModeComplete, LocationUpdate, LocationDelete, LocationInsert,
         CreateSessionBegin, CreateSessionEnd, AttachComplete, ModifyBearerBegin,
         ModifyBearerEnd, DetachBegin, DetachEnd, RemItfid, RemUectx, AmfAt
    <3>2. UNCHANGED up
      BY <1>0, <1>3 DEF AmfWorker, InitialAttach, AttachInit, AttachAuth, HandleAutn,
         SecurityModeCmd, SetIntegrityContext, SendSecurityModeCmd,
         SecurityModeComplete, LocationUpdate, LocationDelete, LocationInsert,
         CreateSessionBegin, CreateSessionEnd, AttachComplete, ModifyBearerBegin,
         ModifyBearerEnd, DetachBegin, DetachEnd, RemItfid, RemUectx, localFrame
    <3>. QED  BY <1>0, <2>1, <3>1, <3>2 DEF Handles, Agreement
  <2>3. Works(w, n)
    BY <1>0, <1>3, <2>2, HandlerStepKeeps DEF Works
  <2>. QED
    BY <1>0, <1>3, <2>3, QuietHandlersBearer, CreateSessionBeginBearer,
       CreateSessionEndBearer, CompleteBearer, DetachBearer DEF AmfWorker
<1>. QED  BY <1>1, <1>2, <1>3

----------------------------------------------------------------------------
(* The SMF                                                                 *)

\* A step inside the call of worker w, after which it relies on no more.
LEMMA CallBearer ==
    ASSUME NEW w, NEW n, Calls(w, n), Placement, BearerOK, UNCHANGED <<upf, upfTables>>,
           \A x \in Workers \ {w} : (Queued(x)' => Queued(x)) /\ n4_rsp'[x] = n4_rsp[x],
           AwayFor(w)' => AwayFor(w), FullFor(w)' => FullFor(w),
           ActiveFor(w)' => ActiveFor(w), AnswerOK(w)'
    PROVE  BearerOK'
<1>0. /\ TypeOK /\ w \in Workers /\ n \in Ues /\ n = amf[w].ue
      /\ UNCHANGED <<ran, up, down, amf>>
  BY DEF Calls
<1>1. amf[w].pc # "idle" /\ \A x \in Workers \ {w} : smf'[x] = smf[x]
  BY CallFacts
<1>2. n \in ToSet(conns[w])
  BY <1>0, <1>1 DEF Placement, ServesOwn
<1>3. Alone(w, n)
  BY <1>0, <1>2, ServesAlone
<1>4. Alone(w, n)'
  BY <1>0, <1>3 DEF Alone, Serves
<1>5. AloneKept(w, n)
  <2>1. (InCreate(n)' <=> InCreate(n)) /\ (BeingServed(n)' <=> BeingServed(n))
    BY <1>0 DEF InCreate, BeingServed, Serves
  <2>2. /\ AwayPhase(n)' <=> AwayPhase(n)
        /\ Accepted(n)' <=> Accepted(n)
        /\ InSession(n)' <=> InSession(n)
        /\ Settled(n)' <=> Settled(n)
    BY <1>0, <2>1 DEF AwayPhase, Accepted, InSession, Settled
  <2>. QED  BY <1>0, <2>2 DEF AloneKept, AwayAlone, FullAlone, ActiveAlone
<1>. QED  BY <1>0, <1>1, <1>3, <1>4, <1>5, WorkerBearer

\* A request is queued: it is still being asked for.
LEMMA RequestBearer ==
    ASSUME NEW w, NEW n, Calls(w, n), Placement, BearerOK,
           RequestCreate(w) \/ RequestModify(w) \/ RequestRelease(w)
    PROVE  BearerOK'
<1>0. /\ TypeOK /\ UpfTypeOK /\ LinkOK /\ w \in Workers /\ UNCHANGED amf
      /\ n4_req \in Seq(N4Requests)
  BY DEF Calls, TypeOK, UpfTypeOK
<1>1. /\ smf[w].pc = "call" /\ UNCHANGED <<upf, upfTables, n4_rsp>>
      /\ RequestCreate(w) => smf[w].typ = "create"
      /\ RequestModify(w) => smf[w].typ = "modify"
      /\ RequestRelease(w) => smf[w].typ = "release"
  BY DEF RequestCreate, RequestModify, RequestRelease
<1>2. n4_rsp[w] = <<>> /\ Asking(w)
  BY <1>0, <1>1, NotWaiting DEF Free, Asking
<1>3. PICK m : n4_req' = Append(n4_req, m) /\ m.w = w
  <2>1. smf[w].guti # 0
    BY CallFacts
  <2>2. \E typ, teid, imsi, dl : SendN4(w, typ, teid, imsi, dl)
    BY <2>1 DEF RequestCreate, RequestModify, RequestRelease
  <2>3. PICK typ, teid, imsi, dl : n4_req' = Append(n4_req,
              [typ |-> typ, w |-> w, teid |-> teid, imsi |-> imsi, dl |-> dl])
    BY <2>2 DEF SendN4
  <2>. QED  BY <2>3
<1>4. \A x : Queued(x)' => Queued(x) \/ x = w
  <2>1. \A i \in DOMAIN n4_req' : \/ i \in DOMAIN n4_req /\ n4_req'[i] = n4_req[i]
                                  \/ n4_req'[i] = m
    BY <1>0, <1>3, AppendItems
  <2>. QED  BY <1>3, <2>1 DEF Queued
<1>5. smf'[w].pc = "wait" /\ smf'[w].typ = smf[w].typ
  <2>1. smf[w].guti # 0 /\ smf \in [Workers -> SmfStates] /\ smf'[w].typ = smf[w].typ
    BY CallFacts
  <2>2. \/ smf' = [smf EXCEPT ![w].pc = "wait"]
        \/ \E a : smf' = [smf EXCEPT ![w] = [@ EXCEPT !.pc = "wait", !.asked = a]]
    BY <2>1 DEF RequestCreate, RequestModify, RequestRelease
  <2>3. smf'[w].pc = "wait"
    BY <1>0, <2>1, <2>2 DEF SmfStates
  <2>. QED  BY <2>1, <2>3
<1>6. ~Replied(w)' /\ AnswerOK(w)'
  BY <1>1, <1>2, <1>5 DEF Replied, AnswerOK
<1>7. AwayFor(w)' => AwayFor(w)
  BY <1>2, <1>5, <1>6 DEF AwayFor
<1>8. FullFor(w)' => FullFor(w)
  BY <1>0, <1>1, <1>5, <1>6 DEF FullFor
<1>9. ActiveFor(w)' => ActiveFor(w)
  BY <1>0, <1>2, <1>5, <1>6 DEF ActiveFor
<1>. QED  BY <1>1, <1>4, <1>6, <1>7, <1>8, <1>9, CallBearer

\* The reply is taken, and what it said stays true; a release is not refused.
LEMMA AnswerBearer ==
    ASSUME NEW w, NEW n, Calls(w, n), Placement, BearerOK, RcvAnswer(w)
    PROVE  BearerOK'
<1>0. /\ TypeOK /\ UpfTypeOK /\ LinkOK /\ w \in Workers /\ UNCHANGED amf
      /\ n4_rsp \in [Workers -> Seq(N4Replies)]
  BY DEF Calls, TypeOK, UpfTypeOK
<1>1. /\ smf[w].pc = "wait" /\ n4_rsp[w] # <<>>
      /\ n4_rsp' = [n4_rsp EXCEPT ![w] = Tail(@)]
      /\ TakeAnswer(w, ReadAsCreate(Head(n4_rsp[w])), ReadAsResult(Head(n4_rsp[w])))
      /\ UNCHANGED <<upf, upfTables, n4_req>>
  BY DEF RcvAnswer
<1>2. n4_rsp'[w] = <<>> /\ \A x \in Workers \ {w} : n4_rsp'[x] = n4_rsp[x]
  BY <1>0, <1>1, OneReply
<1>3. ReadAsResult(Head(n4_rsp[w])) = TRUE \/ smf[w].typ = "create"
  BY <1>0, <1>1, OneReply DEF LinkOK, ReplyOK, ReadAsResult
<1>4. /\ smf'[w].typ = smf[w].typ
      /\ smf'[w].pc = IF smf[w].typ = "create" THEN "update" ELSE "done"
      /\ smf[w].typ = "release" => smf'[w].res
  <2>1. smf \in [Workers -> SmfStates] /\ smf[w].typ \in {"create", "modify", "release"}
    BY CallFacts
  <2>2. CASE smf[w].typ = "create"
    <3>1. \E a, b, c : smf' = [smf EXCEPT ![w] =
                           [@ EXCEPT !.pc = "update", !.teid = a, !.ip = b, !.ul = c]]
      BY <1>1, <2>2 DEF TakeAnswer
    <3>. QED  BY <1>0, <2>1, <2>2, <3>1 DEF SmfStates
  <2>3. CASE smf[w].typ = "modify"
    <3>1. \E b : smf' = [smf EXCEPT ![w] = [@ EXCEPT !.pc = "done", !.res = b]]
      BY <1>1, <2>3 DEF TakeAnswer
    <3>. QED  BY <1>0, <2>1, <2>3, <3>1 DEF SmfStates
  <2>4. CASE smf[w].typ = "release"
    <3>1. smf' = [smf EXCEPT ![w] = [@ EXCEPT !.pc = "done", !.res = TRUE]]
      BY <1>1, <1>3, <2>4 DEF TakeAnswer
    <3>. QED  BY <1>0, <2>1, <2>4, <3>1 DEF SmfStates
  <2>. QED  BY <2>1, <2>2, <2>3, <2>4
<1>5. Replied(w) /\ \A x : Queued(x)' <=> Queued(x)
  BY <1>1 DEF Replied, Queued
<1>6. AnswerOK(w)'
  BY <1>2, <1>4 DEF AnswerOK
<1>7. AwayFor(w)' => AwayFor(w)
  BY <1>4, <1>5 DEF AwayFor, Asking
<1>8. FullFor(w)' => FullFor(w)
  BY <1>0, <1>1, <1>4, <1>5 DEF FullFor
<1>9. ActiveFor(w)' => ActiveFor(w)
  BY <1>0, <1>4, <1>5 DEF ActiveFor, Asking, Handled
<1>. QED  BY <1>1, <1>2, <1>5, <1>6, <1>7, <1>8, <1>9, CallBearer

\* The second half of a create leaves it answered.
LEMMA UpdateBearer ==
    ASSUME NEW w, NEW n, Calls(w, n), Placement, BearerOK, UpdateCreate(w)
    PROVE  BearerOK'
<1>0. /\ TypeOK /\ LinkOK /\ w \in Workers /\ UNCHANGED amf
      /\ smf[w].pc = "update" /\ UNCHANGED <<upf, upfTables, n4_req, n4_rsp>>
  BY DEF Calls, UpdateCreate, n4Vars
<1>1. smf[w].typ = "create" /\ smf \in [Workers -> SmfStates]
  BY <1>0, CallFacts
<1>2. smf'[w].pc = "done" /\ smf'[w].typ = "create"
  <2>1. \E t, r : smf' = [smf EXCEPT ![w] = [@ EXCEPT !.pc = "done", !.res = TRUE,
                                               !.teid = t, !.tau_timer = r]]
    BY DEF UpdateCreate
  <2>. QED  BY <1>0, <1>1, <2>1 DEF SmfStates
<1>3. n4_rsp[w] = <<>>
  BY <1>0, NotWaiting DEF Free
<1>4. AnswerOK(w)' /\ (FullFor(w)' => FullFor(w)) /\ ~AwayFor(w)'
      /\ (ActiveFor(w)' => ActiveFor(w))
  BY <1>0, <1>1, <1>2, <1>3 DEF AnswerOK, FullFor, AwayFor, ActiveFor, Asking
<1>5. \A x : Queued(x)' <=> Queued(x)
  BY <1>0 DEF Queued
<1>. QED  BY <1>0, <1>4, <1>5, CallBearer

\* A worker of the SMF that does not give up waiting leaves the tables where
\* everyone expects them.
LEMMA SmfStepBearer ==
    ASSUME TypeOK, Placement, Agreement, LinkOK, GrantsOK, BearerOK, Running("upf"),
           Prompt', NEW w \in Workers, SmfStep(w)
    PROVE  BearerOK'
<1>0. /\ SmfWorker(w) /\ UNCHANGED <<ran, uplink_info, up, down, amf>>
      /\ amf[w].ue \in Ues /\ ServiceOK(w)
  BY AmfStateType DEF SmfStep, linkVars, amfVars, ranVars, TypeOK, Agreement
<1>1. PICK n \in Ues : n = amf[w].ue
  BY <1>0
<1>2. smf[w].pc # "idle"
  BY <1>0 DEF SmfWorker, RequestCreate, RequestModify, RequestRelease, RcvAnswer,
              RcvTimeout, UpdateCreate
<1>3. Calls(w, n)
  BY <1>0, <1>1, <1>2 DEF Calls
<1>4. ~RcvTimeout(w)
  <2>1. timeouts \in Nat /\ timeouts' = 0
    BY MaxTimeoutsAssumption DEF TypeOK, SmfTypeOK, Prompt
  <2>2. RcvTimeout(w) => timeouts' = timeouts + 1
    BY DEF RcvTimeout
  <2>. QED  BY <2>1, <2>2
<1>. QED  BY <1>0, <1>3, <1>4, RequestBearer, AnswerBearer, UpdateBearer DEF SmfWorker

----------------------------------------------------------------------------
(* Losses                                                                  *)

\* With a lost datagram there is less to rely on.
LEMMA LoseBearer ==
    ASSUME TypeOK, LinkOK, BearerOK, Lose
    PROVE  BearerOK'
<1>0. UNCHANGED <<ran, up, down, amf, smf, upf, upfTables>>
  BY DEF Lose, LoseRequest, LoseReply, linkVars, amfVars, ranVars, smfVars
<1>1. \A x \in Workers : CallStays(x) /\ AnswerOK(x)'
  <2>1. CASE LoseRequest
    <3>1. n4_req \in Seq(N4Requests) /\ n4_req # <<>> /\ n4_req' = Tail(n4_req)
          /\ UNCHANGED n4_rsp
      BY <2>1 DEF LoseRequest, TypeOK, UpfTypeOK
    <3>2. \A i \in DOMAIN n4_req' : i + 1 \in DOMAIN n4_req /\ n4_req'[i] = n4_req[i + 1]
      BY <3>1, TailItems
    <3>3. \A x : Queued(x)' => Queued(x)
      BY <3>2 DEF Queued
    <3>. QED  BY <1>0, <3>1, <3>3 DEF CallStays, Answering, AnswerOK, BearerOK
  <2>2. ASSUME NEW w \in Workers, LoseReply(w)
        PROVE  \A x \in Workers : CallStays(x) /\ AnswerOK(x)'
    <3>1. /\ n4_rsp \in [Workers -> Seq(N4Replies)] /\ n4_rsp[w] # <<>>
          /\ n4_rsp' = [n4_rsp EXCEPT ![w] = Tail(@)] /\ UNCHANGED n4_req /\ UpfTypeOK
      BY <2>2 DEF LoseReply, TypeOK, UpfTypeOK
    <3>2. n4_rsp'[w] = <<>> /\ \A x \in Workers \ {w} : n4_rsp'[x] = n4_rsp[x]
      BY <3>1, OneReply
    <3>3. \A x : Queued(x)' <=> Queued(x)
      BY <3>1 DEF Queued
    <3>. QED  BY <1>0, <3>2, <3>3 DEF CallStays, Answering, AnswerOK, BearerOK
  <2>. QED  BY <2>1, <2>2 DEF Lose
<1>. QED  BY <1>0, <1>1, ClaimsStay, TablesFrame

----------------------------------------------------------------------------
(* The UPF                                                                 *)

\* The thread has not touched the tables for m, nor begun to leave.
TablesKept(m) ==
    /\ s11_id'[Teid(m)] = s11_id[Teid(m)] /\ s1_id'[Teid(m)] = s1_id[Teid(m)]
    /\ sgi_id'[IpAddr(Imsi(m))] = sgi_id[IpAddr(Imsi(m))]
    /\ upf_ctx'[Imsi(m)] = upf_ctx[Imsi(m)]
    /\ Leaving(m)' <=> Leaving(m)

\* For a subscriber whose tables are not touched nothing changes.
LEMMA KeptTables ==
    ASSUME NEW m, TablesOK(m), TablesKept(m), ClaimsKept(m)
    PROVE  TablesOK(m)'
<1>1. \A T : Entered(m, T)' <=> Entered(m, T)
  BY DEF Entered, TablesKept
<1>2. (HasContext(m)' <=> HasContext(m)) /\ (NoContext(m)' <=> NoContext(m))
  BY DEF HasContext, NoContext, TablesKept
<1>3. /\ Away(m)' <=> Away(m)
      /\ Full(m)' <=> Full(m)
      /\ Active(m)' <=> Active(m)
  BY <1>1, <1>2 DEF Away, Gone, Full, Active, TablesKept
<1>. QED  BY <1>3 DEF TablesOK, ClaimsKept

\* A step of the one thread, for n: what is left to show of it is about n.
LEMMA ThreadBearer ==
    ASSUME BearerOK, NEW n \in Ues, TablesOK(n)', ThreadFor(n)',
           \A m \in Ues \ {n} : TablesKept(m) /\ ClaimsKept(m),
           upf'[1].imsi = Imsi(n) \/ upf'[1].pc \in {"idle", "m_lookup", "d_lookup"},
           \A x \in Workers : AnswerOK(x)'
    PROVE  BearerOK'
<1>1. \A m \in Ues : TablesOK(m)'
  BY KeptTables DEF BearerOK
<1>2. Imsi(n) # 0 /\ \A m \in Ues : Imsi(m) = Imsi(n) => m = n
  BY OwnFacts, IdentityTypes
<1>3. ThreadOK'
  <2>1. CASE upf'[1].imsi = Imsi(n)
    BY <1>2, <2>1 DEF ThreadOK, Thread
  <2>2. CASE upf'[1].pc \in {"idle", "m_lookup", "d_lookup"}
    <3>1. ASSUME NEW m \in Ues PROVE ThreadFor(m)'
      BY <2>2 DEF ThreadFor, Thread, CreateOK, Leaving, RemovalPcs
    <3>. QED  BY <2>2, <3>1 DEF ThreadOK, Thread, RemovalPcs
  <2>. QED  BY <2>1, <2>2
<1>. QED  BY <1>1, <1>3 DEF BearerOK

\* The tables are right for n if they are for its phase and its one worker.
LEMMA TablesAlone ==
    ASSUME NEW w \in Workers, NEW n, Alone(w, n)', AwayAlone(w, n)' => Away(n)',
           FullAlone(w, n)' => Full(n)', ActiveAlone(w, n)' => Active(n)'
    PROVE  TablesOK(n)'
<1>1. \A x \in Workers : Serves(x, n)' => x = w /\ amf'[w].pc # "idle"
  BY DEF Alone, Serves
<1>2. ToBeAway(n)' => AwayAlone(w, n)'
  BY <1>1 DEF ToBeAway, AwayAlone
<1>3. ToBeFull(n)' => FullAlone(w, n)'
  BY <1>1 DEF ToBeFull, FullAlone
<1>4. ToBeActive(n)' => ActiveAlone(w, n)'
  BY <1>1 DEF ToBeActive, ActiveAlone
<1>. QED  BY <1>2, <1>3, <1>4 DEF TablesOK

\* The one thread is inside a handler for the call of w, which serves n.
Answers(w, n) ==
    /\ TypeOK /\ Placement /\ Agreement /\ LinkOK /\ GrantsOK /\ BearerOK
    /\ UpfThreadCount = 1 /\ w \in Workers /\ n \in Ues /\ n = amf[w].ue
    /\ Answering(1, w) /\ UpfThread(1)
    /\ UNCHANGED <<ran, up, down, amf, smf>>

\* What the thread was given: the teid and the IMSI of n.
LEMMA AnswersFacts ==
    ASSUME NEW w, NEW n, Answers(w, n)
    PROVE  /\ upf \in [{1} -> UpfThreadStates] /\ upf[1] \in UpfThreadStates
           /\ upf[1].w = w /\ upf[1].pc \in AnsweringPcs
           /\ smf[w].pc = "wait" /\ upf[1].typ = smf[w].typ /\ smf[w].asked = Teid(n)
           /\ Alone(w, n) /\ Alone(w, n)' /\ amf[w].pc # "idle"
           /\ ~Queued(w) /\ n4_rsp[w] = <<>>
           /\ upf[1].typ = "create" =>
                 /\ upf[1].imsi = Imsi(n) /\ upf[1].teid = Teid(n)
                 /\ upf[1].pc \in {"c_ctx", "send"} => upf[1].ip = IpAddr(Imsi(n))
           /\ upf[1].pc \in CreatePcs => upf[1].typ = "create"
           /\ upf[1].pc \in {"m_lookup", "m_ctx"} =>
                 upf[1].typ = "modify" /\ upf[1].dl = Teid(n)
           /\ upf[1].pc \in {"d_lookup", "d_ctx"} => upf[1].typ = "release"
           /\ upf[1].pc \in {"m_lookup", "d_lookup"} => upf[1].teid = Teid(n)
           /\ upf[1].pc \in {"m_ctx", "d_ctx"} \/ (upf[1].pc = "send" /\ upf[1].typ # "create")
                 => upf[1].imsi = Imsi(n)
           /\ amf[w].pc = CASE upf[1].typ = "create" -> "session_end"
                            [] upf[1].typ = "modify" -> "modify_end"
                            [] upf[1].typ = "release" -> "detach_end"
<1>0. /\ UpfThreads = {1} /\ 1 \in UpfThreads /\ w \in Workers /\ n \in Ues
      /\ UpfTypeOK /\ upf[1].w = w /\ upf[1].pc \in AnsweringPcs
  BY DEF Answers, UpfThreads, TypeOK, Answering
<1>1. upf \in [{1} -> UpfThreadStates] /\ upf[1] \in UpfThreadStates
  BY <1>0 DEF UpfTypeOK
<1>2. HandlerOK(1) /\ CallGrantOK(w) /\ CallOK(w)
  BY <1>0 DEF Answers, LinkOK, GrantsOK, Agreement, ServiceOK
<1>3. smf[w].pc = "wait" /\ upf[1].typ = smf[w].typ /\ smf[w].asked = Teid(n)
  BY <1>0, <1>2 DEF Answers, HandlerOK, CallGrantOK
<1>4. ~Queued(w) /\ n4_rsp[w] = <<>>
  BY <1>0 DEF Answers, LinkOK, OneAtATime
<1>5. /\ smf[w].typ = "create" => amf[w].pc = "session_end" /\ smf[w].imsi = Imsi(n)
      /\ smf[w].typ = "modify" => amf[w].pc = "modify_end"
      /\ smf[w].typ = "release" => amf[w].pc = "detach_end"
      /\ smf[w].typ \in {"create", "modify", "release"}
  BY <1>2, <1>3 DEF Answers, CallOK
<1>6. amf[w].pc # "idle" /\ Alone(w, n)
  BY <1>0, <1>5, ServesAlone DEF Answers, Placement, ServesOwn
<1>7. Alone(w, n)'
  BY <1>6 DEF Answers, Alone, Serves
<1>8. \A i \in {0} \cup Imsis : Teid(n) = TeidOf(i) => i = Imsi(n)
  BY <1>0 DEF Teid, TeidOf, GetS11CteidAmf, GetGuti, Guti, Imsi, Imsis, Ues
<1>9. upf[1].imsi \in {0} \cup Imsis
  BY <1>1 DEF UpfThreadStates
<1>10. \/ upf[1].pc \in {"m_ctx", "d_ctx"}
       \/ upf[1].pc = "send" /\ upf[1].typ # "create"
       => upf[1].imsi = Imsi(n)
  BY <1>0, <1>2, <1>3, <1>8, <1>9 DEF HandlerOK
<1>11. /\ upf[1].typ = "create" =>
             /\ upf[1].imsi = Imsi(n) /\ upf[1].teid = Teid(n)
             /\ upf[1].pc \in {"c_ctx", "send"} => upf[1].ip = IpAddr(Imsi(n))
       /\ upf[1].pc \in CreatePcs => upf[1].typ = "create"
       /\ upf[1].pc \in {"m_lookup", "m_ctx"} =>
             upf[1].typ = "modify" /\ upf[1].dl = Teid(n)
       /\ upf[1].pc \in {"d_lookup", "d_ctx"} => upf[1].typ = "release"
       /\ upf[1].pc \in {"m_lookup", "d_lookup"} => upf[1].teid = Teid(n)
  BY <1>0, <1>2, <1>3, <1>5 DEF HandlerOK
<1>12. amf[w].pc = CASE upf[1].typ = "create" -> "session_end"
                     [] upf[1].typ = "modify" -> "modify_end"
                     [] upf[1].typ = "release" -> "detach_end"
  BY <1>3, <1>5
<1>. QED  BY <1>0, <1>1, <1>3, <1>4, <1>6, <1>7, <1>10, <1>11, <1>12

\* In the middle of a handler the phase of n asks for nothing but, under a modify,
\* its session; a modify is for a session and a release for an active one.
LEMMA AnswersClaims ==
    ASSUME NEW w, NEW n, Answers(w, n)
    PROVE  /\ ~AwayPhase(n) /\ ~AwayPhase(n)'
           /\ ~(InSession(n) /\ Settled(n)) /\ ~(InSession(n)' /\ Settled(n)')
           /\ upf[1].typ # "modify" =>
                 ~Accepted(n) /\ ~InSession(n) /\ ~Accepted(n)' /\ ~InSession(n)'
           /\ upf[1].typ = "modify" => Full(n)
           /\ upf[1].typ = "release" => Active(n)
<1>0. /\ UpfThreads = {1} /\ w \in Workers /\ n \in Ues /\ n = amf[w].ue
      /\ WorkerOK(w) /\ TablesOK(n) /\ UNCHANGED <<ran, up, down, amf>>
  BY DEF Answers, UpfThreads, Agreement, ServiceOK, BearerOK
<1>1. /\ smf[w].pc = "wait" /\ upf[1].typ = smf[w].typ /\ amf[w].pc # "idle"
      /\ amf[w].pc = CASE upf[1].typ = "create" -> "session_end"
                       [] upf[1].typ = "modify" -> "modify_end"
                       [] upf[1].typ = "release" -> "detach_end"
      /\ upf[1].typ \in {"create", "modify", "release"} /\ Answering(1, w)
  BY AnswersFacts DEF UpfThreadStates, N4Types, Answers
<1>2. Serves(w, n) /\ BeingServed(n) /\ ~Settled(n)
  BY <1>0, <1>1 DEF Serves, BeingServed, Settled
<1>3. /\ AwayPhase(n)' <=> AwayPhase(n)
      /\ Accepted(n)' <=> Accepted(n)
      /\ InSession(n)' <=> InSession(n)
      /\ Settled(n)' <=> Settled(n)
  BY <1>0 DEF AwayPhase, Accepted, InSession, Settled, BeingServed, InCreate, Serves
<1>4. CASE upf[1].typ = "create"
  <2>1. amf[w].pc = "session_end"
    BY <1>1, <1>4
  <2>2. ran[n].pc \in {"session", "failed"} /\ Quiescent(n) /\ InCreate(n)
    BY <1>0, <1>2, <2>1 DEF WorkerOK, SessionPcs, ServesSession, InCreate
  <2>3. ~AwayPhase(n) /\ ~Accepted(n) /\ ~InSession(n)
    BY <2>2 DEF AwayPhase, Accepted, InSession, Quiescent
  <2>. QED  BY <1>2, <1>3, <1>4, <2>3
<1>5. CASE upf[1].typ = "modify"
  <2>1. amf[w].pc = "modify_end"
    BY <1>1, <1>5
  <2>2. ran[n].pc \in {"data", "detach", "failed"} /\ down[n] = <<>>
    BY <1>0, <2>1 DEF WorkerOK, CompletePcs, ServesComplete
  <2>3. ~AwayPhase(n)
    BY <2>2 DEF AwayPhase
  <2>4. FullFor(w)
    BY <1>1, <1>5 DEF FullFor
  <2>5. Full(n)
    BY <1>0, <1>2, <2>4 DEF TablesOK, ToBeFull
  <2>. QED  BY <1>2, <1>3, <1>5, <2>3, <2>5
<1>6. CASE upf[1].typ = "release"
  <2>1. amf[w].pc = "detach_end"
    BY <1>1, <1>6
  <2>2. ran[n].pc \in {"detach", "failed"} /\ down[n] = <<>> /\ up[n] = <<>>
    BY <1>0, <2>1 DEF WorkerOK, DetachPcs, ServesDetach, Quiescent
  <2>3. ~AwayPhase(n) /\ ~Accepted(n) /\ ~InSession(n)
    BY <2>2 DEF AwayPhase, Accepted, InSession
  <2>4. ActiveFor(w)
    BY <1>1, <1>6 DEF ActiveFor, Handled
  <2>5. Active(n)
    BY <1>0, <1>2, <2>4 DEF TablesOK, ToBeActive
  <2>. QED  BY <1>2, <1>3, <1>6, <2>3, <2>5
<1>. QED  BY <1>1, <1>4, <1>5, <1>6

\* Behind a step inside a handler the others' tables are as they were, if it has
\* touched only those of n; the reply is still to come.
LEMMA InsideBearer ==
    ASSUME NEW w, NEW n, Answers(w, n), UNCHANGED <<n4_req, n4_rsp>>,
           upf'[1].w = w, upf'[1].pc \in AnsweringPcs,
           upf'[1].imsi = Imsi(n) \/ upf'[1].pc \in {"m_lookup", "d_lookup"},
           \A m \in Ues \ {n} :
              /\ s11_id'[Teid(m)] = s11_id[Teid(m)] /\ s1_id'[Teid(m)] = s1_id[Teid(m)]
              /\ sgi_id'[IpAddr(Imsi(m))] = sgi_id[IpAddr(Imsi(m))]
              /\ upf_ctx'[Imsi(m)] = upf_ctx[Imsi(m)],
           ThreadFor(n)', upf[1].typ = "modify" => Full(n)',
           upf[1].typ = "release" => Active(n)'
    PROVE  BearerOK'
<1>0. /\ w \in Workers /\ n \in Ues /\ UNCHANGED <<ran, up, down, amf, smf>>
      /\ Answering(1, w) /\ BearerOK
  BY DEF Answers
<1>1. /\ smf[w].pc = "wait" /\ upf[1].typ = smf[w].typ /\ amf[w].pc # "idle"
      /\ amf[w].pc = CASE upf[1].typ = "create" -> "session_end"
                       [] upf[1].typ = "modify" -> "modify_end"
                       [] upf[1].typ = "release" -> "detach_end"
      /\ upf[1].typ \in {"create", "modify", "release"}
      /\ ~Queued(w) /\ n4_rsp[w] = <<>> /\ upf[1].w = w /\ upf[1].pc \in AnsweringPcs
      /\ Alone(w, n) /\ Alone(w, n)'
  BY AnswersFacts DEF UpfThreadStates, N4Types
<1>2. ~Queued(w)' /\ \A x : Queued(x)' <=> Queued(x)
  BY <1>1 DEF Queued
<1>3. \A x \in Workers : CallStays(x) /\ AnswerOK(x)'
  <2>1. \A x : Answering(1, x)' <=> Answering(1, x)
    BY <1>1 DEF Answering
  <2>. QED  BY <1>0, <1>2, <2>1 DEF CallStays, AnswerOK, BearerOK
<1>4. \A m \in Ues : ClaimsKept(m)
  BY <1>0, <1>3, ClaimsStay
<1>5. \A m \in Ues : ~Leaving(m) /\ ~Leaving(m)'
  BY <1>1 DEF Leaving, Thread, RemovalPcs, AnsweringPcs
<1>6. \A m \in Ues \ {n} : TablesKept(m)
  BY <1>5 DEF TablesKept
<1>7. ~AwayFor(w)'
  BY <1>0, <1>1, <1>2 DEF AwayFor, Asking, Replied
<1>8. (FullFor(w)' => upf[1].typ = "modify") /\ (ActiveFor(w)' => upf[1].typ = "release")
  BY <1>0, <1>1 DEF FullFor, ActiveFor, Replied
<1>9. Active(n)' => Full(n)'
  BY DEF Active
<1>10. TablesOK(n)'
  <2>1. ~AwayAlone(w, n)'
    BY <1>7, AnswersClaims DEF AwayAlone
  <2>2. FullAlone(w, n)' => Full(n)'
    BY <1>1, <1>8, <1>9, AnswersClaims DEF FullAlone
  <2>3. ActiveAlone(w, n)' => Active(n)'
    BY <1>8, AnswersClaims DEF ActiveAlone
  <2>. QED  BY <1>0, <1>1, <2>1, <2>2, <2>3, TablesAlone
<1>. QED  BY <1>0, <1>3, <1>4, <1>6, <1>10, ThreadBearer

\* Where the tables of two subscribers are.
LEMMA TablesApart ==
    ASSUME NEW n \in Ues
    PROVE  /\ Teid(n) \in Teids /\ IpAddr(Imsi(n)) \in Addresses /\ Imsi(n) \in Imsis
           /\ Imsi(n) # 0
           /\ \A m \in Ues \ {n} : /\ Teid(m) # Teid(n) /\ Imsi(m) # Imsi(n)
                                   /\ IpAddr(Imsi(m)) # IpAddr(Imsi(n))
                                   /\ Teid(m) \in Teids /\ IpAddr(Imsi(m)) \in Addresses
                                   /\ Imsi(m) \in Imsis
BY DEF Ues, Teid, Guti, GetS11CteidAmf, GetGuti, IpAddr, Imsi, Teids, Addresses, Imsis

\* A create enters the tables of n one by one, and then its context.
LEMMA CreateBearer ==
    ASSUME NEW w, NEW n, Answers(w, n),
           CreateS11(1) \/ CreateS1(1) \/ CreateSgi(1) \/ CreateContext(1)
    PROVE  BearerOK'
<1>1. PICK r \in UpfThreadStates : r = upf[1]
  BY AnswersFacts
<1>2. /\ upf \in [{1} -> UpfThreadStates] /\ r.w = w /\ n \in Ues
      /\ r.pc \in CreatePcs /\ r.typ = "create" /\ r.imsi = Imsi(n) /\ r.teid = Teid(n)
      /\ r.pc = "c_ctx" => r.ip = IpAddr(Imsi(n))
      /\ UNCHANGED <<n4_req, n4_rsp>>
  BY <1>1, AnswersFacts DEF CreateS11, CreateS1, CreateSgi, CreateContext, CreatePcs,
                            Answers, n4Vars
<1>3. /\ s11_id \in [Teids -> {0} \cup Imsis] /\ s1_id \in [Teids -> {0} \cup Imsis]
      /\ sgi_id \in [Addresses -> {0} \cup Imsis] /\ upf_ctx \in [Imsis -> UpfContexts]
  BY DEF Answers, TypeOK, UpfTypeOK
<1>4. CreateOK(n)
  BY <1>1, <1>2 DEF Answers, BearerOK, ThreadOK, ThreadFor, Thread
<1>5. /\ Teid(n) \in Teids /\ IpAddr(Imsi(n)) \in Addresses /\ Imsi(n) \in Imsis
      /\ \A m \in Ues \ {n} : /\ Teid(m) # Teid(n) /\ Imsi(m) # Imsi(n)
                              /\ IpAddr(Imsi(m)) # IpAddr(Imsi(n))
  BY <1>2, TablesApart
<1>6. \E pc, a :
         /\ upf' = [upf EXCEPT ![1] = [@ EXCEPT !.ip = a, !.pc = pc]]
         /\ \/ r.pc = "c_s11" /\ pc = "c_s1"
               /\ s11_id' = [s11_id EXCEPT ![Teid(n)] = Imsi(n)]
               /\ UNCHANGED <<s1_id, sgi_id, upf_ctx>>
            \/ r.pc = "c_s1" /\ pc = "c_sgi"
               /\ s1_id' = [s1_id EXCEPT ![Teid(n)] = Imsi(n)]
               /\ UNCHANGED <<s11_id, sgi_id, upf_ctx>>
            \/ r.pc = "c_sgi" /\ pc = "c_ctx"
               /\ sgi_id' = [sgi_id EXCEPT ![IpAddr(Imsi(n))] = Imsi(n)]
               /\ UNCHANGED <<s11_id, s1_id, upf_ctx>>
            \/ r.pc = "c_ctx" /\ pc = "send"
               /\ upf_ctx' = [upf_ctx EXCEPT ![Imsi(n)] =
                    [@ EXCEPT !.present = TRUE, !.ip_addr = IpAddr(Imsi(n)),
                              !.s1_uteid_ul = Teid(n), !.s11_cteid = Teid(n)]]
               /\ UNCHANGED <<s11_id, s1_id, sgi_id>>
  <2>0. 1 \in UpfThreads /\ upf \in [UpfThreads -> UpfThreadStates]
    BY <1>2 DEF Answers, UpfThreads
  <2>1. CASE CreateS11(1)
    <3>1. /\ r.pc = "c_s11" /\ UpfGoto(1, "c_s1")
          /\ s11_id' = [s11_id EXCEPT ![Teid(n)] = Imsi(n)]
          /\ UNCHANGED <<s1_id, sgi_id, upf_ctx>>
      BY <1>1, <1>2, <2>1 DEF CreateS11
    <3>2. upf' = [upf EXCEPT ![1] = [@ EXCEPT !.ip = upf[1].ip, !.pc = "c_s1"]]
      BY <2>0, <3>1, SameAddress
    <3>. QED  BY <3>1, <3>2
  <2>2. CASE CreateS1(1)
    <3>1. /\ r.pc = "c_s1" /\ UpfGoto(1, "c_sgi")
          /\ s1_id' = [s1_id EXCEPT ![Teid(n)] = Imsi(n)]
          /\ UNCHANGED <<s11_id, sgi_id, upf_ctx>>
      BY <1>1, <1>2, <2>2 DEF CreateS1
    <3>2. upf' = [upf EXCEPT ![1] = [@ EXCEPT !.ip = upf[1].ip, !.pc = "c_sgi"]]
      BY <2>0, <3>1, SameAddress
    <3>. QED  BY <3>1, <3>2
  <2>3. CASE CreateSgi(1)
    BY <1>1, <1>2, <2>3 DEF CreateSgi
  <2>4. CASE CreateContext(1)
    <3>1. /\ r.pc = "c_ctx" /\ UpfGoto(1, "send")
          /\ upf_ctx' = [upf_ctx EXCEPT ![Imsi(n)] =
               [@ EXCEPT !.present = TRUE, !.ip_addr = IpAddr(Imsi(n)),
                         !.s1_uteid_ul = Teid(n), !.s11_cteid = Teid(n)]]
          /\ UNCHANGED <<s11_id, s1_id, sgi_id>>
      BY <1>1, <1>2, <2>4 DEF CreateContext
    <3>2. upf' = [upf EXCEPT ![1] = [@ EXCEPT !.ip = upf[1].ip, !.pc = "send"]]
      BY <2>0, <3>1, SameAddress
    <3>. QED  BY <3>1, <3>2
  <2>. QED  BY <2>1, <2>2, <2>3, <2>4
<1>7. /\ upf'[1].w = w /\ upf'[1].imsi = Imsi(n) /\ upf'[1].typ = "create"
      /\ \/ r.pc = "c_s11" /\ upf'[1].pc = "c_s1"
         \/ r.pc = "c_s1" /\ upf'[1].pc = "c_sgi"
         \/ r.pc = "c_sgi" /\ upf'[1].pc = "c_ctx"
         \/ r.pc = "c_ctx" /\ upf'[1].pc = "send"
  BY <1>1, <1>2, <1>6 DEF UpfThreadStates
<1>8. \A m \in Ues \ {n} :
         /\ s11_id'[Teid(m)] = s11_id[Teid(m)] /\ s1_id'[Teid(m)] = s1_id[Teid(m)]
         /\ sgi_id'[IpAddr(Imsi(m))] = sgi_id[IpAddr(Imsi(m))]
         /\ upf_ctx'[Imsi(m)] = upf_ctx[Imsi(m)]
  <2>1. s11_id' = [s11_id EXCEPT ![Teid(n)] = Imsi(n)] \/ UNCHANGED s11_id
    BY <1>6
  <2>2. s1_id' = [s1_id EXCEPT ![Teid(n)] = Imsi(n)] \/ UNCHANGED s1_id
    BY <1>6
  <2>3. sgi_id' = [sgi_id EXCEPT ![IpAddr(Imsi(n))] = Imsi(n)] \/ UNCHANGED sgi_id
    BY <1>6
  <2>4. (\E c : upf_ctx' = [upf_ctx EXCEPT ![Imsi(n)] = c]) \/ UNCHANGED upf_ctx
    BY <1>6
  <2>5. ASSUME NEW m \in Ues \ {n}
        PROVE  s11_id'[Teid(m)] = s11_id[Teid(m)] /\ s1_id'[Teid(m)] = s1_id[Teid(m)]
    BY <1>3, <1>5, <2>1, <2>2, TablesApart
  <2>6. ASSUME NEW m \in Ues \ {n}
        PROVE  sgi_id'[IpAddr(Imsi(m))] = sgi_id[IpAddr(Imsi(m))]
    BY <1>3, <1>5, <2>3, TablesApart
  <2>7. ASSUME NEW m \in Ues \ {n}
        PROVE  upf_ctx'[Imsi(m)] = upf_ctx[Imsi(m)]
    BY <1>3, <1>5, <2>4, TablesApart
  <2>. QED  BY <2>5, <2>6, <2>7
<1>9. CreateOK(n)' /\ ~Leaving(n)'
  <2>0. Imsi(n) # 0 /\ upf'[1].pc \notin RemovalPcs
    BY <1>2, <1>7, TablesApart DEF RemovalPcs
  <2>1. CASE r.pc = "c_s11"
    <3>1. Entered(n, {}) /\ NoContext(n)
      BY <1>1, <1>4, <2>1 DEF CreateOK, Gone, Thread
    <3>2. Entered(n, {"s11"})' /\ NoContext(n)'
      BY <1>3, <1>5, <1>6, <2>1, <3>1 DEF Entered, NoContext
    <3>. QED  BY <1>7, <2>0, <2>1, <3>2 DEF CreateOK, Leaving, Thread
  <2>2. CASE r.pc = "c_s1"
    <3>1. Entered(n, {"s11"}) /\ NoContext(n)
      BY <1>1, <1>4, <2>2 DEF CreateOK, Thread
    <3>2. Entered(n, {"s11", "s1"})' /\ NoContext(n)'
      BY <1>3, <1>5, <1>6, <2>2, <3>1 DEF Entered, NoContext
    <3>. QED  BY <1>7, <2>0, <2>2, <3>2 DEF CreateOK, Leaving, Thread
  <2>3. CASE r.pc = "c_sgi"
    <3>1. Entered(n, {"s11", "s1"}) /\ NoContext(n)
      BY <1>1, <1>4, <2>3 DEF CreateOK, Thread
    <3>2. Entered(n, {"s11", "s1", "sgi"})' /\ NoContext(n)'
      BY <1>3, <1>5, <1>6, <2>3, <3>1 DEF Entered, NoContext
    <3>. QED  BY <1>7, <2>0, <2>3, <3>2 DEF CreateOK, Leaving, Thread
  <2>4. CASE r.pc = "c_ctx"
    <3>1. Entered(n, {"s11", "s1", "sgi"})
      BY <1>1, <1>4, <2>4 DEF CreateOK, Thread
    <3>2. Entered(n, {"s11", "s1", "sgi"})'
      BY <1>6, <2>4, <3>1 DEF Entered
    <3>3. HasContext(n)'
      <4>1. upf_ctx' = [upf_ctx EXCEPT ![Imsi(n)] =
                    [@ EXCEPT !.present = TRUE, !.ip_addr = IpAddr(Imsi(n)),
                              !.s1_uteid_ul = Teid(n), !.s11_cteid = Teid(n)]]
        BY <1>6, <2>4
      <4>2. upf_ctx[Imsi(n)] \in UpfContexts
        BY <1>3, <1>5
      <4>. QED  BY <1>3, <1>5, <4>1, <4>2 DEF HasContext, UpfContexts
    <3>4. Full(n)'
      BY <2>0, <3>2, <3>3 DEF Full, Leaving, Thread
    <3>. QED  BY <1>7, <2>0, <2>4, <3>4 DEF CreateOK, Leaving, Thread
  <2>. QED  BY <1>7, <2>1, <2>2, <2>3, <2>4
<1>10. ThreadFor(n)'
  BY <1>7, <1>9 DEF ThreadFor, Thread
<1>11. upf'[1].pc \in AnsweringPcs
  BY <1>7 DEF AnsweringPcs
<1>. QED  BY <1>1, <1>2, <1>7, <1>8, <1>10, <1>11, InsideBearer

\* The lookup of a modify or a release finds n.
LEMMA LookupBearer ==
    ASSUME NEW w, NEW n, Answers(w, n), UpfLookup(1)
    PROVE  BearerOK' /\ UNCHANGED exited
<1>1. PICK r \in UpfThreadStates : r = upf[1]
  BY AnswersFacts
<1>2. /\ upf \in [{1} -> UpfThreadStates] /\ r.w = w /\ n \in Ues
      /\ r.pc \in {"m_lookup", "d_lookup"} /\ r.teid = Teid(n)
      /\ r.pc = "m_lookup" => r.typ = "modify"
      /\ r.pc = "d_lookup" => r.typ = "release"
      /\ UNCHANGED <<n4_req, n4_rsp, s11_id, s1_id, sgi_id, upf_ctx>>
  BY <1>1, AnswersFacts DEF UpfLookup, n4Vars, upfTables, Answers
<1>3. /\ r.typ = "modify" => Full(n)
      /\ r.typ = "release" => Active(n) /\ Full(n)
  BY <1>1, AnswersClaims DEF Active
<1>4. s11_id[Teid(n)] = Imsi(n) /\ Imsi(n) # 0
  BY <1>2, <1>3, TablesApart DEF Full, Entered
<1>5. /\ UNCHANGED exited
      /\ \E pc : /\ upf' = [upf EXCEPT ![1] = [@ EXCEPT !.imsi = Imsi(n), !.pc = pc]]
                 /\ pc = IF r.typ = "modify" THEN "m_ctx" ELSE "d_ctx"
  BY <1>1, <1>2, <1>4 DEF UpfLookup
<1>6. /\ upf'[1].w = w /\ upf'[1].imsi = Imsi(n) /\ upf'[1].typ = r.typ
      /\ upf'[1].pc = IF r.typ = "modify" THEN "m_ctx" ELSE "d_ctx"
  BY <1>1, <1>2, <1>5 DEF UpfThreadStates
<1>7. ~Leaving(n)' /\ ThreadFor(n)' /\ upf'[1].pc \in AnsweringPcs
  BY <1>2, <1>6 DEF Leaving, ThreadFor, Thread, AnsweringPcs, RemovalPcs
<1>8. Full(n)'
  BY <1>2, <1>3, <1>7 DEF Full, Entered, HasContext
<1>9. r.typ = "release" => Active(n)'
  BY <1>2, <1>3, <1>8 DEF Active
<1>. QED  BY <1>1, <1>2, <1>5, <1>6, <1>7, <1>8, <1>9, InsideBearer

\* A modify makes the session of n active, and a release reads the context of n.
LEMMA ContextBearer ==
    ASSUME NEW w, NEW n, Answers(w, n), ModifyContext(1) \/ DetachContext(1)
    PROVE  BearerOK' /\ UNCHANGED exited
<1>1. PICK r \in UpfThreadStates : r = upf[1]
  BY AnswersFacts
<1>2. /\ upf \in [{1} -> UpfThreadStates] /\ r.w = w /\ n \in Ues
      /\ r.pc \in {"m_ctx", "d_ctx"} /\ r.imsi = Imsi(n)
      /\ r.pc = "m_ctx" => r.typ = "modify" /\ ModifyContext(1)
      /\ r.pc = "d_ctx" => r.typ = "release" /\ DetachContext(1)
      /\ UNCHANGED <<n4_req, n4_rsp, s11_id, s1_id, sgi_id>>
  <2>1. \/ r.pc = "m_ctx" /\ ModifyContext(1)
        \/ r.pc = "d_ctx" /\ DetachContext(1)
    BY <1>1 DEF ModifyContext, DetachContext
  <2>2. UNCHANGED <<n4_req, n4_rsp, s11_id, s1_id, sgi_id>>
    BY DEF ModifyContext, DetachContext, n4Vars, upfTables
  <2>. QED  BY <1>1, <2>1, <2>2, AnswersFacts DEF Answers
<1>3. /\ upf_ctx \in [Imsis -> UpfContexts] /\ Imsi(n) \in Imsis
      /\ upf_ctx[Imsi(n)] \in UpfContexts
      /\ \A m \in Ues \ {n} : Imsi(m) # Imsi(n)
  BY <1>2, TablesApart DEF Answers, TypeOK, UpfTypeOK
<1>4. Full(n) /\ (r.typ = "release" => Active(n))
  BY <1>1, <1>2, AnswersClaims DEF Active
<1>5. /\ upf_ctx[Imsi(n)].present /\ upf_ctx[Imsi(n)].ip_addr = IpAddr(Imsi(n))
      /\ upf_ctx[Imsi(n)].s1_uteid_ul = Teid(n) /\ upf_ctx[Imsi(n)].s11_cteid = Teid(n)
      /\ Entered(n, {"s11", "s1", "sgi"})
  BY <1>4 DEF Full, HasContext
<1>6. Entered(n, {"s11", "s1", "sgi"})'
  BY <1>2, <1>5 DEF Entered
<1>7. CASE r.pc = "m_ctx"
  <2>1. /\ UNCHANGED exited
        /\ \E d : upf_ctx' = [upf_ctx EXCEPT ![Imsi(n)] =
                     [@ EXCEPT !.s1_uteid_dl = d, !.enodeb = TRUE]]
        /\ upf' = [upf EXCEPT ![1] = [@ EXCEPT !.teid = Teid(n), !.pc = "send"]]
    <3>1. /\ UNCHANGED exited
          /\ \E c \in Looked(Imsi(n)) : upf_ctx' = [upf_ctx EXCEPT ![Imsi(n)] =
                [c EXCEPT !.s1_uteid_dl = upf[1].dl, !.enodeb = TRUE]]
          /\ upf' = [upf EXCEPT ![1] = [@ EXCEPT !.teid = Teid(n), !.pc = "send"]]
      BY <1>1, <1>2, <1>5, <1>7 DEF ModifyContext
    <3>2. Looked(Imsi(n)) = {upf_ctx[Imsi(n)]}
      BY <1>5 DEF Looked
    <3>. QED  BY <3>1, <3>2
  <2>2. /\ upf'[1].w = w /\ upf'[1].imsi = Imsi(n) /\ upf'[1].typ = "modify"
        /\ upf'[1].pc = "send" /\ upf'[1].teid = Teid(n)
    BY <1>1, <1>2, <1>7, <2>1 DEF UpfThreadStates
  <2>3. HasContext(n)' /\ upf_ctx'[Imsi(n)].enodeb
    BY <1>3, <1>5, <2>1 DEF HasContext, UpfContexts
  <2>4. \A m \in Ues \ {n} : upf_ctx'[Imsi(m)] = upf_ctx[Imsi(m)]
    BY <1>3, <2>1
  <2>5. ~Leaving(n)' /\ upf'[1].pc \in AnsweringPcs
    BY <2>2 DEF Leaving, Thread, AnsweringPcs, RemovalPcs
  <2>6. Full(n)' /\ Active(n)'
    BY <1>6, <2>3, <2>5 DEF Full, Active
  <2>7. ThreadFor(n)'
    BY <2>2, <2>5, <2>6 DEF ThreadFor, Thread
  <2>. QED  BY <1>2, <2>1, <2>2, <2>4, <2>5, <2>6, <2>7, InsideBearer
<1>8. CASE r.pc = "d_ctx"
  <2>1. /\ UNCHANGED <<exited, upf_ctx>>
        /\ upf' = [upf EXCEPT ![1] =
              [@ EXCEPT !.teid = Teid(n), !.dl = Teid(n), !.ip = IpAddr(Imsi(n)),
                        !.pc = "send"]]
    BY <1>1, <1>2, <1>5, <1>8 DEF DetachContext, upfTables
  <2>2. /\ upf'[1].w = w /\ upf'[1].imsi = Imsi(n) /\ upf'[1].typ = "release"
        /\ upf'[1].pc = "send" /\ upf'[1].teid = Teid(n) /\ upf'[1].dl = Teid(n)
        /\ upf'[1].ip = IpAddr(Imsi(n))
    BY <1>1, <1>2, <1>8, <2>1 DEF UpfThreadStates
  <2>3. ~Leaving(n)' /\ upf'[1].pc \in AnsweringPcs
    BY <2>2 DEF Leaving, Thread, AnsweringPcs, RemovalPcs
  <2>4. Full(n)' /\ Active(n)'
    BY <1>2, <1>4, <1>6, <1>8, <2>1, <2>3 DEF Full, Active, HasContext
  <2>5. ThreadFor(n)'
    BY <2>2, <2>3 DEF ThreadFor, Thread, KeysInHand
  <2>. QED  BY <1>2, <2>1, <2>2, <2>3, <2>4, <2>5, InsideBearer
<1>. QED  BY <1>2, <1>7, <1>8

\* The reply says what the tables have come to; a release has yet to empty them.
LEMMA SendBearer ==
    ASSUME NEW w, NEW n, Answers(w, n), UpfSend(1)
    PROVE  BearerOK'
<1>1. PICK r \in UpfThreadStates : r = upf[1]
  BY AnswersFacts
<1>2. /\ upf \in [{1} -> UpfThreadStates] /\ r.w = w /\ n \in Ues /\ w \in Workers
      /\ r.pc = "send" /\ r.imsi = Imsi(n) /\ r.typ \in {"create", "modify", "release"}
      /\ r.typ = "create" => r.teid = Teid(n)
      /\ UNCHANGED <<exited, n4_req, s11_id, s1_id, sgi_id, upf_ctx>>
      /\ UNCHANGED <<ran, up, down, amf, smf>>
      /\ smf[w].pc = "wait" /\ smf[w].typ = r.typ /\ smf[w].asked = Teid(n)
      /\ ~Queued(w) /\ n4_rsp[w] = <<>> /\ Alone(w, n) /\ Alone(w, n)'
      /\ amf[w].pc \in {"session_end", "modify_end", "detach_end"}
  BY <1>1, AnswersFacts DEF UpfSend, upfTables, Answers, UpfThreadStates, N4Types
<1>3. Imsi(n) # 0 /\ \A m \in Ues \ {n} : Imsi(m) # Imsi(n)
  BY <1>2, TablesApart
<1>4. /\ ThreadFor(n) /\ n4_rsp \in [Workers -> Seq(N4Replies)] /\ BearerOK
  BY <1>1, <1>2 DEF Answers, BearerOK, ThreadOK, Thread, TypeOK, UpfTypeOK
<1>5. /\ r.typ = "create" => Full(n)
      /\ r.typ = "modify" => Active(n) /\ Full(n) /\ r.teid = Teid(n)
      /\ r.typ = "release" => KeysInHand(n) /\ Active(n) /\ Full(n) /\ r.teid = Teid(n)
  BY <1>1, <1>2, <1>4, AnswersClaims DEF ThreadFor, CreateOK, Thread, Active, KeysInHand
<1>6. /\ n4_rsp' = [n4_rsp EXCEPT ![w] =
                      Append(@, [typ |-> r.typ, teid |-> r.teid,
                                 ip |-> IF r.typ = "create" THEN r.ip ELSE 0])]
      /\ upf' = [upf EXCEPT ![1] = IF r.typ = "release" THEN [r EXCEPT !.pc = "d_s11"]
                                                        ELSE IdleThread]
  BY <1>1, <1>2 DEF UpfSend
<1>7. /\ n4_rsp'[w] # <<>> /\ n4_rsp'[w][1].teid = Teid(n)
      /\ \A x \in Workers \ {w} : n4_rsp'[x] = n4_rsp[x]
  <2>1. PICK e : e = [typ |-> r.typ, teid |-> r.teid,
                      ip |-> IF r.typ = "create" THEN r.ip ELSE 0]
    OBVIOUS
  <2>0. e.teid = Teid(n)
    BY <1>2, <1>5, <2>1
  <2>2. n4_rsp'[w] = Append(<<>>, e) /\ \A x \in Workers \ {w} : n4_rsp'[x] = n4_rsp[x]
    BY <1>2, <1>4, <1>6, <2>1
  <2>3. Append(<<>>, e) # <<>> /\ Append(<<>>, e)[1] = e
    OBVIOUS
  <2>. QED  BY <2>0, <2>2, <2>3
<1>8. /\ r.typ = "release" =>
            /\ upf'[1].pc = "d_s11" /\ upf'[1].typ = "release" /\ upf'[1].imsi = Imsi(n)
            /\ upf'[1].teid = r.teid /\ upf'[1].dl = r.dl /\ upf'[1].ip = r.ip
      /\ r.typ # "release" => upf'[1] = IdleThread
  BY <1>2, <1>6 DEF UpfThreadStates
<1>9. upf'[1].pc \in {"d_s11", "idle"} /\ \A x : ~Answering(1, x)'
  BY <1>2, <1>8 DEF IdleThread, Answering, AnsweringPcs
<1>10. \A x : Queued(x)' <=> Queued(x)
  BY <1>2 DEF Queued
<1>11. /\ r.typ = "release" => Leaving(n)'
       /\ r.typ # "release" => ~Leaving(n)'
       /\ \A m \in Ues \ {n} : ~Leaving(m) /\ ~Leaving(m)'
  <2>1. r.typ = "release" => Leaving(n)'
    BY <1>8 DEF Leaving, Thread, RemovalPcs
  <2>2. r.typ # "release" => ~Leaving(n)'
    BY <1>8 DEF Leaving, Thread, RemovalPcs, IdleThread
  <2>3. ASSUME NEW m \in Ues \ {n} PROVE ~Leaving(m) /\ ~Leaving(m)'
    BY <1>1, <1>2, <1>3, <1>8 DEF Leaving, Thread, RemovalPcs, IdleThread
  <2>. QED  BY <2>1, <2>2, <2>3
<1>12. ASSUME NEW m \in Ues \ {n} PROVE TablesKept(m) /\ ClaimsKept(m)
  <2>1. ASSUME NEW x \in Workers, Serves(x, m) \/ Serves(x, m)' PROVE CallStays(x)
    <3>1. x # w
      BY <1>2, <2>1 DEF Alone, Serves
    <3>. QED  BY <1>2, <1>7, <1>9, <1>10, <3>1 DEF CallStays
  <2>2. ClaimsKept(m)
    BY <1>2, <2>1, ClaimsStay
  <2>. QED  BY <1>2, <1>11, <2>2 DEF TablesKept
<1>13. \A x \in Workers : AnswerOK(x)'
  <2>1. \A x \in Workers : AnswerOK(x)
    BY <1>4 DEF BearerOK
  <2>. QED  BY <1>2, <1>7, <2>1 DEF AnswerOK
<1>14. Entered(n, {"s11", "s1", "sgi"})' /\ HasContext(n)'
  BY <1>2, <1>5 DEF Full, Entered, HasContext
<1>15. ThreadFor(n)'
  <2>1. CASE r.typ = "release"
    <3>1. KeysInHand(n)'
      BY <1>1, <1>5, <1>8, <2>1 DEF KeysInHand, Thread
    <3>2. RemovalOK(n)'
      BY <1>8, <1>14, <2>1, <3>1 DEF RemovalOK, Thread
    <3>. QED  BY <1>8, <2>1, <3>2 DEF ThreadFor, Thread
  <2>2. CASE r.typ # "release"
    BY <1>8, <2>2 DEF ThreadFor, Thread, IdleThread, CreateOK, Leaving, RemovalPcs
  <2>. QED  BY <2>1, <2>2
<1>16. TablesOK(n)'
  <2>1. AwayAlone(w, n)' => Away(n)'
    <3>1. AwayFor(w)' => r.typ = "release"
      BY <1>2, <1>10 DEF AwayFor, Asking
    <3>. QED  BY <1>11, <3>1, AnswersClaims DEF AwayAlone, Away
  <2>2. r.typ # "release" => Full(n)'
    BY <1>11, <1>14 DEF Full
  <2>3. FullAlone(w, n)' => Full(n)'
    <3>1. FullFor(w)' => r.typ # "release"
      BY <1>2 DEF FullFor
    <3>. QED  BY <1>1, <1>2, <2>2, <3>1, AnswersClaims DEF FullAlone
  <2>4. ActiveAlone(w, n)' => Active(n)'
    <3>1. ActiveFor(w)' => r.typ = "modify"
      BY <1>2, <1>9, <1>10 DEF ActiveFor, Asking, Handled
    <3>2. r.typ = "modify" => Active(n)'
      BY <1>2, <1>5, <2>2 DEF Active
    <3>. QED  BY <3>1, <3>2, AnswersClaims DEF ActiveAlone
  <2>. QED  BY <1>2, <2>1, <2>3, <2>4, TablesAlone
<1>17. upf'[1].imsi = Imsi(n) \/ upf'[1].pc = "idle"
  BY <1>8 DEF IdleThread
<1>. QED  BY <1>2, <1>4, <1>12, <1>13, <1>15, <1>16, <1>17, ThreadBearer

\* The thread takes the request of a worker: it relies on what it has relied on.
LEMMA ReceiveBearer ==
    ASSUME TypeOK, Placement, Agreement, LinkOK, BearerOK, UpfThreadCount = 1,
           UpfReceive(1), UNCHANGED <<ran, up, down, amf, smf>>
    PROVE  BearerOK'
<1>0. /\ n4_req \in Seq(N4Requests) /\ n4_req # <<>> /\ n4_req' = Tail(n4_req)
      /\ UNCHANGED <<exited, s11_id, s1_id, sgi_id, upf_ctx, n4_rsp>>
      /\ upf[1].pc = "idle" /\ 1 \in UpfThreads
      /\ upf \in [UpfThreads -> UpfThreadStates]
  BY DEF TypeOK, UpfTypeOK, UpfReceive, upfTables, UpfThreads
<1>1. PICK m \in N4Requests : m = Head(n4_req)
  BY <1>0, TailItems
<1>2. /\ 1 \in DOMAIN n4_req /\ m = n4_req[1]
      /\ \A i \in DOMAIN n4_req' :
            i + 1 \in DOMAIN n4_req /\ i + 1 # 1 /\ n4_req'[i] = n4_req[i + 1]
  BY <1>0, <1>1, TailItems
<1>3. PICK w \in Workers : w = m.w
  BY DEF N4Requests
<1>4. PICK n \in Ues : n = amf[w].ue
  BY AmfStateType DEF TypeOK
<1>5. m.typ \in {"create", "modify", "release"}
  BY DEF N4Requests, N4Types
<1>6. /\ upf'[1].typ = m.typ /\ upf'[1].w = w /\ upf'[1].imsi = m.imsi
      /\ m.typ = "create" => upf'[1].pc = "c_s11"
      /\ m.typ = "modify" => upf'[1].pc = "m_lookup"
      /\ m.typ = "release" => upf'[1].pc = "d_lookup"
  BY <1>0, <1>1, <1>3, <1>5 DEF UpfReceive
<1>7. RequestOK(m) /\ Queued(w) /\ CallOK(w)
  BY <1>2, <1>3 DEF LinkOK, Queued, Agreement, ServiceOK
<1>8. /\ smf[w].pc = "wait" /\ m.typ = smf[w].typ
      /\ m.typ = "create" => m.imsi = Imsi(n)
      /\ amf[w].pc \in {"session_end", "modify_end", "detach_end"}
  BY <1>3, <1>4, <1>7 DEF RequestOK, CallOK
<1>9. /\ ~Queued(w)' /\ (\A x : Queued(x)' => Queued(x)) /\ n4_rsp[w] = <<>>
      /\ \A x : Answering(1, x)' => x = w
  <2>1. ~Queued(w)' /\ (\A x : Queued(x)' => Queued(x))
    BY <1>2, <1>3 DEF Queued, LinkOK, OneAtATime
  <2>2. n4_rsp[w] = <<>>
    BY <1>7 DEF LinkOK, OneAtATime
  <2>3. \A x : Answering(1, x)' => x = w
    BY <1>6 DEF Answering
  <2>. QED  BY <2>1, <2>2, <2>3
<1>10. Alone(w, n) /\ Alone(w, n)' /\ Serves(w, n)
  <2>1. Alone(w, n) /\ Serves(w, n)
    BY <1>4, <1>8, ServesAlone DEF Placement, ServesOwn, Serves
  <2>. QED  BY <2>1 DEF Alone, Serves
<1>11. ASSUME NEW k \in Ues, k # n PROVE ClaimsKept(k)
  <2>1. ASSUME NEW x \in Workers, Serves(x, k) \/ Serves(x, k)' PROVE CallStays(x)
    <3>1. x # w
      BY <1>4, <1>11, <2>1 DEF Serves
    <3>. QED  BY <1>0, <1>9, <3>1 DEF CallStays
  <2>. QED  BY <2>1, ClaimsStay
<1>12. ClaimsKept(n)
  <2>1. AwayFor(w)' => AwayFor(w)
    BY <1>0, <1>8, <1>9 DEF AwayFor, Asking, Replied
  <2>2. FullFor(w)' => FullFor(w)
    BY <1>0, <1>8, <1>9 DEF FullFor, Replied
  <2>3. ActiveFor(w)' => ActiveFor(w)
    BY <1>0, <1>7, <1>8, <1>9 DEF ActiveFor, Replied, Asking
  <2>4. /\ AwayPhase(n)' <=> AwayPhase(n)
        /\ Accepted(n)' <=> Accepted(n)
        /\ InSession(n)' <=> InSession(n)
        /\ Settled(n)' <=> Settled(n)
    BY DEF AwayPhase, Accepted, InSession, Settled, BeingServed, InCreate, Serves
  <2>5. AloneKept(w, n)
    BY <2>1, <2>2, <2>3, <2>4 DEF AloneKept, AwayAlone, FullAlone, ActiveAlone
  <2>. QED  BY <1>10, <2>5, ClaimsAlone
<1>13. \A k \in Ues : ~Leaving(k) /\ ~Leaving(k)'
  BY <1>0, <1>5, <1>6 DEF Leaving, Thread, RemovalPcs
<1>14. \A k \in Ues : TablesKept(k)
  BY <1>0, <1>13 DEF TablesKept
<1>15. TablesOK(n)'
  BY <1>12, <1>14, KeptTables DEF BearerOK
<1>16. \A x \in Workers : AnswerOK(x)'
  BY <1>0 DEF BearerOK, AnswerOK
<1>17. ThreadFor(n)'
  <2>1. CASE m.typ = "create"
    <3>1. AwayFor(w)
      BY <1>7, <1>8, <2>1 DEF AwayFor, Asking
    <3>2. Away(n)
      BY <1>10, <3>1 DEF BearerOK, TablesOK, ToBeAway
    <3>3. Gone(n)'
      BY <1>0, <1>13, <3>2 DEF Away, Gone, Entered, NoContext
    <3>. QED  BY <1>6, <1>13, <2>1, <3>3 DEF ThreadFor, CreateOK, Thread
  <2>2. CASE m.typ # "create"
    BY <1>5, <1>6, <1>13, <2>2 DEF ThreadFor, Thread
  <2>. QED  BY <2>1, <2>2
<1>. QED
  BY <1>5, <1>6, <1>8, <1>11, <1>14, <1>15, <1>16, <1>17, ThreadBearer

\* The half of a release behind its reply empties the tables of n.
LEMMA RemovalBearer ==
    ASSUME TypeOK, BearerOK, UpfThreadCount = 1, UNCHANGED <<ran, up, down, amf, smf>>,
           DetachS11(1) \/ DetachS1(1) \/ DetachSgi(1) \/ RemUpfContext(1)
    PROVE  BearerOK'
<1>0. /\ upf \in [{1} -> UpfThreadStates] /\ upf[1] \in UpfThreadStates
      /\ upf[1].pc \in RemovalPcs /\ UNCHANGED <<n4_req, n4_rsp>>
      /\ 1 \in UpfThreads /\ upf \in [UpfThreads -> UpfThreadStates]
  BY DEF TypeOK, UpfTypeOK, UpfThreads, DetachS11, DetachS1, DetachSgi, RemUpfContext,
         RemovalPcs, n4Vars
<1>1. PICK r \in UpfThreadStates : r = upf[1]
  BY <1>0
<1>2. r.imsi \in Imsis
  BY <1>0, <1>1 DEF BearerOK, ThreadOK, Thread, UpfThreadStates
<1>3. PICK n \in Ues : r.imsi = Imsi(n)
  <2>1. r.imsi - 1 \in Ues /\ r.imsi = Imsi(r.imsi - 1)
    BY <1>2 DEF Imsis, Ues, Imsi
  <2>. QED  BY <2>1
<1>4. /\ s11_id \in [Teids -> {0} \cup Imsis] /\ s1_id \in [Teids -> {0} \cup Imsis]
      /\ sgi_id \in [Addresses -> {0} \cup Imsis] /\ upf_ctx \in [Imsis -> UpfContexts]
  BY DEF TypeOK, UpfTypeOK
<1>5. Leaving(n) /\ RemovalOK(n)
  BY <1>0, <1>1, <1>3 DEF Leaving, Thread, BearerOK, ThreadOK, ThreadFor
<1>6. r.teid = Teid(n) /\ r.dl = Teid(n) /\ r.ip = IpAddr(Imsi(n))
  BY <1>1, <1>5 DEF RemovalOK, KeysInHand, Thread
<1>7. /\ Teid(n) \in Teids /\ IpAddr(Imsi(n)) \in Addresses /\ Imsi(n) \in Imsis
      /\ \A m \in Ues \ {n} : /\ Teid(m) # Teid(n) /\ Imsi(m) # Imsi(n)
                              /\ IpAddr(Imsi(m)) # IpAddr(Imsi(n))
  BY TablesApart
<1>8. \/ /\ r.pc = "d_s11" /\ UpfGoto(1, "d_s1")
         /\ s11_id' = [s11_id EXCEPT ![Teid(n)] = 0]
         /\ UNCHANGED <<s1_id, sgi_id, upf_ctx>>
      \/ /\ r.pc = "d_s1" /\ UpfGoto(1, "d_sgi")
         /\ s1_id' = [s1_id EXCEPT ![Teid(n)] = 0]
         /\ UNCHANGED <<s11_id, sgi_id, upf_ctx>>
      \/ /\ r.pc = "d_sgi" /\ UpfGoto(1, "d_rem")
         /\ sgi_id' = [sgi_id EXCEPT ![IpAddr(Imsi(n))] = 0]
         /\ UNCHANGED <<s11_id, s1_id, upf_ctx>>
      \/ /\ r.pc = "d_rem" /\ upf' = [upf EXCEPT ![1] = IdleThread]
         /\ upf_ctx' = [upf_ctx EXCEPT ![Imsi(n)] = NoUpfContext]
         /\ UNCHANGED <<s11_id, s1_id, sgi_id>>
  <2>1. CASE DetachS11(1)
    BY <1>1, <1>6, <2>1 DEF DetachS11
  <2>2. CASE DetachS1(1)
    BY <1>1, <1>6, <2>2 DEF DetachS1
  <2>3. CASE DetachSgi(1)
    BY <1>1, <1>6, <2>3 DEF DetachSgi
  <2>4. CASE RemUpfContext(1)
    BY <1>1, <1>3, <2>4 DEF RemUpfContext
  <2>. QED  BY <2>1, <2>2, <2>3, <2>4
<1>9. /\ \/ r.pc = "d_s11" /\ upf'[1].pc = "d_s1"
         \/ r.pc = "d_s1" /\ upf'[1].pc = "d_sgi"
         \/ r.pc = "d_sgi" /\ upf'[1].pc = "d_rem"
         \/ r.pc = "d_rem" /\ upf'[1] = IdleThread
      /\ r.pc # "d_rem" =>
            /\ upf'[1].imsi = Imsi(n) /\ upf'[1].typ = r.typ /\ upf'[1].teid = Teid(n)
            /\ upf'[1].dl = Teid(n) /\ upf'[1].ip = IpAddr(Imsi(n))
  BY <1>0, <1>1, <1>3, <1>6, <1>8 DEF UpfGoto, UpfThreadStates
<1>10. /\ r.pc # "d_rem" => Leaving(n)'
       /\ \A m \in Ues \ {n} : ~Leaving(m) /\ ~Leaving(m)'
       /\ \A x : ~Answering(1, x)'
  <2>1. r.pc # "d_rem" => Leaving(n)'
    BY <1>9 DEF Leaving, Thread, RemovalPcs
  <2>2. ASSUME NEW m \in Ues \ {n} PROVE ~Leaving(m) /\ ~Leaving(m)'
    BY <1>1, <1>3, <1>7, <1>9 DEF Leaving, Thread, RemovalPcs, IdleThread
  <2>3. \A x : ~Answering(1, x)'
    BY <1>9 DEF Answering, AnsweringPcs, IdleThread
  <2>. QED  BY <2>1, <2>2, <2>3
<1>11. \A m \in Ues \ {n} :
         /\ s11_id'[Teid(m)] = s11_id[Teid(m)] /\ s1_id'[Teid(m)] = s1_id[Teid(m)]
         /\ sgi_id'[IpAddr(Imsi(m))] = sgi_id[IpAddr(Imsi(m))]
         /\ upf_ctx'[Imsi(m)] = upf_ctx[Imsi(m)]
  <2>1. s11_id' = [s11_id EXCEPT ![Teid(n)] = 0] \/ UNCHANGED s11_id
    BY <1>8
  <2>2. s1_id' = [s1_id EXCEPT ![Teid(n)] = 0] \/ UNCHANGED s1_id
    BY <1>8
  <2>3. sgi_id' = [sgi_id EXCEPT ![IpAddr(Imsi(n))] = 0] \/ UNCHANGED sgi_id
    BY <1>8
  <2>4. upf_ctx' = [upf_ctx EXCEPT ![Imsi(n)] = NoUpfContext] \/ UNCHANGED upf_ctx
    BY <1>8
  <2>5. ASSUME NEW m \in Ues \ {n}
        PROVE  s11_id'[Teid(m)] = s11_id[Teid(m)] /\ s1_id'[Teid(m)] = s1_id[Teid(m)]
    BY <1>4, <1>7, <2>1, <2>2, TablesApart
  <2>6. ASSUME NEW m \in Ues \ {n}
        PROVE  sgi_id'[IpAddr(Imsi(m))] = sgi_id[IpAddr(Imsi(m))]
    BY <1>4, <1>7, <2>3, TablesApart
  <2>7. ASSUME NEW m \in Ues \ {n}
        PROVE  upf_ctx'[Imsi(m)] = upf_ctx[Imsi(m)]
    BY <1>4, <1>7, <2>4, TablesApart
  <2>. QED  BY <2>5, <2>6, <2>7
<1>12. \A x \in Workers : CallStays(x) /\ AnswerOK(x)'
  <2>1. \A x : Queued(x)' <=> Queued(x)
    BY <1>0 DEF Queued
  <2>. QED  BY <1>0, <1>10, <2>1 DEF CallStays, AnswerOK, BearerOK
<1>13. \A m \in Ues : ClaimsKept(m)
  BY <1>12, ClaimsStay
<1>14. \A m \in Ues \ {n} : TablesKept(m)
  BY <1>10, <1>11 DEF TablesKept
<1>15. ThreadFor(n)' /\ Away(n)'
  <2>1. CASE r.pc = "d_rem"
    <3>1. Entered(n, {})
      BY <1>1, <1>5, <2>1 DEF RemovalOK, Thread
    <3>2. Gone(n)'
      BY <1>4, <1>7, <1>8, <2>1, <3>1 DEF Gone, Entered, NoContext
    <3>. QED  BY <1>9, <2>1, <3>2 DEF ThreadFor, Thread, IdleThread, CreateOK, Leaving,
                                      RemovalPcs, Away
  <2>2. CASE r.pc # "d_rem"
    <3>1. KeysInHand(n)'
      BY <1>9, <2>2 DEF KeysInHand, Thread
    <3>2. RemovalOK(n)'
      <4>1. CASE r.pc = "d_s11"
        <5>1. Entered(n, {"s11", "s1", "sgi"})
          BY <1>1, <1>5, <4>1 DEF RemovalOK, Thread
        <5>2. Entered(n, {"s1", "sgi"})'
          BY <1>4, <1>7, <1>8, <4>1, <5>1 DEF Entered
        <5>. QED  BY <1>9, <3>1, <4>1, <5>2 DEF RemovalOK, Thread
      <4>2. CASE r.pc = "d_s1"
        <5>1. Entered(n, {"s1", "sgi"})
          BY <1>1, <1>5, <4>2 DEF RemovalOK, Thread
        <5>2. Entered(n, {"sgi"})'
          BY <1>4, <1>7, <1>8, <4>2, <5>1 DEF Entered
        <5>. QED  BY <1>9, <3>1, <4>2, <5>2 DEF RemovalOK, Thread
      <4>3. CASE r.pc = "d_sgi"
        <5>1. Entered(n, {"sgi"})
          BY <1>1, <1>5, <4>3 DEF RemovalOK, Thread
        <5>2. Entered(n, {})'
          BY <1>4, <1>7, <1>8, <4>3, <5>1 DEF Entered
        <5>. QED  BY <1>9, <3>1, <4>3, <5>2 DEF RemovalOK, Thread
      <4>. QED  BY <1>9, <2>2, <4>1, <4>2, <4>3
    <3>3. upf'[1].pc \notin {"c_s11", "c_s1", "c_sgi", "c_ctx", "send"}
      BY <1>9, <2>2
    <3>. QED  BY <1>10, <2>2, <3>2, <3>3 DEF ThreadFor, CreateOK, Thread, Away
  <2>. QED  BY <2>1, <2>2
<1>16. TablesOK(n)'
  <2>1. ~Full(n) /\ ~Active(n)
    BY <1>5 DEF Full, Active
  <2>2. ~ToBeFull(n) /\ ~ToBeActive(n)
    BY <2>1 DEF BearerOK, TablesOK
  <2>. QED  BY <1>13, <1>15, <2>2 DEF ClaimsKept, TablesOK
<1>17. upf'[1].imsi = Imsi(n) \/ upf'[1].pc = "idle"
  BY <1>9 DEF IdleThread
<1>. QED  BY <1>12, <1>13, <1>14, <1>15, <1>16, <1>17, ThreadBearer

\* The one N4 thread keeps the tables where everyone takes them to be, and its
\* lookups do not fail.
LEMMA UpfStepBearer ==
    ASSUME TypeOK, Placement, Agreement, LinkOK, GrantsOK, BearerOK,
           UpfThreadCount = 1, NEW t \in UpfThreads, UpfStep(t)
    PROVE  BearerOK' /\ UNCHANGED exited
<1>0. /\ t = 1 /\ UpfThread(1) /\ UNCHANGED <<ran, up, down, amf, smf>>
      /\ UpfThreads = {1} /\ upf[1] \in UpfThreadStates
  <2>1. UpfThreads = {1}
    BY DEF UpfThreads
  <2>. QED  BY <2>1 DEF UpfStep, linkVars, amfVars, ranVars, smfVars, TypeOK, UpfTypeOK
<1>1. CASE UpfReceive(1)
  BY <1>0, <1>1, ReceiveBearer DEF UpfReceive
<1>2. CASE DetachS11(1) \/ DetachS1(1) \/ DetachSgi(1) \/ RemUpfContext(1)
  <2>1. UNCHANGED exited
    BY <1>2 DEF DetachS11, DetachS1, DetachSgi, RemUpfContext
  <2>. QED  BY <1>0, <1>2, <2>1, RemovalBearer
<1>3. CASE ~UpfReceive(1) /\ ~DetachS11(1) /\ ~DetachS1(1) /\ ~DetachSgi(1)
           /\ ~RemUpfContext(1)
  <2>1. upf[1].pc \in AnsweringPcs
    BY <1>0, <1>3 DEF UpfThread, UpfSend, CreateS11, CreateS1, CreateSgi, CreateContext,
                      UpfLookup, ModifyContext, DetachContext, AnsweringPcs
  <2>2. PICK w \in Workers : w = upf[1].w
    BY <1>0 DEF UpfThreadStates
  <2>3. PICK n \in Ues : n = amf[w].ue
    BY AmfStateType DEF TypeOK
  <2>4. Answers(w, n)
    BY <1>0, <2>1, <2>2, <2>3 DEF Answers, Answering
  <2>5. UpfSend(1) \/ CreateS11(1) \/ CreateS1(1) \/ CreateSgi(1) \/ CreateContext(1)
           => UNCHANGED exited
    BY DEF UpfSend, CreateS11, CreateS1, CreateSgi, CreateContext
  <2>. QED
    BY <1>0, <1>3, <2>4, <2>5, SendBearer, CreateBearer, LookupBearer, ContextBearer
       DEF UpfThread
<1>. QED  BY <1>1, <1>2, <1>3

----------------------------------------------------------------------------
(* The invariant                                                           *)

\* Nobody but the UPF ends the UPF.
LEMMA UpfRuns ==
    ASSUME TypeOK, [Next]_vars, ~\E t \in UpfThreads : UpfStep(t), Running("upf")
    PROVE  Running("upf")'
<1>1. ASSUME NEW n \in Ues, RanStep(n) PROVE UNCHANGED exited
  BY <1>1, RanThreadType DEF RanStep, TypeOK
<1>2. ASSUME NEW w \in Workers, AmfStep(w)
      PROVE  UNCHANGED exited \/ exited' = exited \cup {"amf"}
  <2>1. CASE AmfSelect(w) \/ AmfClose(w) \/ HandleUe(w)
    BY <2>1 DEF AmfSelect, AmfClose, HandleUe
  <2>2. CASE ~(AmfSelect(w) \/ AmfClose(w) \/ HandleUe(w))
    BY <1>2, <2>2 DEF AmfStep, AmfWorker, InitialAttach, AttachInit, AttachAuth,
         HandleAutn, SecurityModeCmd, SetIntegrityContext,
         SendSecurityModeCmd, SecurityModeComplete, LocationUpdate, LocationDelete,
         LocationInsert, CreateSessionBegin, CreateSessionEnd, AttachComplete,
         ModifyBearerBegin, ModifyBearerEnd, DetachBegin, DetachEnd, RemItfid,
         RemUectx, IfKnown, Exit
  <2>. QED  BY <2>1, <2>2
<1>3. ASSUME NEW w \in Workers, SmfStep(w)
      PROVE  UNCHANGED exited \/ exited' = exited \cup {"smf"}
  BY <1>3 DEF SmfStep, SmfWorker, RequestCreate, RequestModify, RequestRelease,
       RcvAnswer, RcvTimeout, UpdateCreate, Exit
<1>4. CASE AcceptStep \/ Lose \/ AmfCrash \/ UNCHANGED vars
  <2>1. UNCHANGED exited \/ exited' = exited \cup {"amf"}
    BY <1>4 DEF AcceptStep, Lose, LoseRequest, LoseReply, AmfCrash, Exit, vars
  <2>. QED  BY <2>1 DEF Running
<1>. QED  BY <1>1, <1>2, <1>3, <1>4 DEF Next, Finished, Running

\* A modify waits for the attach complete: the downlink is shut until then.
LEMMA ShutStep ==
    ASSUME TypeOK, Agreement, LinkOK, GrantsOK, Placement, BearerOK, UpfThreadCount = 1,
           \A n \in Ues : DownlinkShut(n), [Next]_vars,
           NEW n \in Ues
    PROVE  DownlinkShut(n)'
<1>0. /\ UpfThreads = {1} /\ upf[1] \in UpfThreadStates /\ upf \in [{1} -> UpfThreadStates]
      /\ upf_ctx \in [Imsis -> UpfContexts] /\ Imsi(n) \in Imsis /\ Imsi(n) # 0
      /\ DownlinkShut(n) /\ TablesOK(n) /\ ran[n] \in RanContexts
      /\ ran \in [Ues -> RanContexts]
  <2>1. UpfThreads = {1}
    BY DEF UpfThreads
  <2>. QED  BY <2>1, TablesApart DEF TypeOK, UpfTypeOK, BearerOK, RanTypeOK
<1>1. CASE UNCHANGED <<upf, upf_ctx>>
  <2>0. (Leaving(n)' <=> Leaving(n)) /\ upf_ctx'[Imsi(n)] = upf_ctx[Imsi(n)]
    BY <1>1 DEF Leaving, Thread
  <2>1. ran'[n].pc = "session" => ran[n].pc \in {"session", "security"}
    <3>1. CASE \E m \in Ues : RanStep(m)
      <4>1. PICK m \in Ues : RanStep(m)
        BY <3>1
      <4>2. ran[n].pc = "session" \/ ran'[n] = ran[n] \/ m = n
        BY <1>0, <4>1 DEF RanStep, RanThread, ConnMme, TimeExceeded, RanInitialAttach,
             RanAuthenticate, SetSecurity, SetEpsSession, RanDetach, DetachAccepted,
             ConnLost, RanGoto
      <4>3. ASSUME m = n, ran'[n].pc = "session" PROVE ran[n].pc = "security"
        <5>1. RanThread(n)
          BY <4>1, <4>3 DEF RanStep
        <5>2. CASE RanAuthenticate(n)
          <6>1. ASSUME NEW i, NEW k,
                       ran' = [ran EXCEPT ![n] = [@ EXCEPT !.mme_s1ap_ue_id = i,
                                          !.k_asme = k, !.pc = "security"]]
                PROVE  ran'[n].pc = "security"
            BY <1>0, <6>1 DEF RanContexts
          <6>2. ASSUME NEW i,
                       ran' = [ran EXCEPT ![n] = [@ EXCEPT !.mme_s1ap_ue_id = i,
                                          !.pc = "failed"]]
                PROVE  ran'[n].pc = "failed"
            BY <1>0, <6>2 DEF RanContexts
          <6>3. \/ \E i, k : ran' = [ran EXCEPT ![n] = [@ EXCEPT !.mme_s1ap_ue_id = i,
                                          !.k_asme = k, !.pc = "security"]]
                \/ \E i : ran' = [ran EXCEPT ![n] = [@ EXCEPT !.mme_s1ap_ue_id = i,
                                          !.pc = "failed"]]
            BY <5>2 DEF RanAuthenticate
          <6>. QED  BY <4>3, <6>1, <6>2, <6>3
        <5>3. CASE RanInitialAttach(n)
          BY <1>0, <4>3, <5>3 DEF RanInitialAttach, RanContexts
        <5>6. CASE SetEpsSession(n)
          <6>1. \E c : ran' = [ran EXCEPT ![n] = c] /\ c.pc = "data"
            <7> DEFINE c == [ran[n] EXCEPT !.guti = Head(down[n]).guti,
                        !.s1_uteid_ul = Head(down[n]).ul, !.s1_uteid_dl = Head(down[n]).ul,
                        !.ip_addr = Head(down[n]).ip, !.pc = "data"]
            <7>1. ran' = [ran EXCEPT ![n] = c]
              BY <1>0, <5>6 DEF SetEpsSession
            <7>2. c.pc = "data"
              BY <1>0 DEF RanContexts
            <7>. QED  BY <7>1, <7>2
          <6>. QED  BY <1>0, <4>3, <6>1
        <5>4. CASE SetSecurity(n)
          BY <5>4 DEF SetSecurity
        <5>5. CASE ConnMme(n) \/ TimeExceeded(n) \/ RanDetach(n) \/ DetachAccepted(n)
                   \/ ConnLost(n)
          <6>1. \E pc \in {"start", "done", "detach", "failed"} : RanGoto(n, pc)
            BY <5>5 DEF ConnMme, TimeExceeded, RanDetach, DetachAccepted, ConnLost
          <6>2. ran'[n].pc \in {"start", "done", "detach", "failed"}
            BY <1>0, <6>1 DEF RanGoto, RanContexts
          <6>. QED  BY <4>3, <6>2
        <5>. QED  BY <5>1, <5>2, <5>3, <5>4, <5>5, <5>6 DEF RanThread
      <4>. QED  BY <4>2, <4>3
    <3>2. CASE ~\E m \in Ues : RanStep(m)
      BY <3>2 DEF Next, Finished, vars, AcceptStep, AmfStep, SmfStep, UpfStep, Lose,
                  AmfCrash, ranVars
    <3>. QED  BY <3>1, <3>2
  <2>2. CASE ran[n].pc = "security"
    <3>1. Away(n)
      BY <1>0, <2>2 DEF TablesOK, ToBeAway, AwayPhase
    <3>2. Leaving(n) \/ ~upf_ctx[Imsi(n)].enodeb
      BY <3>1 DEF Away, Gone, NoContext, NoUpfContext
    <3>. QED  BY <2>0, <3>2 DEF DownlinkShut
  <2>3. CASE ran[n].pc # "security"
    BY <1>0, <2>0, <2>1, <2>3 DEF DownlinkShut
  <2>. QED  BY <2>2, <2>3
<1>2. CASE UpfStep(1)
  <2>0. UpfThread(1) /\ UNCHANGED <<ran, up, down, amf, smf>>
    BY <1>2 DEF UpfStep, linkVars, amfVars, ranVars, smfVars
  <2>. SUFFICES ASSUME ran[n].pc = "session" PROVE Leaving(n)' \/ ~upf_ctx'[Imsi(n)].enodeb
    BY <2>0 DEF DownlinkShut
  <2>1. Leaving(n) \/ ~upf_ctx[Imsi(n)].enodeb
    BY <1>0 DEF DownlinkShut
  <2>2. CASE ModifyContext(1)
    <3>1. PICK w \in Workers : w = upf[1].w
      BY <1>0 DEF UpfThreadStates
    <3>2. PICK m \in Ues : m = amf[w].ue
      BY AmfStateType DEF TypeOK
    <3>3. upf[1].pc = "m_ctx"
      BY <2>2 DEF ModifyContext
    <3>4. Answers(w, m)
      BY <1>0, <2>0, <3>1, <3>2, <3>3 DEF Answers, Answering, AnsweringPcs
    <3>5. upf[1].imsi = Imsi(m) /\ upf[1].typ = "modify" /\ amf[w].pc = "modify_end"
      BY <3>3, <3>4, AnswersFacts
    <3>6. ran[m].pc # "session"
      BY <3>2, <3>5 DEF Agreement, ServiceOK, WorkerOK, CompletePcs, ServesComplete
    <3>7. m # n /\ Imsi(m) # Imsi(n)
      BY <3>6, TablesApart
    <3>8. upf_ctx'[Imsi(n)] = upf_ctx[Imsi(n)]
      BY <1>0, <2>2, <3>5, <3>7 DEF ModifyContext
    <3>9. ~Leaving(n)
      BY <3>3 DEF Leaving, Thread, RemovalPcs
    <3>. QED  BY <2>1, <3>8, <3>9
  <2>3. CASE CreateContext(1)
    <3>1. upf[1].pc = "c_ctx"
      BY <2>3 DEF CreateContext
    <3>2. ~Leaving(n)
      BY <3>1 DEF Leaving, Thread, RemovalPcs
    <3>3. upf_ctx'[Imsi(n)].enodeb = upf_ctx[Imsi(n)].enodeb
      <4>1. CASE upf[1].imsi = Imsi(n)
        BY <1>0, <2>3, <4>1 DEF CreateContext, UpfContexts
      <4>2. CASE upf[1].imsi # Imsi(n)
        BY <1>0, <2>3, <4>2 DEF CreateContext
      <4>. QED  BY <4>1, <4>2
    <3>. QED  BY <2>1, <3>2, <3>3
  <2>4. CASE RemUpfContext(1)
    <3>1. upf_ctx' = [upf_ctx EXCEPT ![upf[1].imsi] = NoUpfContext] /\ upf[1].pc = "d_rem"
      BY <2>4 DEF RemUpfContext
    <3>2. CASE upf[1].imsi = Imsi(n)
      BY <1>0, <3>1, <3>2 DEF NoUpfContext
    <3>3. CASE upf[1].imsi # Imsi(n)
      BY <1>0, <2>1, <3>1, <3>3 DEF Leaving, Thread
    <3>. QED  BY <3>2, <3>3
  <2>5. CASE ~ModifyContext(1) /\ ~CreateContext(1) /\ ~RemUpfContext(1)
    <3>1. UNCHANGED upf_ctx
      BY <2>0, <2>5 DEF UpfThread, UpfReceive, UpfSend, CreateS11, CreateS1, CreateSgi,
           UpfLookup, DetachContext, DetachS11, DetachS1, DetachSgi, upfTables
    <3>2. ASSUME Leaving(n) PROVE Leaving(n)'
      BY <1>0, <2>0, <2>5, <3>2 DEF UpfThread, UpfReceive, UpfSend, CreateS11, CreateS1,
           CreateSgi, UpfLookup, DetachContext, DetachS11, DetachS1, DetachSgi, UpfGoto,
           Leaving, Thread, RemovalPcs, UpfThreadStates
    <3>. QED  BY <2>1, <3>1, <3>2
  <2>. QED  BY <2>2, <2>3, <2>4, <2>5
<1>3. UpfStep(1) \/ UNCHANGED <<upf, upf_ctx>>
  <2>1. ASSUME NEW w \in Workers, AmfStep(w) PROVE UNCHANGED <<upf, upf_ctx>>
    BY <2>1, AmfLeavesUpf DEF AmfStep, upfTables
  <2>2. ASSUME NEW w \in Workers, SmfStep(w) PROVE UNCHANGED <<upf, upf_ctx>>
    BY <2>2 DEF SmfStep, SmfWorker, RequestCreate, RequestModify, RequestRelease,
       RcvAnswer, RcvTimeout, UpdateCreate, upfVars, upfTables
  <2>3. CASE Lose
    BY <2>3 DEF Lose, LoseRequest, LoseReply, upfTables
  <2>4. CASE (\E m \in Ues : RanStep(m)) \/ AcceptStep \/ AmfCrash \/ UNCHANGED vars
    BY <2>4 DEF RanStep, AcceptStep, AmfCrash, vars, upfVars
  <2>. QED  BY <1>0, <2>1, <2>2, <2>3, <2>4 DEF Next, Finished
<1>. QED  BY <1>1, <1>2, <1>3

\* At the start there is nothing in the tables, and nobody relies on anything.
LEMMA BearerInit == Init => BearerInv
<1>. SUFFICES ASSUME Init, UpfThreadCount = 1
              PROVE  Running("upf") /\ BearerOK /\ \A n \in Ues : DownlinkShut(n)
  BY LinkInit DEF BearerInv
<1>0. 1 \in UpfThreads
  BY DEF UpfThreads
<1>1. /\ \A n \in Ues : ran[n].pc = "connect" /\ up[n] = <<>> /\ down[n] = <<>>
      /\ \A w \in Workers : /\ amf[w].pc = "idle" /\ smf[w].pc = "idle"
                            /\ n4_rsp[w] = <<>>
      /\ exited = {} /\ upf[1] = IdleThread
      /\ \A t \in Teids : s11_id[t] = 0 /\ s1_id[t] = 0
      /\ \A a \in Addresses : sgi_id[a] = 0
      /\ \A i \in Imsis : upf_ctx[i] = NoUpfContext
  BY <1>0 DEF Init, RanInit, NewRan, ServerInit, AmfInit, IdleAmf, SmfInit, IdleSmf,
         UpfInit
<1>2. ASSUME NEW n \in Ues PROVE TablesOK(n)
  <2>1. Gone(n)
    BY <1>1, TablesApart DEF Gone, Entered, NoContext
  <2>2. ~ToBeFull(n) /\ ~ToBeActive(n)
    BY <1>1 DEF ToBeFull, ToBeActive, Accepted, InSession, Serves
  <2>. QED  BY <2>1, <2>2 DEF TablesOK, Away
<1>3. ThreadOK
  BY <1>1 DEF ThreadOK, ThreadFor, Thread, IdleThread, RemovalPcs, CreateOK, Leaving
<1>4. \A w \in Workers : AnswerOK(w)
  BY <1>1 DEF AnswerOK
<1>5. \A n \in Ues : DownlinkShut(n)
  BY <1>1 DEF DownlinkShut
<1>. QED  BY <1>1, <1>2, <1>3, <1>4, <1>5 DEF BearerOK, Running

\* Every step keeps the tables where they should be.
LEMMA BearerStep ==
    ASSUME TypeOK, FreshIds, LookupInv, ConvInv, BearerInv, [Next]_vars
    PROVE  BearerInv'
<1>1. LinkInv'
  BY LinkStep DEF BearerInv
<1>2. ASSUME UpfThreadCount = 1, NoWrap', Prompt'
      PROVE  Running("upf")' /\ BearerOK' /\ \A n \in Ues : DownlinkShut(n)'
  <2>1. NoWrap /\ Prompt
    BY <1>2, WrapsOnce, PromptBefore
  <2>2. /\ Placement /\ Agreement /\ Running("upf") /\ BearerOK
        /\ LinkOK /\ GrantsOK /\ \A n \in Ues : DownlinkShut(n)
    BY <1>2, <2>1 DEF ConvInv, BearerInv, LinkInv
  <2>0. \A n \in Ues : DownlinkShut(n)'
    BY <1>2, <2>2, ShutStep
  <2>3. ASSUME \E t \in UpfThreads : UpfStep(t) PROVE Running("upf")' /\ BearerOK'
    BY <1>2, <2>2, <2>3, UpfStepBearer DEF Running
  <2>4. ASSUME ~\E t \in UpfThreads : UpfStep(t) PROVE Running("upf")' /\ BearerOK'
    <3>0. Running("upf")'
      BY <2>2, <2>4, UpfRuns
    <3>1. ASSUME NEW n \in Ues, RanStep(n) PROVE BearerOK'
      BY <2>2, <3>1, RanStepBearer
    <3>2. ASSUME NEW w \in Workers, AmfStep(w) PROVE BearerOK'
      BY <1>2, <2>2, <3>2, AmfStepBearer
    <3>3. ASSUME NEW w \in Workers, SmfStep(w) PROVE BearerOK'
      BY <1>2, <2>2, <3>3, SmfStepBearer
    <3>4. CASE Lose
      BY <2>2, <3>0, <3>4, LoseBearer
    <3>5. CASE AcceptStep \/ AmfCrash \/ UNCHANGED vars
      <4>1. /\ UNCHANGED <<ran, up, down, amf, smf, upf, upfTables>>
            /\ UNCHANGED <<n4_req, n4_rsp>>
        BY <3>5 DEF AcceptStep, Accept, AmfCrash, vars, upfVars, upfTables, smfVars,
                    linkVars, amfVars, ranVars
      <4>2. \A x \in Workers : CallStays(x) /\ AnswerOK(x)'
        BY <2>2, <4>1 DEF CallStays, Queued, Answering, AnswerOK, BearerOK
      <4>. QED  BY <2>2, <3>0, <4>1, <4>2, ClaimsStay, TablesFrame
    <3>. QED  BY <2>4, <3>0, <3>1, <3>2, <3>3, <3>4, <3>5 DEF Next, Finished
  <2>. QED  BY <2>0, <2>3, <2>4
<1>. QED  BY <1>1, <1>2 DEF BearerInv

\* With one N4 thread, until the counter wraps or a worker of the SMF gives up:
\* the teid tables, the address table and the context of a subscriber are there
\* from the create that was answered to the detach that is (upf.cpp,
\* handle_create_session to handle_detach), and gone before and behind; a lookup
\* of the UPF never fails. A lost datagram or the end of the AMF changes nothing.
THEOREM BearersKept == Spec => []BearerInv
<1>1. TypeOK /\ FreshIds /\ LookupInv /\ ConvInv /\ BearerInv /\ [Next]_vars => BearerInv'
  BY BearerStep
<1>. QED
  BY <1>1, BearerInit, TypeCorrect, NextIdsFree, LookupHolds, ConversationAgrees,
     PTL DEF Spec

----------------------------------------------------------------------------
(* What the core promises of its sessions                                  *)

\* While the simulator uses a session, its address and its teid are its own and
\* the three lookups of the UPF lead from them back to it.
THEOREM SessionsSound ==
    Spec => [](UpfThreadCount = 1 /\ NoWrap /\ Prompt => SessionSound)
<1>1. TypeOK /\ ConvInv /\ BearerInv /\ UpfThreadCount = 1 /\ NoWrap /\ Prompt
         => SessionSound
  <2>. SUFFICES ASSUME TypeOK, Agreement, GrantsOK, BearerOK, NEW n \in Ues, HasSession(n)
                PROVE  /\ ran[n].guti = Guti(n)
                       /\ ran[n].ip_addr = IpAddr(Imsi(n))
                       /\ s11_id[Teid(n)] = Imsi(n)
                       /\ s1_id[ran[n].s1_uteid_ul] = Imsi(n)
                       /\ sgi_id[ran[n].ip_addr] = Imsi(n)
                       /\ upf_ctx[Imsi(n)].present
                       /\ uplink_info[ran[n].ip_addr] = ran[n].s1_uteid_ul
    BY DEF ConvInv, BearerInv, LinkInv, SessionSound
  <2>1. ran[n].pc = "data" /\ UeOK(n) /\ UdmOK(n) /\ GrantOK(n) /\ TablesOK(n)
    BY DEF HasSession, Agreement, SubscriberOK, GrantsOK, BearerOK
  <2>2. ran[n].guti = Guti(n) /\ Stored(n) /\ uplink_info[IpAddr(Imsi(n))] = Teid(n)
    BY <2>1 DEF UeOK, GrantOK
  <2>3. ran[n].ip_addr = IpAddr(Imsi(n)) /\ ran[n].s1_uteid_ul = Teid(n)
    BY <2>1, <2>2 DEF UdmOK, Stored
  <2>4. Full(n)
    BY <2>1 DEF TablesOK, ToBeFull, InSession
  <2>5. /\ s11_id[Teid(n)] = Imsi(n) /\ s1_id[Teid(n)] = Imsi(n)
        /\ sgi_id[IpAddr(Imsi(n))] = Imsi(n) /\ upf_ctx[Imsi(n)].present
    BY <2>4 DEF Full, Entered, HasContext
  <2>. QED  BY <2>2, <2>3, <2>5
<1>. QED  BY <1>1, BearersKept, ConversationAgrees, TypeCorrect, PTL

\* The datagram a worker of the SMF is about to take answers its own request, by
\* type and by teid.
THEOREM AnswersMatch ==
    Spec => [](UpfThreadCount = 1 /\ NoWrap /\ Prompt => AnswerMatches)
<1>1. TypeOK /\ BearerInv /\ UpfThreadCount = 1 /\ NoWrap /\ Prompt => AnswerMatches
  <2>. SUFFICES ASSUME TypeOK, LinkOK, BearerOK, NEW w \in Workers,
                       smf[w].pc = "wait", n4_rsp[w] # <<>>
                PROVE  /\ Head(n4_rsp[w]).typ = smf[w].typ
                       /\ Head(n4_rsp[w]).teid = smf[w].asked
    BY DEF BearerInv, LinkInv, AnswerMatches
  <2>1. Head(n4_rsp[w]) = n4_rsp[w][1]
    BY OneReply DEF TypeOK
  <2>. QED  BY <2>1 DEF LinkOK, ReplyOK, BearerOK, AnswerOK
<1>. QED  BY <1>1, BearersKept, TypeCorrect, PTL

\* The UPF releases no bearer that has not been modified before, although nothing
\* makes a detach request wait for the attach complete before it.
THEOREM ModifiedBeforeRelease ==
    Spec => [](UpfThreadCount = 1 /\ NoWrap /\ Prompt => ReleaseAfterModify)
<1>1. TypeOK /\ ConvInv /\ BearerInv /\ UpfThreadCount = 1 /\ NoWrap /\ Prompt
         => ReleaseAfterModify
  <2>. SUFFICES ASSUME TypeOK, Agreement, LinkOK, GrantsOK, BearerOK,
                       UpfThreadCount = 1, upf[1].pc = "d_ctx"
                PROVE  upf_ctx[upf[1].imsi].enodeb
    BY DEF ConvInv, BearerInv, LinkInv, ReleaseAfterModify, UpfThreads
  <2>0. 1 \in UpfThreads /\ upf[1] \in UpfThreadStates
    BY DEF UpfThreads, TypeOK, UpfTypeOK
  <2>1. PICK w \in Workers : w = upf[1].w
    BY <2>0 DEF UpfThreadStates
  <2>2. PICK n \in Ues : n = amf[w].ue
    BY AmfStateType DEF TypeOK
  <2>3. /\ smf[w].pc = "wait" /\ smf[w].typ = "release"
        /\ smf[w].asked = TeidOf(upf[1].imsi)
    BY <2>0, <2>1 DEF LinkOK, HandlerOK, AnsweringPcs
  <2>4. smf[w].asked = Teid(n) /\ amf[w].pc = "detach_end"
    BY <2>2, <2>3 DEF GrantsOK, CallGrantOK, Agreement, ServiceOK, CallOK
  <2>5. upf[1].imsi = Imsi(n)
    <3>1. upf[1].imsi \in {0} \cup Imsis /\ TeidOf(upf[1].imsi) = Teid(n)
      BY <2>0, <2>3, <2>4 DEF UpfThreadStates
    <3>. QED  BY <3>1 DEF Teid, TeidOf, GetS11CteidAmf, GetGuti, Guti, Imsi, Imsis, Ues
  <2>6. Serves(w, n) /\ ActiveFor(w)
    BY <2>1, <2>2, <2>3, <2>4 DEF Serves, ActiveFor, Handled, Answering, AnsweringPcs
  <2>7. Active(n)
    BY <2>6 DEF BearerOK, TablesOK, ToBeActive
  <2>. QED  BY <2>5, <2>7 DEF Active
<1>. QED  BY <1>1, BearersKept, ConversationAgrees, TypeCorrect, PTL

\* No assertion ends a process of the core: with one N4 thread a lost datagram is
\* not enough, it takes a late one.
THEOREM NobodyExits ==
    Spec => [](/\ UpfThreadCount = 1 /\ NoWrap /\ Prompt /\ ~MayCrash
               => NoProcessExits)
<1>1. ConvInv /\ BearerInv /\ UpfThreadCount = 1 /\ NoWrap /\ Prompt /\ ~MayCrash
         => NoProcessExits
  BY DEF ConvInv, Agreement, OnlyUpfExits, BearerInv, Running, NoProcessExits
<1>. QED  BY <1>1, BearersKept, ConversationAgrees, PTL

----------------------------------------------------------------------------
(* The records of the AMF                                                  *)

Records ==
    /\ \A n \in Ues : RecordOK(n)
    /\ \A w \in Workers : HandlerGutiOK(w)

\* The steps of a handler on which an id, or a context, is kept for n alone.
IdPcs == {"attach_init", "attach_auth", "rem_itfid"}
ContextPcs == {"attach_auth", "rem_itfid", "rem_uectx"}

\* Who is where it was needs what it has needed.
LEMMA RecordStays ==
    ASSUME NEW m \in Ues, RecordOK(m), ran'[m] = ran[m], down'[m] = down[m],
           \A x \in Workers : Serves(x, m) => amf'[x] = amf[x],
           \A id \in MmeIds : s1amf_id'[id] = Guti(m) => s1amf_id[id] = Guti(m),
           amf_ctx'[Guti(m)].present => amf_ctx[Guti(m)].present
    PROVE  RecordOK(m)'
<1>1. (IdInUse(m)' <=> IdInUse(m)) /\ (Challenged(m)' <=> Challenged(m))
  BY DEF IdInUse, HasAnId, Challenged
<1>2. \A x \in Workers : Serves(x, m) => Serves(x, m)' /\ amf'[x] = amf[x]
  BY DEF Serves
<1>3. \A id : IdHeld(m, id) => IdHeld(m, id)'
  BY <1>1, <1>2 DEF IdHeld
<1>4. ContextHeld(m) => ContextHeld(m)'
  BY <1>1, <1>2 DEF ContextHeld
<1>. QED  BY <1>3, <1>4 DEF RecordOK

\* The simulator takes an id over from the challenge and keeps it until its
\* detach is answered.
LEMMA RanRecords ==
    ASSUME TypeOK, Agreement, Records, NEW n \in Ues, RanStep(n)
    PROVE  Records'
<1>0. /\ RanThread(n) /\ UNCHANGED <<s1amf_id, amf_ctx, amf>> /\ SubscriberOK(n)
      /\ ran \in [Ues -> RanContexts] /\ ran[n] \in RanContexts
      /\ down \in [Ues -> Seq(DownlinkMessages)] /\ down[n] \in Seq(DownlinkMessages)
  BY DEF RanStep, amfVars, Agreement, TypeOK, RanTypeOK, ServerTypeOK
<1>f. ran[n].pc # "failed"
  BY <1>0 DEF RanThread, ConnMme, TimeExceeded, RanInitialAttach, RanAuthenticate,
     SetSecurity, SetEpsSession, RanDetach, DetachAccepted, ConnLost
<1>1. \A m \in Ues \ {n} : RecordOK(m)'
  BY <1>0, RanSteps, RecordStays DEF Records
<1>2. \A w \in Workers : HandlerGutiOK(w)'
  BY <1>0 DEF Records, HandlerGutiOK
<1>a. ASSUME \/ ran'[n].pc = "failed"
             \/ /\ IdInUse(n) => IdInUse(n)' /\ ran'[n].mme_s1ap_ue_id = ran[n].mme_s1ap_ue_id
                /\ Challenged(n) => IdInUse(n)' /\ ran'[n].mme_s1ap_ue_id = down[n][1].mme
      PROVE  RecordOK(n)'
  <2>1. \A id : IdHeld(n, id) => IdHeld(n, id)'
    BY <1>0, <1>f, <1>a DEF IdHeld, Serves
  <2>2. ContextHeld(n) => ContextHeld(n)'
    BY <1>0, <1>f, <1>a DEF ContextHeld, Serves
  <2>. QED  BY <1>0, <2>1, <2>2 DEF RecordOK, Records
<1>7. RecordOK(n)'
  <2>3. CASE ConnMme(n) \/ TimeExceeded(n) \/ RanInitialAttach(n) \/ DetachAccepted(n)
    <3>1. ran[n].pc \in {"connect", "start"} \/ (ran[n].pc = "detach" /\ down[n] # <<>>)
      BY <2>3 DEF ConnMme, TimeExceeded, RanInitialAttach, DetachAccepted, Received
    <3>2. ~IdInUse(n) /\ ~Challenged(n)
      BY <3>1 DEF IdInUse, HasAnId, Challenged
    <3>. QED  BY <1>a, <3>2
  <2>4. CASE RanAuthenticate(n)
    <3>1. ran[n].pc = "autn" /\ down[n] # <<>> /\ Head(down[n]) = down[n][1]
      BY <1>0, <2>4, HeadTailProperties DEF RanAuthenticate, Received
    <3>2. \/ \E k : ran' = [ran EXCEPT ![n] =
                 [@ EXCEPT !.mme_s1ap_ue_id = down[n][1].mme, !.k_asme = k, !.pc = "security"]]
          \/ ran' = [ran EXCEPT ![n] =
                 [@ EXCEPT !.mme_s1ap_ue_id = down[n][1].mme, !.pc = "failed"]]
      BY <2>4, <3>1 DEF RanAuthenticate
    <3>3. \/ ran'[n].pc = "failed"
          \/ ran'[n].pc = "security" /\ ran'[n].mme_s1ap_ue_id = down[n][1].mme
      <4>1. ASSUME NEW k, ran' = [ran EXCEPT ![n] =
                 [@ EXCEPT !.mme_s1ap_ue_id = down[n][1].mme, !.k_asme = k, !.pc = "security"]]
            PROVE  ran'[n].pc = "security" /\ ran'[n].mme_s1ap_ue_id = down[n][1].mme
        BY <1>0, <4>1 DEF RanContexts
      <4>2. ASSUME ran' = [ran EXCEPT ![n] =
                 [@ EXCEPT !.mme_s1ap_ue_id = down[n][1].mme, !.pc = "failed"]]
            PROVE  ran'[n].pc = "failed"
        BY <1>0, <4>2 DEF RanContexts
      <4>. QED  BY <3>2, <4>1, <4>2
    <3>4. ~IdInUse(n)
      BY <3>1 DEF IdInUse, HasAnId
    <3>5. ran'[n].pc = "security" => IdInUse(n)'
      BY DEF IdInUse, HasAnId
    <3>. QED  BY <1>a, <3>3, <3>4, <3>5
  <2>5. CASE SetSecurity(n) \/ SetEpsSession(n) \/ RanDetach(n)
    <3>1. /\ ran[n].pc \in {"security", "session", "data"}
          /\ ran'[n].mme_s1ap_ue_id = ran[n].mme_s1ap_ue_id
          /\ ran[n].pc = "security" => ran'[n].pc = "session"
          /\ ran[n].pc = "session" => ran'[n].pc = "data"
          /\ ran[n].pc = "data" => ran'[n].pc = "detach" /\ UNCHANGED down
      <4>1. CASE SetSecurity(n)
        <5>1. ran[n].pc = "security" /\ \E k : ran' = [ran EXCEPT ![n] =
                   [@ EXCEPT !.k_nas = k, !.pc = "session"]]
          BY <4>1 DEF SetSecurity
        <5>. QED  BY <1>0, <5>1 DEF RanContexts
      <4>2. CASE SetEpsSession(n)
        <5>1. ran[n].pc = "session" /\ \E g, u, d, a : ran' = [ran EXCEPT ![n] =
                   [@ EXCEPT !.guti = g, !.s1_uteid_ul = u, !.s1_uteid_dl = d,
                             !.ip_addr = a, !.pc = "data"]]
          BY <4>2 DEF SetEpsSession
        <5>. QED  BY <1>0, <5>1 DEF RanContexts
      <4>3. CASE RanDetach(n)
        <5>1. ran[n].pc = "data" /\ ran' = [ran EXCEPT ![n].pc = "detach"] /\ UNCHANGED down
          BY <4>3 DEF RanDetach, RanGoto
        <5>. QED  BY <1>0, <5>1 DEF RanContexts
      <4>. QED  BY <2>5, <4>1, <4>2, <4>3
    <3>2. ran[n].pc = "data" => down'[n] = <<>>
      BY <1>0, <3>1 DEF SubscriberOK, DownlinkOK
    <3>3. IdInUse(n)' /\ ~Challenged(n)
      BY <3>1, <3>2 DEF IdInUse, HasAnId, Challenged
    <3>. QED  BY <1>a, <3>1, <3>3
  <2>6. CASE ConnLost(n)
    <3>1. ran'[n].pc = "failed"
      BY <1>0, <2>6 DEF ConnLost, RanGoto, RanContexts
    <3>. QED  BY <1>a, <3>1
  <2>. QED  BY <1>0, <2>3, <2>4, <2>5, <2>6 DEF RanThread
<1>. QED  BY <1>1, <1>2, <1>7 DEF Records

\* A handler of w for n, with the records right.
Minds(w, n) ==
    /\ Handles(w, n) /\ HandlerKeeps(w, n) /\ AmfWorker(w) /\ Records
    /\ ~HandleUe(w)

\* What n needs it still needs, unless it was the step of w that needed it.
LEMMA HeldStays ==
    ASSUME NEW w, NEW n, Minds(w, n)
    PROVE  /\ \A id : IdHeld(n, id) =>
                 \/ IdHeld(n, id)'
                 \/ IdInUse(n) /\ id = ran[n].mme_s1ap_ue_id
                 \/ Challenged(n) /\ id = down[n][1].mme
                 \/ amf[w].pc \in IdPcs /\ id = amf[w].id
           /\ ContextHeld(n) =>
                 \/ ContextHeld(n)' \/ IdInUse(n) \/ Challenged(n)
                 \/ amf[w].pc \in ContextPcs
           /\ UNCHANGED down => /\ IdInUse(n)' <=> IdInUse(n)
                                /\ Challenged(n)' <=> Challenged(n)
<1>0. /\ UNCHANGED ran /\ \A x \in Workers \ {w} : amf'[x] = amf[x]
      /\ amf[w].ue = n
  BY WorkerSteps DEF Minds, Handles
<1>1. \A x \in Workers \ {w} : Serves(x, n) => Serves(x, n)' /\ amf'[x] = amf[x]
  BY <1>0 DEF Serves
<1>2. ASSUME NEW id, IdHeld(n, id)
      PROVE  \/ IdHeld(n, id)'
             \/ IdInUse(n) /\ id = ran[n].mme_s1ap_ue_id
             \/ Challenged(n) /\ id = down[n][1].mme
             \/ amf[w].pc \in IdPcs /\ id = amf[w].id
  BY <1>0, <1>1, <1>2 DEF IdHeld, IdPcs
<1>3. ContextHeld(n) => \/ ContextHeld(n)' \/ IdInUse(n) \/ Challenged(n)
                        \/ amf[w].pc \in ContextPcs
  BY <1>0, <1>1 DEF ContextHeld, ContextPcs
<1>4. UNCHANGED down => /\ IdInUse(n)' <=> IdInUse(n)
                        /\ Challenged(n)' <=> Challenged(n)
  BY <1>0 DEF IdInUse, HasAnId, Challenged
<1>. QED  BY <1>2, <1>3, <1>4

\* A handler that touches only the records of n: what is left to show is about n.
LEMMA HandlerRecords ==
    ASSUME NEW w, NEW n, Minds(w, n), RecordOK(n)', HandlerGutiOK(w)',
           \A id \in MmeIds :
              s1amf_id'[id] = s1amf_id[id] \/ s1amf_id'[id] \in {0, Guti(n)},
           \A g \in Imsis \ {Guti(n)} : amf_ctx'[g] = amf_ctx[g]
    PROVE  Records'
<1>0. /\ w \in Workers /\ n \in Ues /\ amf[w].ue = n /\ TypeOK
      /\ \A x \in Workers \ {w} : amf'[x] = amf[x]
  BY WorkerSteps DEF Minds, Handles
<1>1. ASSUME NEW m \in Ues, m # n PROVE RecordOK(m)'
  <2>1. Guti(m) # Guti(n) /\ Guti(m) # 0 /\ Guti(m) \in Imsis
    BY <1>0, <1>1, OwnFacts
  <2>2. ran'[m] = ran[m] /\ down'[m] = down[m]
    BY <1>1 DEF Minds, HandlerKeeps, Untouched
  <2>3. \A x \in Workers : Serves(x, m) => amf'[x] = amf[x]
    BY <1>0, <1>1 DEF Serves
  <2>4. \A id \in MmeIds : s1amf_id'[id] = Guti(m) => s1amf_id[id] = Guti(m)
    BY <2>1
  <2>5. amf_ctx'[Guti(m)] = amf_ctx[Guti(m)]
    BY <2>1
  <2>6. RecordOK(m)
    BY DEF Minds, Records
  <2>. QED  BY <2>2, <2>3, <2>4, <2>5, <2>6, RecordStays
<1>2. ASSUME NEW x \in Workers PROVE HandlerGutiOK(x)'
  BY <1>0 DEF Minds, Records, HandlerGutiOK
<1>. QED  BY <1>1, <1>2 DEF Records

\* While n has its id, a handler that enters no other for it keeps its records
\* right.
LEMMA InUseRecords ==
    ASSUME NEW w, NEW n, Minds(w, n), IdInUse(n), IdInUse(n)', HandlerGutiOK(w)',
           amf[w].pc \notin IdPcs,
           \A id \in MmeIds : s1amf_id'[id] = s1amf_id[id] \/ s1amf_id'[id] = 0,
           \A g \in Imsis \ {Guti(n)} : amf_ctx'[g] = amf_ctx[g]
    PROVE  Records'
<1>1. n \in Ues /\ RecordOK(n) /\ UNCHANGED ran /\ ~Challenged(n) /\ Guti(n) # 0
  BY OwnFacts DEF Minds, Handles, Records, IdInUse, HasAnId, Challenged
<1>2. \A id \in MmeIds : s1amf_id'[id] = Guti(n) => IdHeld(n, id)
  BY <1>1 DEF RecordOK
<1>3. \A id \in MmeIds : s1amf_id'[id] = Guti(n) => IdHeld(n, id)'
  BY <1>1, <1>2, HeldStays DEF IdHeld
<1>4. RecordOK(n)'
  BY <1>3 DEF RecordOK, ContextHeld
<1>. QED  BY <1>4, HandlerRecords
\* What a handler of w for n starts from.
LEMMA MindsFacts ==
    ASSUME NEW w, NEW n, Minds(w, n)
    PROVE  /\ w \in Workers /\ n \in Ues /\ TypeOK /\ amf \in [Workers -> AmfStates]
           /\ amf[w] \in AmfStates /\ amf[w].ue = n /\ amf[w].id \in MmeIds
           /\ s1amf_id \in [MmeIds -> {0} \cup Imsis]
           /\ amf_ctx \in [Imsis -> AmfContexts] /\ Guti(n) \in Imsis /\ Guti(n) # 0
           /\ RecordOK(n) /\ HandlerGutiOK(w) /\ UNCHANGED ran
<1>1. w \in Workers /\ n \in Ues /\ TypeOK /\ amf[w].ue = n /\ UNCHANGED ran
  BY DEF Minds, Handles
<1>2. AmfTypeOK
  BY <1>1 DEF TypeOK
<1>3. RecordOK(n) /\ HandlerGutiOK(w)
  BY <1>1 DEF Minds, Records
<1>. QED  BY <1>1, <1>2, <1>3, OwnFacts, AmfStateType DEF AmfTypeOK

\* The new id is held by the handler that entered it (amf.cpp:166).
LEMMA InitialAttachRecords ==
    ASSUME NEW w, NEW n, Minds(w, n), InitialAttach(w)
    PROVE  Records'
<1>0. /\ w \in Workers /\ n \in Ues /\ amf \in [Workers -> AmfStates]
      /\ amf[w] \in AmfStates /\ amf[w].ue = n
      /\ s1amf_id \in [MmeIds -> {0} \cup Imsis]
      /\ Guti(n) # 0 /\ RecordOK(n) /\ UNCHANGED <<ran, down, amf_ctx>>
      /\ amf[w].pc = "attach"
  BY MindsFacts DEF InitialAttach, AmfAt
<1>1. /\ amf[w].arg = Imsi(n) /\ GetGuti(Imsi(n)) = Guti(n)
      /\ ran[n].pc = "autn" /\ down[n] = <<>>
  BY <1>0, HandlerPhase, OwnFacts
     DEF Minds, Handles, ServiceOK, WorkerOK, ServesAttach, AttachPcs, Quiescent
<1>2. PICK id : id = (ue_count + 1) % IdSpace
  OBVIOUS
<1>3. /\ s1amf_id' = [s1amf_id EXCEPT ![id] = Guti(n)]
      /\ amf' = [amf EXCEPT ![w] = [@ EXCEPT !.id = id, !.guti = Guti(n),
                                            !.imsi = amf[w].arg, !.pc = "attach_init"]]
  BY <1>1, <1>2 DEF InitialAttach
<1>4. /\ amf'[w].pc = "attach_init" /\ amf'[w].id = id /\ amf'[w].ue = n
      /\ amf'[w].guti = Guti(n)
  BY <1>0, <1>3 DEF AmfStates
<1>5. HandlerGutiOK(w)'
  BY <1>0, <1>4 DEF HandlerGutiOK, Guti
<1>6. ~IdInUse(n) /\ ~Challenged(n) /\ amf[w].pc \notin IdPcs \cup ContextPcs
  BY <1>0, <1>1 DEF IdInUse, HasAnId, Challenged, IdPcs, ContextPcs
<1>7. IdHeld(n, id)'
  BY <1>0, <1>4 DEF IdHeld, Serves
<1>8. \A i \in MmeIds : s1amf_id'[i] = s1amf_id[i] \/ (i = id /\ s1amf_id'[i] = Guti(n))
  BY <1>0, <1>3
<1>9. RecordOK(n)'
  <2>1. ASSUME NEW i \in MmeIds, s1amf_id'[i] = Guti(n) PROVE IdHeld(n, i)'
    BY <1>0, <1>6, <1>7, <1>8, <2>1, HeldStays DEF RecordOK
  <2>2. amf_ctx'[Guti(n)].present => ContextHeld(n)'
    BY <1>0, <1>6, HeldStays DEF RecordOK
  <2>. QED  BY <2>1, <2>2 DEF RecordOK, Guti
<1>. QED  BY <1>0, <1>5, <1>8, <1>9, HandlerRecords

\* The context is created by the handler that then asks for the vector.
LEMMA AttachInitRecords ==
    ASSUME NEW w, NEW n, Minds(w, n), AttachInit(w)
    PROVE  Records'
<1>0. /\ w \in Workers /\ n \in Ues /\ TypeOK /\ amf[w].ue = n /\ RecordOK(n)
      /\ amf_ctx \in [Imsis -> AmfContexts]
      /\ UNCHANGED <<ran, down, s1amf_id>> /\ amf[w].pc = "attach_init"
      /\ AmfGoto(w, "attach_auth") /\ HandlerGutiOK(w)
  BY MindsFacts DEF AttachInit, AmfAt
<1>1. /\ amf'[w].pc = "attach_auth" /\ amf'[w].id = amf[w].id /\ amf'[w].ue = n
      /\ amf'[w].guti = amf[w].guti /\ amf[w].guti = Guti(n)
  BY <1>0, GotoFields DEF HandlerGutiOK, GutiPcs
<1>2. HandlerGutiOK(w)'
  BY <1>1 DEF HandlerGutiOK, Guti
<1>3. ~IdInUse(n) /\ ~Challenged(n)
  BY <1>0, HandlerPhase DEF Minds, AttachPcs, Quiescent, IdInUse, HasAnId, Challenged
<1>4. RecordOK(n)'
  <2>1. ASSUME NEW i \in MmeIds, s1amf_id'[i] = Guti(n) PROVE IdHeld(n, i)'
    <3>1. IdHeld(n, i)' \/ i = amf[w].id
      BY <1>0, <1>3, <2>1, HeldStays DEF RecordOK
    <3>. QED  BY <1>0, <1>1, <3>1 DEF IdHeld, Serves
  <2>2. ContextHeld(n)'
    BY <1>0, <1>1 DEF ContextHeld, Serves
  <2>. QED  BY <2>1, <2>2 DEF RecordOK, Guti
<1>5. \A g \in Imsis \ {Guti(n)} : amf_ctx'[g] = amf_ctx[g]
  <2>1. amf_ctx' = [amf_ctx EXCEPT ![Guti(n)].present = TRUE]
    BY <1>1 DEF AttachInit
  <2>. QED  BY <1>0, <2>1
<1>. QED  BY <1>0, <1>2, <1>4, <1>5, HandlerRecords

\* The challenge takes the id over from the handler.
LEMMA AttachAuthRecords ==
    ASSUME NEW w, NEW n, Minds(w, n), AttachAuth(w)
    PROVE  Records'
<1>0. /\ w \in Workers /\ n \in Ues /\ TypeOK /\ amf[w].ue = n /\ RecordOK(n)
      /\ amf \in [Workers -> AmfStates]
      /\ UNCHANGED <<ran, amf_ctx, s1amf_id>> /\ amf[w].pc = "attach_auth"
      /\ AmfReturn(w)
  BY MindsFacts DEF AttachAuth, AmfAt
<1>1. ran[n].pc = "autn" /\ down[n] = <<>>
  BY <1>0, HandlerPhase DEF Minds, AttachPcs, Quiescent
<1>2. PICK m : m = [DownlinkMessage(1, amf[w].id) EXCEPT
                      !.autn = AuthVector(amf[w].imsi).autn_num,
                      !.rand_num = AuthVector(amf[w].imsi).rand_num]
  OBVIOUS
<1>3. m.mme = amf[w].id
  BY <1>2 DEF DownlinkMessage
<1>4. SendDown(w, m)
  BY <1>2 DEF AttachAuth
<1>5. down'[n] # <<>> /\ down'[n][1].mme = amf[w].id
  BY <1>0, <1>1, <1>3, <1>4, SentDown DEF Minds
<1>6. Challenged(n)'
  BY <1>0, <1>1, <1>5 DEF Challenged
<1>7. HandlerGutiOK(w)'
  BY <1>0 DEF AmfReturn, IdleAmf, HandlerGutiOK, GutiPcs
<1>8. ~IdInUse(n) /\ ~Challenged(n)
  BY <1>1 DEF IdInUse, HasAnId, Challenged
<1>9. RecordOK(n)'
  <2>1. ASSUME NEW i \in MmeIds, s1amf_id'[i] = Guti(n) PROVE IdHeld(n, i)'
    <3>1. IdHeld(n, i)' \/ i = amf[w].id
      BY <1>0, <1>8, <2>1, HeldStays DEF RecordOK
    <3>. QED  BY <1>5, <1>6, <3>1 DEF IdHeld
  <2>2. ContextHeld(n)'
    BY <1>6 DEF ContextHeld
  <2>. QED  BY <2>1, <2>2 DEF RecordOK, Guti
<1>. QED  BY <1>0, <1>7, <1>9, HandlerRecords

\* The handlers between the challenge and the detach keep the id they found, or
\* drop it with the context; none of them enters another.
LEMMA BetweenRecords ==
    ASSUME NEW w, NEW n, Minds(w, n),
           amf[w].pc \in AutnPcs \cup SessionPcs \cup CompletePcs \cup DetachPcs,
           UNCHANGED down \/ amf[w].pc \in AutnPcs \cup SessionPcs,
           amf'[w].pc \in GutiPcs => amf'[w].guti = Guti(n),
           amf'[w].pc # "idle" => amf'[w].ue = n,
           s1amf_id' = s1amf_id \/ s1amf_id' = [s1amf_id EXCEPT ![amf[w].id] = 0],
           amf_ctx' = amf_ctx \/ \E c : amf_ctx' = [amf_ctx EXCEPT ![Guti(n)] = c]
    PROVE  Records'
<1>0. /\ IdInUse(n) /\ amf \in [Workers -> AmfStates]
      /\ s1amf_id \in [MmeIds -> {0} \cup Imsis] /\ UNCHANGED ran
      /\ amf_ctx \in [Imsis -> AmfContexts] /\ Guti(n) \in Imsis
  BY HandlerId, MindsFacts DEF Minds
<1>5. IdInUse(n)'
  <2>1. CASE UNCHANGED down
    BY <1>0, <2>1 DEF IdInUse, HasAnId
  <2>2. CASE amf[w].pc \in AutnPcs \cup SessionPcs
    <3>1. ran[n].pc \in {"security", "session"}
      BY <2>2, HandlerPhase DEF Minds
    <3>. QED  BY <1>0, <3>1 DEF IdInUse, HasAnId
  <2>. QED  BY <2>1, <2>2
<1>1. HandlerGutiOK(w)'
  BY DEF HandlerGutiOK, GutiPcs, Guti
<1>2. amf[w].pc \notin IdPcs
  BY DEF IdPcs, AutnPcs, SessionPcs, CompletePcs, DetachPcs
<1>3. \A id \in MmeIds : s1amf_id'[id] = s1amf_id[id] \/ s1amf_id'[id] = 0
  BY <1>0
<1>4. \A g \in Imsis \ {Guti(n)} : amf_ctx'[g] = amf_ctx[g]
  BY <1>0
<1>. QED  BY <1>0, <1>1, <1>2, <1>3, <1>4, <1>5, InUseRecords

\* The answer to the challenge, up to the command that follows it.
LEMMA AutnRecords ==
    ASSUME NEW w, NEW n, Minds(w, n),
           \/ HandleAutn(w) \/ SecurityModeCmd(w) \/ SetIntegrityContext(w)
           \/ SendSecurityModeCmd(w)
    PROVE  Records'
<1>0. /\ w \in Workers /\ n \in Ues /\ TypeOK /\ amf[w].ue = n
      /\ amf \in [Workers -> AmfStates] /\ amf[w] \in AmfStates /\ ServiceOK(w)
  BY MindsFacts DEF Minds, Handles
<1>1. amf[w].pc \in AutnPcs
  BY DEF HandleAutn, SecurityModeCmd, SetIntegrityContext, SendSecurityModeCmd,
         AmfAt, AutnPcs
<1>2. GutiOf(w) = Guti(n) /\ GutiOf(w) # 0
  BY <1>1, HandlerId DEF Minds
<1>3. amf[w].pc = "integrity" => amf[w].guti = Guti(n)
  BY <1>0, <1>1 DEF ServiceOK, WorkerOK, ServesAutn
<1>4. /\ \/ amf' = [amf EXCEPT ![w] = IdleAmf]
         \/ \E pc \in AutnPcs : amf' = [amf EXCEPT ![w].pc = pc]
         \/ \E g : amf' = [amf EXCEPT ![w] = [@ EXCEPT !.guti = g, !.pc = "integrity"]]
      /\ s1amf_id' = s1amf_id \/ s1amf_id' = [s1amf_id EXCEPT ![amf[w].id] = 0]
      /\ amf_ctx' = amf_ctx \/ \E c : amf_ctx' = [amf_ctx EXCEPT ![Guti(n)] = c]
  <2>1. CASE HandleAutn(w)
    BY <1>2, <2>1 DEF HandleAutn, IfKnown, AmfGoto, AmfReturn, AutnPcs
  <2>2. CASE SecurityModeCmd(w)
    BY <1>2, <2>2 DEF SecurityModeCmd, IfKnown
  <2>3. CASE SetIntegrityContext(w)
    <3>1. amf_ctx' = [amf_ctx EXCEPT ![Guti(n)].present = TRUE]
      BY <1>3, <2>3 DEF SetIntegrityContext, AmfAt
    <3>2. amf' = [amf EXCEPT ![w].pc = "security_send"] /\ UNCHANGED s1amf_id
      BY <2>3 DEF SetIntegrityContext, AmfGoto
    <3>. QED  BY <3>1, <3>2 DEF AutnPcs
  <2>4. CASE SendSecurityModeCmd(w)
    BY <2>4 DEF SendSecurityModeCmd, AmfReturn
  <2>. QED  BY <2>1, <2>2, <2>3, <2>4
<1>5. /\ amf'[w].pc \notin GutiPcs
      /\ amf'[w].pc # "idle" => amf'[w].ue = n
  <2>1. CASE amf' = [amf EXCEPT ![w] = IdleAmf]
    BY <1>0, <2>1 DEF IdleAmf, GutiPcs
  <2>2. CASE \E pc \in AutnPcs : amf' = [amf EXCEPT ![w].pc = pc]
    BY <1>0, <2>2 DEF AmfStates, GutiPcs, AutnPcs
  <2>3. CASE \E g : amf' = [amf EXCEPT ![w] = [@ EXCEPT !.guti = g, !.pc = "integrity"]]
    BY <1>0, <2>3 DEF AmfStates, GutiPcs
  <2>. QED  BY <1>4, <2>1, <2>2, <2>3
<1>. QED  BY <1>1, <1>4, <1>5, BetweenRecords

\* From the security mode complete to the accept.
LEMMA SessionRecords ==
    ASSUME NEW w, NEW n, Minds(w, n),
           \/ SecurityModeComplete(w) \/ LocationUpdate(w) \/ LocationDelete(w)
           \/ LocationInsert(w) \/ CreateSessionBegin(w) \/ CreateSessionEnd(w)
    PROVE  Records'
<1>0. /\ w \in Workers /\ n \in Ues /\ TypeOK /\ amf[w].ue = n
      /\ amf \in [Workers -> AmfStates] /\ amf[w] \in AmfStates /\ ServiceOK(w)
  BY MindsFacts DEF Minds, Handles
<1>1. amf[w].pc \in SessionPcs
  BY DEF SecurityModeComplete, LocationUpdate, LocationDelete, LocationInsert,
         CreateSessionBegin, CreateSessionEnd, AmfAt, SessionPcs
<1>2. GutiOf(w) = Guti(n) /\ GutiOf(w) # 0
  BY <1>1, HandlerId DEF Minds
<1>3. amf[w].pc = "loc_insert" => amf[w].guti = Guti(n)
  BY <1>0, <1>1 DEF ServiceOK, WorkerOK, ServesSession
<1>4. /\ \/ amf' = [amf EXCEPT ![w] = IdleAmf]
         \/ \E pc \in SessionPcs : amf' = [amf EXCEPT ![w].pc = pc]
         \/ \E g, i : amf' = [amf EXCEPT ![w] = [@ EXCEPT !.guti = g, !.imsi = i,
                                                          !.pc = "loc_delete"]]
         \/ \E g : amf' = [amf EXCEPT ![w] = [@ EXCEPT !.guti = g, !.pc = "session_end"]]
      /\ s1amf_id' = s1amf_id
      /\ amf_ctx' = amf_ctx \/ \E c : amf_ctx' = [amf_ctx EXCEPT ![Guti(n)] = c]
  <2>1. CASE SecurityModeComplete(w)
    BY <1>2, <2>1 DEF SecurityModeComplete, IfKnown, AmfGoto, AmfReturn, SessionPcs
  <2>2. CASE LocationUpdate(w)
    BY <1>2, <2>2 DEF LocationUpdate, IfKnown
  <2>3. CASE LocationDelete(w)
    BY <2>3 DEF LocationDelete, AmfGoto, SessionPcs
  <2>4. CASE LocationInsert(w)
    <3>1. amf_ctx' = [amf_ctx EXCEPT ![Guti(n)] =
                          [@ EXCEPT !.present = TRUE, !.apn_in_use = 1]]
      BY <1>3, <2>4 DEF LocationInsert, AmfAt
    <3>2. amf' = [amf EXCEPT ![w].pc = "session"] /\ UNCHANGED s1amf_id
      BY <2>4 DEF LocationInsert, AmfGoto
    <3>. QED  BY <3>1, <3>2 DEF SessionPcs
  <2>5. CASE CreateSessionBegin(w)
    BY <1>2, <2>5 DEF CreateSessionBegin, IfKnown
  <2>6. CASE CreateSessionEnd(w)
    BY <2>6 DEF CreateSessionEnd, AmfReturn
  <2>. QED  BY <2>1, <2>2, <2>3, <2>4, <2>5, <2>6
<1>5. /\ amf'[w].pc \notin GutiPcs
      /\ amf'[w].pc # "idle" => amf'[w].ue = n
  <2>1. CASE amf' = [amf EXCEPT ![w] = IdleAmf]
    BY <1>0, <2>1 DEF IdleAmf, GutiPcs
  <2>2. CASE \E pc \in SessionPcs : amf' = [amf EXCEPT ![w].pc = pc]
    BY <1>0, <2>2 DEF AmfStates, GutiPcs, SessionPcs
  <2>3. CASE \E g, i : amf' = [amf EXCEPT ![w] = [@ EXCEPT !.guti = g, !.imsi = i,
                                                         !.pc = "loc_delete"]]
    BY <1>0, <2>3 DEF AmfStates, GutiPcs
  <2>4. CASE \E g : amf' = [amf EXCEPT ![w] = [@ EXCEPT !.guti = g,
                                                      !.pc = "session_end"]]
    BY <1>0, <2>4 DEF AmfStates, GutiPcs
  <2>. QED  BY <1>4, <2>1, <2>2, <2>3, <2>4
<1>. QED  BY <1>1, <1>4, <1>5, BetweenRecords

\* The attach complete and the modify bearer behind it.
LEMMA CompleteRecords ==
    ASSUME NEW w, NEW n, Minds(w, n),
           AttachComplete(w) \/ ModifyBearerBegin(w) \/ ModifyBearerEnd(w)
    PROVE  Records'
<1>0. /\ w \in Workers /\ n \in Ues /\ TypeOK /\ amf[w].ue = n
      /\ amf \in [Workers -> AmfStates] /\ amf[w] \in AmfStates /\ HandlerGutiOK(w)
  BY MindsFacts DEF Minds, Handles
<1>1. amf[w].pc \in CompletePcs
  BY DEF AttachComplete, ModifyBearerBegin, ModifyBearerEnd, AmfAt, CompletePcs
<1>2. GutiOf(w) = Guti(n) /\ GutiOf(w) # 0
  BY <1>1, HandlerId DEF Minds
<1>3. amf[w].pc = "modify_end" => amf[w].guti = Guti(n)
  BY <1>0 DEF HandlerGutiOK, GutiPcs
<1>4. /\ \/ amf' = [amf EXCEPT ![w] = IdleAmf]
         \/ amf' = [amf EXCEPT ![w].pc = "modify"]
         \/ amf' = [amf EXCEPT ![w] = [@ EXCEPT !.guti = Guti(n), !.pc = "modify_end"]]
      /\ UNCHANGED <<s1amf_id, down>>
      /\ amf_ctx' = amf_ctx \/ \E c : amf_ctx' = [amf_ctx EXCEPT ![Guti(n)] = c]
  <2>1. CASE AttachComplete(w)
    BY <1>2, <2>1 DEF AttachComplete, IfKnown, AmfGoto
  <2>2. CASE ModifyBearerBegin(w)
    BY <1>2, <2>2 DEF ModifyBearerBegin, IfKnown
  <2>3. CASE ModifyBearerEnd(w)
    BY <1>3, <2>3 DEF ModifyBearerEnd, AmfAt, AmfReturn
  <2>. QED  BY <2>1, <2>2, <2>3
<1>5. /\ amf'[w].pc \in GutiPcs => amf'[w].guti = Guti(n)
      /\ amf'[w].pc # "idle" => amf'[w].ue = n
  <2>1. CASE amf' = [amf EXCEPT ![w] = IdleAmf]
    BY <1>0, <2>1 DEF IdleAmf, GutiPcs
  <2>2. CASE amf' = [amf EXCEPT ![w].pc = "modify"]
    BY <1>0, <2>2 DEF AmfStates, GutiPcs
  <2>3. CASE amf' = [amf EXCEPT ![w] = [@ EXCEPT !.guti = Guti(n),
                                                 !.pc = "modify_end"]]
    BY <1>0, <2>3 DEF AmfStates, GutiPcs
  <2>. QED  BY <1>4, <2>1, <2>2, <2>3
<1>. QED  BY <1>1, <1>4, <1>5, BetweenRecords

\* The detach up to its answer; from there the handler that removes the entries
\* holds them.
LEMMA DetachRecords ==
    ASSUME NEW w, NEW n, Minds(w, n), DetachBegin(w) \/ DetachEnd(w)
    PROVE  Records'
<1>0. /\ w \in Workers /\ n \in Ues /\ TypeOK /\ amf[w].ue = n /\ RecordOK(n)
      /\ amf \in [Workers -> AmfStates] /\ amf[w] \in AmfStates /\ HandlerGutiOK(w)
      /\ ServiceOK(w) /\ UNCHANGED <<ran, s1amf_id, amf_ctx>>
  BY MindsFacts DEF Minds, Handles, DetachBegin, DetachEnd
<1>1. amf[w].pc \in DetachPcs
  BY DEF DetachBegin, DetachEnd, AmfAt, DetachPcs
<1>2. /\ GutiOf(w) = Guti(n) /\ GutiOf(w) # 0
      /\ IdInUse(n) /\ amf[w].id = ran[n].mme_s1ap_ue_id
      /\ ran[n].pc = "detach"
  BY <1>1, HandlerId, HandlerPhase DEF Minds
<1>3. CASE DetachBegin(w)
  <2>1. /\ amf' = [amf EXCEPT ![w] = [@ EXCEPT !.guti = amf[w].arg, !.pc = "detach_end"]]
        /\ amf[w].pc = "detach" /\ UNCHANGED down
    BY <1>2, <1>3 DEF DetachBegin, IfKnown, AmfAt
  <2>2. amf[w].arg = Guti(n)
    BY <1>0, <1>1, <2>1 DEF ServiceOK, WorkerOK, ServesDetach
  <2>3. amf'[w].guti = Guti(n) /\ amf'[w].ue = n
    BY <1>0, <2>1, <2>2 DEF AmfStates
  <2>. QED  BY <1>0, <1>1, <2>1, <2>3, BetweenRecords
<1>4. CASE DetachEnd(w) /\ ~smf[w].res
  <2>1. amf' = [amf EXCEPT ![w] = IdleAmf] /\ UNCHANGED down
    BY <1>4 DEF DetachEnd, AmfReturn
  <2>2. amf'[w].pc = "idle"
    BY <1>0, <2>1 DEF IdleAmf
  <2>. QED  BY <1>0, <1>1, <2>1, <2>2, BetweenRecords DEF GutiPcs
<1>5. CASE DetachEnd(w) /\ smf[w].res
  <2>1. AmfGoto(w, "rem_itfid") /\ amf[w].pc = "detach_end"
    BY <1>5 DEF DetachEnd, AmfAt
  <2>2. /\ amf'[w].pc = "rem_itfid" /\ amf'[w].id = amf[w].id /\ amf'[w].ue = n
        /\ amf'[w].guti = Guti(n)
    BY <1>0, <2>1, GotoFields DEF HandlerGutiOK, GutiPcs
  <2>3. HandlerGutiOK(w)'
    BY <2>2 DEF HandlerGutiOK, Guti
  <2>4. ~Challenged(n) /\ amf[w].pc \notin IdPcs
    BY <1>2, <2>1 DEF Challenged, IdPcs
  <2>5. RecordOK(n)'
    <3>1. ASSUME NEW i \in MmeIds, s1amf_id'[i] = Guti(n) PROVE IdHeld(n, i)'
      <4>1. IdHeld(n, i)' \/ i = amf[w].id
        BY <1>0, <1>2, <2>4, <3>1, HeldStays DEF RecordOK
      <4>. QED  BY <1>0, <2>2, <4>1 DEF IdHeld, Serves
    <3>2. ContextHeld(n)'
      BY <1>0, <2>2 DEF ContextHeld, Serves
    <3>. QED  BY <3>1, <3>2 DEF RecordOK, Guti
  <2>. QED  BY <1>0, <2>3, <2>5, HandlerRecords
<1>. QED  BY <1>3, <1>4, <1>5

\* First the id goes.
LEMMA RemItfidRecords ==
    ASSUME NEW w, NEW n, Minds(w, n), RemItfid(w)
    PROVE  Records'
<1>0. /\ w \in Workers /\ n \in Ues /\ TypeOK /\ amf[w].ue = n /\ RecordOK(n)
      /\ s1amf_id \in [MmeIds -> {0} \cup Imsis] /\ HandlerGutiOK(w) /\ Guti(n) # 0
      /\ UNCHANGED <<ran, amf_ctx, down>> /\ amf[w].pc = "rem_itfid"
      /\ amf[w].id \in MmeIds
  BY MindsFacts DEF RemItfid, AmfAt
<1>1. AmfGoto(w, "rem_uectx") /\ s1amf_id' = [s1amf_id EXCEPT ![amf[w].id] = 0]
  BY DEF RemItfid
<1>2. amf'[w].pc = "rem_uectx" /\ amf'[w].ue = n /\ amf'[w].guti = Guti(n)
  BY <1>0, <1>1, GotoFields DEF HandlerGutiOK, GutiPcs
<1>3. HandlerGutiOK(w)'
  BY <1>2 DEF HandlerGutiOK, Guti
<1>4. \A i \in MmeIds : (s1amf_id'[i] = s1amf_id[i] /\ i # amf[w].id) \/ s1amf_id'[i] = 0
  BY <1>0, <1>1
<1>5. RecordOK(n)'
  <2>1. ASSUME NEW i \in MmeIds, s1amf_id'[i] = Guti(n) PROVE IdHeld(n, i)'
    <3>1. i # amf[w].id /\ IdHeld(n, i)
      BY <1>0, <1>4, <2>1 DEF RecordOK
    <3>2. (IdInUse(n)' <=> IdInUse(n)) /\ (Challenged(n)' <=> Challenged(n))
      BY <1>0, HeldStays
    <3>. QED  BY <1>0, <3>1, <3>2, HeldStays DEF IdHeld
  <2>2. ContextHeld(n)'
    BY <1>0, <1>2 DEF ContextHeld, Serves
  <2>. QED  BY <2>1, <2>2 DEF RecordOK, Guti
<1>. QED  BY <1>0, <1>3, <1>4, <1>5, HandlerRecords

\* Then the context.
LEMMA RemUectxRecords ==
    ASSUME NEW w, NEW n, Minds(w, n), RemUectx(w)
    PROVE  Records'
<1>0. /\ w \in Workers /\ n \in Ues /\ amf[w].ue = n /\ RecordOK(n)
      /\ amf \in [Workers -> AmfStates] /\ amf_ctx \in [Imsis -> AmfContexts]
      /\ HandlerGutiOK(w) /\ Guti(n) \in Imsis
      /\ UNCHANGED <<ran, s1amf_id, down>> /\ amf[w].pc = "rem_uectx"
      /\ AmfReturn(w) /\ amf_ctx' = [amf_ctx EXCEPT ![amf[w].guti] = NoAmfContext]
  BY MindsFacts DEF RemUectx, AmfAt
<1>1. amf[w].guti = Guti(n)
  BY <1>0 DEF HandlerGutiOK, GutiPcs
<1>2. /\ ~amf_ctx'[Guti(n)].present
      /\ \A g \in Imsis \ {Guti(n)} : amf_ctx'[g] = amf_ctx[g]
  BY <1>0, <1>1 DEF NoAmfContext
<1>3. HandlerGutiOK(w)'
  BY <1>0 DEF AmfReturn, IdleAmf, HandlerGutiOK, GutiPcs
<1>4. RecordOK(n)'
  <2>1. ASSUME NEW i \in MmeIds, s1amf_id'[i] = Guti(n) PROVE IdHeld(n, i)'
    <3>1. (IdInUse(n)' <=> IdInUse(n)) /\ (Challenged(n)' <=> Challenged(n))
      BY <1>0, HeldStays
    <3>. QED  BY <1>0, <2>1, <3>1, HeldStays DEF RecordOK, IdHeld, IdPcs
  <2>. QED  BY <1>2, <2>1 DEF RecordOK, Guti
<1>. QED  BY <1>0, <1>2, <1>3, <1>4, HandlerRecords

\* A handler keeps the records of everybody right.
LEMMA HandlerStepRecords ==
    ASSUME NEW w, NEW n, Minds(w, n), ~AmfSelect(w), ~AmfClose(w)
    PROVE  Records'
BY InitialAttachRecords, AttachInitRecords, AttachAuthRecords, AutnRecords,
   SessionRecords, CompleteRecords, DetachRecords, RemItfidRecords, RemUectxRecords
   DEF Minds, AmfWorker

\* A worker that takes a message held nothing before.
LEMMA DeliverRecords ==
    ASSUME TypeOK, Records, NEW w \in Workers, NEW n, Delivers(w, n), UNCHANGED amf_ctx,
           \A x \in Workers \ {w} : amf'[x] = amf[x]
    PROVE  Records'
<1>0. amf \in [Workers -> AmfStates] /\ UNCHANGED <<ran, down, s1amf_id>>
  BY DEF TypeOK, AmfTypeOK, Delivers
<1>1. \A m \in Ues : RecordOK(m)'
  <2>1. \A m \in Ues, x \in Workers : Serves(x, m) => amf'[x] = amf[x]
    BY DEF Delivers, Serves
  <2>. QED  BY <1>0, <2>1, RecordStays DEF Records
<1>2. HandlerGutiOK(w)'
  <2>1. amf'[w].pc \notin GutiPcs
    <3>1. CASE HandlerOf(Head(up[n])) = "idle"
      BY <1>0, <3>1 DEF Delivers, IdleAmf, GutiPcs
    <3>2. CASE HandlerOf(Head(up[n])) # "idle"
      <4>1. amf'[w].pc = HandlerOf(Head(up[n]))
        BY <1>0, <3>2 DEF Delivers
      <4>2. \A m : HandlerOf(m) \in {"attach", "idle", "autn", "security_complete",
                                     "attach_complete", "detach"}
        BY DEF HandlerOf
      <4>. QED  BY <4>1, <4>2 DEF GutiPcs
    <3>. QED  BY <3>1, <3>2
  <2>. QED  BY <2>1 DEF HandlerGutiOK
<1>3. \A x \in Workers \ {w} : HandlerGutiOK(x)'
  BY DEF Records, HandlerGutiOK
<1>. QED  BY <1>1, <1>2, <1>3 DEF Records

\* Every other step leaves what the records read alone.
LEMMA RecordsUntouched ==
    ASSUME Records, UNCHANGED <<ran, down, amf, s1amf_id, amf_ctx>>
    PROVE  Records'
<1>1. \A m \in Ues : RecordOK(m)'
  BY RecordStays DEF Records
<1>. QED  BY <1>1 DEF Records, HandlerGutiOK

\* A worker of the AMF keeps them right, if the counter does not wrap.
LEMMA AmfStepRecords ==
    ASSUME TypeOK, Placement, FreshIds, Agreement, Records, NoWrap',
           NEW w \in Workers, AmfStep(w)
    PROVE  Records'
<1>0. /\ AmfWorker(w) /\ UNCHANGED ran /\ ServiceOK(w) /\ amf[w].ue \in Ues
  BY AmfStateType DEF AmfStep, ranVars, TypeOK, Agreement
<1>1. CASE AmfSelect(w) \/ AmfClose(w)
  <2>1. UNCHANGED <<ran, down, amf, s1amf_id, amf_ctx>>
    BY <1>0, <1>1 DEF AmfSelect, AmfClose, Select, CloseConn, linkVars, amfVars
  <2>. QED  BY <2>1, RecordsUntouched
<1>2. CASE HandleUe(w)
  <2>1. PICK i \in DOMAIN conns[w] : Delivers(w, conns[w][i])
    BY <1>0, <1>2 DEF HandleUe, Delivers, AmfAt, udmVars, smfVars
  <2>2. UNCHANGED amf_ctx /\ \A x \in Workers \ {w} : amf'[x] = amf[x]
    BY <1>0, <1>2, WorkerSteps DEF HandleUe
  <2>. QED  BY <2>1, <2>2, DeliverRecords
<1>3. CASE ~AmfSelect(w) /\ ~AmfClose(w) /\ ~HandleUe(w)
  <2>1. PICK n \in Ues : n = amf[w].ue
    BY <1>0
  <2>2. Handles(w, n)
    <3>1. amf[w].pc # "idle" /\ Running("amf")
      BY <1>0, <1>3 DEF AmfWorker, InitialAttach, AttachInit, AttachAuth, HandleAutn,
         SecurityModeCmd, SetIntegrityContext, SendSecurityModeCmd,
         SecurityModeComplete, LocationUpdate, LocationDelete, LocationInsert,
         CreateSessionBegin, CreateSessionEnd, AttachComplete, ModifyBearerBegin,
         ModifyBearerEnd, DetachBegin, DetachEnd, RemItfid, RemUectx, AmfAt
    <3>2. UNCHANGED up
      BY <1>0, <1>3 DEF AmfWorker, InitialAttach, AttachInit, AttachAuth, HandleAutn,
         SecurityModeCmd, SetIntegrityContext, SendSecurityModeCmd,
         SecurityModeComplete, LocationUpdate, LocationDelete, LocationInsert,
         CreateSessionBegin, CreateSessionEnd, AttachComplete, ModifyBearerBegin,
         ModifyBearerEnd, DetachBegin, DetachEnd, RemItfid, RemUectx, localFrame
    <3>. QED  BY <1>0, <2>1, <3>1, <3>2 DEF Handles, Agreement
  <2>3. Minds(w, n)
    BY <1>0, <1>3, <2>2, HandlerStepKeeps DEF Minds
  <2>. QED  BY <1>3, <2>3, HandlerStepRecords
<1>. QED  BY <1>1, <1>2, <1>3

\* At first there are no records.
LEMMA RecordsInit == Init => RecordInv
<1>. SUFFICES ASSUME Init PROVE Records
  BY FreshIdsInit DEF RecordInv, Records
<1>1. ASSUME NEW m \in Ues PROVE RecordOK(m)
  <2>1. Guti(m) \in Imsis /\ Guti(m) # 0
    BY OwnFacts
  <2>2. /\ \A id \in MmeIds : s1amf_id[id] = 0
        /\ ~amf_ctx[Guti(m)].present
    BY <2>1 DEF Init, AmfInit, NoAmfContext
  <2>. QED  BY <2>1, <2>2 DEF RecordOK
<1>2. ASSUME NEW w \in Workers PROVE HandlerGutiOK(w)
  BY DEF Init, AmfInit, IdleAmf, HandlerGutiOK, GutiPcs
<1>. QED  BY <1>1, <1>2 DEF Records

\* Every step keeps them right until the counter wraps.
LEMMA RecordsStep ==
    ASSUME TypeOK, ConvInv, RecordInv, [Next]_vars
    PROVE  RecordInv'
<1>1. FreshIds'
  BY FreshIdsStep DEF RecordInv
<1>2. ASSUME NoWrap' PROVE Records'
  <2>1. /\ Placement /\ Agreement /\ FreshIds /\ Records
    BY <1>2, WrapsOnce DEF ConvInv, RecordInv, Records
  <2>2. ASSUME NEW n \in Ues, RanStep(n) PROVE Records'
    BY <2>1, <2>2, RanRecords
  <2>3. ASSUME NEW w \in Workers, AmfStep(w) PROVE Records'
    BY <1>2, <2>1, <2>3, AmfStepRecords
  <2>4. CASE \/ \E w \in Workers : SmfStep(w)
             \/ \E t \in UpfThreads : UpfStep(t)
             \/ AcceptStep \/ Lose \/ AmfCrash \/ UNCHANGED vars
    <3>1. UNCHANGED <<ran, down, amf, s1amf_id, amf_ctx>>
      BY <2>4 DEF SmfStep, UpfStep, AcceptStep, Accept, Lose, AmfCrash, vars, linkVars,
                  amfVars, ranVars
    <3>. QED  BY <2>1, <3>1, RecordsUntouched
  <2>. QED  BY <2>2, <2>3, <2>4 DEF Next, Finished
<1>. QED  BY <1>1, <1>2 DEF RecordInv, Records

\* Until the counter wraps: the AMF holds an id (s1amf_id, amf.cpp:166) and a
\* context (ue_ctx) of a subscriber only while the subscriber has the id or is
\* told it, or a handler that serves it is about to send or to remove it
\* (amf.cpp, rem_itfid and rem_uectx); no fault changes that.
THEOREM RecordsKept == Spec => []RecordInv
<1>1. TypeOK /\ ConvInv /\ RecordInv /\ [Next]_vars => RecordInv'
  BY RecordsStep
<1>. QED  BY <1>1, RecordsInit, TypeCorrect, ConversationAgrees, PTL DEF Spec

\* A detached subscriber leaves nothing behind: when its handlers have ended and
\* the UPF is through with it, neither the tables of the UPF nor the records of
\* the AMF hold anything of it.
THEOREM NothingLeft ==
    Spec => [](UpfThreadCount = 1 /\ NoWrap /\ Prompt => NoResidue)
<1>1. TypeOK /\ BearerInv /\ RecordInv /\ UpfThreadCount = 1 /\ NoWrap /\ Prompt
         => NoResidue
  <2>. SUFFICES ASSUME TypeOK, BearerOK, Records, UpfThreadCount = 1, NEW n \in Ues,
                       Detached(n), ~BeingServed(n), ~AtUpf(n)
                PROVE  /\ s11_id[Teid(n)] = 0 /\ s1_id[Teid(n)] = 0
                       /\ sgi_id[IpAddr(Imsi(n))] = 0
                       /\ ~upf_ctx[Imsi(n)].present
                       /\ ~amf_ctx[Guti(n)].present
                       /\ \A id \in MmeIds : s1amf_id[id] # Guti(n)
    BY DEF BearerInv, RecordInv, Records, NoResidue
  <2>1. ran[n].pc \in {"start", "done"}
    BY DEF Detached
  <2>2. Gone(n)
    <3>1. Away(n)
      BY <2>1 DEF BearerOK, TablesOK, ToBeAway, AwayPhase
    <3>2. ~Leaving(n)
      BY DEF AtUpf, Leaving, Thread, RemovalPcs, UpfThreads
    <3>. QED  BY <3>1, <3>2 DEF Away
  <2>3. ~IdInUse(n) /\ ~Challenged(n) /\ \A w \in Workers : ~Serves(w, n)
    BY <2>1 DEF IdInUse, HasAnId, Challenged, BeingServed
  <2>4. ~ContextHeld(n) /\ \A id : ~IdHeld(n, id)
    BY <2>1, <2>3 DEF ContextHeld, IdHeld
  <2>. QED  BY <2>2, <2>4 DEF Gone, Entered, NoContext, NoUpfContext, Records, RecordOK
<1>. QED  BY <1>1, BearersKept, RecordsKept, TypeCorrect, PTL

----------------------------------------------------------------------------
(* How the core implements the two abstract specifications, step by step.  *)
(* Registration: the id table of the AMF and the id in each simulator      *)
(* thread, until the counter of the ids wraps.  Session: attach and detach *)
(* as a whole, with one N4 thread and without faults.                      *)

\* A step of Registration or none, under the refinement mapping.
Matched == R!Next \/ UNCHANGED R!vars

----------------------------------------------------------------------------
(* Registration: the mapping                                               *)

\* The owner of an id is the subscriber whose GUTI the table has.
LEMMA OwnerIs ==
    ASSUME TypeOK, NEW i \in MmeIds
    PROVE  /\ RegistrationOwner[i] = UeCount <=> s1amf_id[i] = 0
           /\ \A n \in Ues : RegistrationOwner[i] = n <=> s1amf_id[i] = Guti(n)
           /\ RegistrationOwner[i] \in Ues \cup {UeCount}
<1>1. s1amf_id[i] \in {0} \cup Imsis /\ UeCount \in Nat
  BY UeCountAssumption DEF TypeOK, AmfTypeOK
<1>. QED  BY <1>1 DEF RegistrationOwner, Ues, Imsis, Imsi, Guti, GetGuti

\* Registration sees the stage and the id of a simulator thread, nothing else.
LEMMA SameView ==
    ASSUME UNCHANGED s1amf_id,
           \A n \in Ues : /\ StageOf(ran'[n].pc) = StageOf(ran[n].pc)
                          /\ ran'[n].mme_s1ap_ue_id = ran[n].mme_s1ap_ue_id
    PROVE  UNCHANGED R!vars
<1>1. UNCHANGED RegistrationOwner
  BY DEF RegistrationOwner
<1>2. UNCHANGED RegistrationStage
  BY DEF RegistrationStage
<1>3. UNCHANGED RegistrationId
  BY DEF RegistrationId
<1>. QED  BY <1>1, <1>2, <1>3 DEF R!vars

\* A step of one simulator thread moves one stage.
LEMMA OneMoves ==
    ASSUME NEW n \in Ues, UNCHANGED s1amf_id,
           \A m \in Ues \ {n} : ran'[m] = ran[m]
    PROVE  /\ UNCHANGED RegistrationOwner
           /\ RegistrationStage' = [RegistrationStage EXCEPT ![n] = StageOf(ran'[n].pc)]
           /\ RegistrationId' = [RegistrationId EXCEPT ![n] = ran'[n].mme_s1ap_ue_id]
BY DEF RegistrationOwner, RegistrationStage, RegistrationId

----------------------------------------------------------------------------
(* Registration: the steps                                                 *)

\* The core starts as Registration does.
LEMMA InitMatches == Init => R!Init
<1>. SUFFICES ASSUME Init PROVE R!Init
  OBVIOUS
<1>1. RegistrationOwner = [i \in MmeIds |-> UeCount]
  BY DEF Init, AmfInit, RegistrationOwner
<1>2. RegistrationStage = [n \in Ues |-> "out"]
  BY DEF Init, RanInit, NewRan, StageOf, RegistrationStage
<1>3. RegistrationId \in [Ues -> MmeIds]
  BY IdentityTypes DEF Init, RanInit, NewRan, RegistrationId
<1>. QED  BY <1>1, <1>2, <1>3 DEF R!Init

\* The challenge the simulator finds is always its own: it accepts it.
LEMMA ChallengeAccepted ==
    ASSUME TypeOK, Agreement, NEW n \in Ues, RanAuthenticate(n)
    PROVE  /\ Head(down[n]) \in DownlinkMessages /\ ChallengeOK(n, Head(down[n]))
           /\ ran' = [ran EXCEPT ![n] =
                 [@ EXCEPT !.mme_s1ap_ue_id = Head(down[n]).mme,
                           !.k_asme = KAsme(AutnResponse(RanKey(n), Head(down[n]).rand_num),
                                            Head(down[n]).rand_num),
                           !.pc = "security"]]
           /\ ran[n].pc = "autn" /\ ran'[n].pc = "security"
           /\ ran'[n].mme_s1ap_ue_id = Head(down[n]).mme
           /\ \A m \in Ues \ {n} : ran'[m] = ran[m]
<1> DEFINE m == Head(down[n])
<1>0. ran \in [Ues -> RanContexts] /\ ran[n] \in RanContexts /\ SubscriberOK(n)
  BY DEF TypeOK, RanTypeOK, Agreement
<1>1. /\ ran[n].pc = "autn" /\ down[n] # <<>> /\ down[n] \in Seq(DownlinkMessages)
      /\ Just(down[n], 1) /\ ChallengeOK(n, down[n][1])
  BY <1>0 DEF RanAuthenticate, Received, TypeOK, ServerTypeOK, SubscriberOK, DownlinkOK
<1>2. m = down[n][1] /\ m \in DownlinkMessages
  BY <1>1, JustOne
<1>3. ChallengeOK(n, m)
  BY <1>1, <1>2
<1> HIDE DEF m
<1>4. m.autn = AutnResponse(RanKey(n), m.rand_num) + 1
  BY <1>3 DEF ChallengeOK, Vector, AuthVector, AutnResponse, RanKey, DbKey, Imsi, Ues
<1>5. ran' = [ran EXCEPT ![n] =
                 [@ EXCEPT !.mme_s1ap_ue_id = m.mme,
                           !.k_asme = KAsme(AutnResponse(RanKey(n), m.rand_num), m.rand_num),
                           !.pc = "security"]]
  BY <1>4 DEF RanAuthenticate, m
<1>6. ran'[n].pc = "security" /\ ran'[n].mme_s1ap_ue_id = m.mme
      /\ \A x \in Ues \ {n} : ran'[x] = ran[x]
  BY <1>0, <1>5 DEF RanContexts
<1>. QED  BY <1>1, <1>2, <1>3, <1>5, <1>6 DEF m

\* The simulator asks with its attach request, learns its id from the challenge,
\* leaves with the detach request and is out when that is answered or lost.
LEMMA RanStepMatches ==
    ASSUME TypeOK, Agreement, NEW n \in Ues, RanStep(n)
    PROVE  Matched
<1>0. /\ RanThread(n) /\ UNCHANGED s1amf_id /\ ran \in [Ues -> RanContexts]
      /\ ran[n] \in RanContexts /\ SubscriberOK(n)
      /\ RegistrationStage[n] = StageOf(ran[n].pc)
      /\ RegistrationId[n] = ran[n].mme_s1ap_ue_id
      /\ RegistrationId = [RegistrationId EXCEPT ![n] = ran[n].mme_s1ap_ue_id]
  BY DEF RanStep, TypeOK, RanTypeOK, Agreement, amfVars, RegistrationStage, RegistrationId
<1>1. CASE ConnMme(n) \/ TimeExceeded(n) \/ SetSecurity(n) \/ SetEpsSession(n)
  <2> DEFINE Kept == /\ \A m \in Ues \ {n} : ran'[m] = ran[m]
                     /\ ran'[n].mme_s1ap_ue_id = ran[n].mme_s1ap_ue_id
             Moved == \/ /\ ran[n].pc \in {"connect", "start"}
                         /\ ran'[n].pc \in {"start", "done"}
                      \/ /\ ran[n].pc \in {"security", "session"}
                         /\ ran'[n].pc \in {"session", "data"}
  <2>a. ASSUME ConnMme(n) \/ TimeExceeded(n) PROVE Kept /\ Moved
    BY <1>0, <2>a DEF ConnMme, TimeExceeded, RanGoto, RanContexts
  <2>b. ASSUME SetSecurity(n) PROVE Kept /\ Moved
    BY <1>0, <2>b DEF SetSecurity, RanContexts
  <2>c. ASSUME SetEpsSession(n) PROVE Kept /\ Moved
    BY <1>0, <2>c DEF SetEpsSession, RanContexts
  <2>1. Kept
    BY <1>1, <2>a, <2>b, <2>c
  <2>2. Moved
    BY <1>1, <2>a, <2>b, <2>c
  <2>3. StageOf(ran'[n].pc) = StageOf(ran[n].pc)
    BY <2>2 DEF StageOf
  <2>4. \A m \in Ues : /\ StageOf(ran'[m].pc) = StageOf(ran[m].pc)
                       /\ ran'[m].mme_s1ap_ue_id = ran[m].mme_s1ap_ue_id
    BY <2>1, <2>3
  <2>. QED  BY <1>0, <2>4, SameView DEF Matched
<1>2. CASE RanInitialAttach(n) \/ RanDetach(n) \/ DetachAccepted(n) \/ ConnLost(n)
  <2>1. /\ \A m \in Ues \ {n} : ran'[m] = ran[m]
        /\ ran'[n].mme_s1ap_ue_id = ran[n].mme_s1ap_ue_id
    <3>1. CASE RanInitialAttach(n) \/ RanDetach(n)
      BY <1>0, <3>1 DEF RanInitialAttach, RanDetach, RanGoto, RanContexts
    <3>2. CASE DetachAccepted(n) \/ ConnLost(n)
      BY <1>0, <3>2 DEF DetachAccepted, ConnLost, RanGoto, RanContexts
    <3>. QED  BY <1>2, <3>1, <3>2
  <2>2. /\ UNCHANGED RegistrationOwner /\ RegistrationId' = RegistrationId
        /\ RegistrationStage' = [RegistrationStage EXCEPT ![n] = StageOf(ran'[n].pc)]
    BY <1>0, <2>1, OneMoves
  <2>3. CASE RanInitialAttach(n)
    <3>1. ran[n].pc = "start" /\ ran'[n].pc = "autn"
      BY <1>0, <2>3 DEF RanInitialAttach, RanContexts
    <3>2. R!Ask(n)
      BY <1>0, <2>2, <3>1 DEF R!Ask, R!Goto, StageOf
    <3>. QED  BY <3>2 DEF Matched, R!Next
  <2>4. CASE RanDetach(n)
    <3>1. ran[n].pc = "data" /\ ran'[n].pc = "detach"
      BY <1>0, <2>4 DEF RanDetach, RanGoto, RanContexts
    <3>2. R!Leave(n)
      BY <1>0, <2>2, <3>1 DEF R!Leave, R!Goto, StageOf
    <3>. QED  BY <3>2 DEF Matched, R!Next
  <2>5. CASE DetachAccepted(n) \/ ConnLost(n)
    <3>1. ran'[n].pc \in {"start", "failed"}
      BY <1>0, <2>5 DEF DetachAccepted, ConnLost, RanGoto, RanContexts
    <3>2. R!End(n)
      BY <2>2, <3>1 DEF R!End, StageOf
    <3>. QED  BY <3>2 DEF Matched, R!Next
  <2>. QED  BY <1>2, <2>3, <2>4, <2>5
<1>3. CASE RanAuthenticate(n)
  <2> DEFINE m == Head(down[n])
  <2>1. ran[n].pc = "autn" /\ m \in DownlinkMessages /\ ChallengeOK(n, m)
    BY <1>3, ChallengeAccepted
  <2>2. ran'[n].pc = "security" /\ ran'[n].mme_s1ap_ue_id = m.mme
        /\ \A x \in Ues \ {n} : ran'[x] = ran[x]
    BY <1>3, ChallengeAccepted
  <2> HIDE DEF m
  <2>3. m.mme \in MmeIds /\ s1amf_id[m.mme] = Guti(n)
    BY <2>1 DEF ChallengeOK, DownlinkMessages
  <2>4. R!Learn(n, m.mme)
    <3>1. RegistrationOwner[m.mme] = n
      BY <2>3, OwnerIs
    <3>2. RegistrationStage[n] = "asking" /\ StageOf(ran'[n].pc) = "known"
      BY <1>0, <2>1, <2>2 DEF StageOf
    <3>. QED  BY <1>0, <2>2, <3>1, <3>2, OneMoves DEF R!Learn, R!Goto
  <2>. QED  BY <2>3, <2>4 DEF Matched, R!Next
<1>. QED  BY <1>0, <1>1, <1>2, <1>3 DEF RanThread

\* A step that changes one id leaves the simulator's half as it is.
LEMMA OneId ==
    ASSUME TypeOK, UNCHANGED ran, NEW i \in MmeIds, NEW g \in {0} \cup Imsis,
           s1amf_id' = [s1amf_id EXCEPT ![i] = g]
    PROVE  /\ RegistrationOwner' = [RegistrationOwner EXCEPT ![i] =
                                        IF g = 0 THEN UeCount ELSE g - 1]
           /\ UNCHANGED <<RegistrationStage, RegistrationId>>
BY DEF TypeOK, AmfTypeOK, RegistrationOwner, RegistrationStage, RegistrationId

\* The next value of the counter is nobody's: handle_initial_attach assigns it
\* to a subscriber that waits for its challenge.
LEMMA InitialAttachMatches ==
    ASSUME TypeOK, FreshIds, Agreement, NoWrap', NEW w \in Workers,
           InitialAttach(w), UNCHANGED ran
    PROVE  Matched
<1> DEFINE i == ue_count + 1
<1>0. /\ amf[w].pc = "attach" /\ Running("amf") /\ ue_count' = i
      /\ ue_count \in Nat /\ IdSpace \in Nat
      /\ s1amf_id' = [s1amf_id EXCEPT ![(ue_count + 1) % IdSpace] = GetGuti(amf[w].arg)]
  <2>1. ue_count \in Nat /\ IdSpace \in Nat
    BY IdSpaceAssumption DEF TypeOK, AmfTypeOK
  <2>. QED  BY <2>1 DEF InitialAttach, AmfAt
<1>1. i < IdSpace /\ i \in MmeIds /\ (ue_count + 1) % IdSpace = i
  BY <1>0, NextId DEF NoWrap
<1>2. PICK n \in Ues : n = amf[w].ue
  BY AmfStateType DEF TypeOK
<1>3. SubscriberOK(n) /\ ServesAttach(w, n)
  BY <1>0, <1>2 DEF Agreement, ServiceOK, WorkerOK, AttachPcs
<1>4. ran[n].pc = "autn" /\ amf[w].arg = Imsi(n)
  BY <1>0, <1>3 DEF ServesAttach, SubscriberOK, UplinkOK, UplinkShape
<1>5. s1amf_id[i] = 0
  BY <1>0, <1>1 DEF FreshIds, NoWrap
<1>6. /\ s1amf_id' = [s1amf_id EXCEPT ![i] = Guti(n)]
      /\ Guti(n) \in Imsis /\ Guti(n) # 0 /\ Guti(n) - 1 = n
  <2>1. GetGuti(amf[w].arg) = Guti(n)
    BY <1>4, OwnFacts
  <2>2. Guti(n) \in Imsis /\ Guti(n) # 0 /\ Guti(n) - 1 = n
    BY UeCountAssumption DEF Guti, GetGuti, Imsi, Ues, Imsis
  <2>. QED  BY <1>0, <1>1, <2>1, <2>2
<1> HIDE DEF i
<1>7. /\ RegistrationOwner' = [RegistrationOwner EXCEPT ![i] = n]
      /\ UNCHANGED <<RegistrationStage, RegistrationId>>
  BY <1>1, <1>6, OneId
<1>8. RegistrationOwner[i] = UeCount
  BY <1>1, <1>5, OwnerIs
<1>9. RegistrationStage[n] = "asking"
  BY <1>4 DEF RegistrationStage, StageOf
<1>10. R!Assign(n, i)
  BY <1>7, <1>8, <1>9 DEF R!Assign
<1>. QED  BY <1>1, <1>10 DEF Matched, R!Next

\* rem_itfid removes the id of a subscriber that has begun to leave.
LEMMA RemItfidMatches ==
    ASSUME TypeOK, Agreement, NEW w \in Workers, RemItfid(w), UNCHANGED ran
    PROVE  Matched
<1>1. PICK n \in Ues : n = amf[w].ue
  BY AmfStateType DEF TypeOK
<1>2. PICK i \in MmeIds : i = amf[w].id
  BY AmfStateType DEF TypeOK
<1>3. /\ s1amf_id' = [s1amf_id EXCEPT ![i] = 0] /\ amf[w].pc = "rem_itfid"
  BY <1>2 DEF RemItfid, AmfAt
<1>4. RemovesFor(w, n)
  BY <1>1, <1>3 DEF Agreement, ServiceOK, WorkerOK, RemPcs
<1>5. RegistrationOwner[i] = n
  BY <1>2, <1>3, <1>4, OwnerIs DEF RemovesFor
<1>6. RegistrationStage[n] # "known"
  BY <1>4 DEF RemovesFor, RegistrationStage, StageOf
<1>7. /\ RegistrationOwner' = [RegistrationOwner EXCEPT ![i] = UeCount]
      /\ UNCHANGED <<RegistrationStage, RegistrationId>>
  BY <1>3, OneId
<1>8. R!Remove(i)
  BY <1>5, <1>6, <1>7 DEF R!Remove, R!InUse
<1>. QED  BY <1>8 DEF Matched, R!Next

\* handle_autn never refuses a response here: the one stored at the UDM is the
\* one the simulator computes.
LEMMA HandleAutnAccepts ==
    ASSUME TypeOK, Agreement, NEW w \in Workers, HandleAutn(w), UNCHANGED ran
    PROVE  UNCHANGED s1amf_id
<1>1. PICK n \in Ues : n = amf[w].ue
  BY AmfStateType DEF TypeOK
<1>2. amf[w].pc = "autn" /\ Running("amf") /\ UNCHANGED up
  BY DEF HandleAutn, AmfAt, localFrame
<1>3. Handles(w, n)
  BY <1>1, <1>2 DEF Handles, Agreement
<1>4. GutiOf(w) = Guti(n) /\ GutiOf(w) # 0 /\ ran[n].pc = "security"
  BY <1>2, <1>3, HandlerId, HandlerPhase DEF AutnPcs
<1>5. udm_ctx[GutiOf(w)].xres = amf[w].arg
  BY <1>2, <1>3, <1>4
     DEF Handles, ServiceOK, WorkerOK, ServesAutn, AutnPcs, SubscriberOK, UdmOK, HasAnId
<1>. QED  BY <1>4, <1>5 DEF HandleAutn, IfKnown

\* Of the AMF's steps, only the new id and the removal of one change the owners.
LEMMA AmfStepMatches ==
    ASSUME TypeOK, FreshIds, Agreement, NoWrap', NEW w \in Workers, AmfStep(w)
    PROVE  Matched
<1>0. AmfWorker(w) /\ UNCHANGED ran
  BY DEF AmfStep, ranVars
<1>1. UNCHANGED s1amf_id => Matched
  BY <1>0, SameView DEF Matched
<1>2. CASE InitialAttach(w)
  BY <1>0, <1>2, InitialAttachMatches
<1>3. CASE HandleAutn(w)
  BY <1>0, <1>1, <1>3, HandleAutnAccepts
<1>4. CASE RemItfid(w)
  BY <1>0, <1>4, RemItfidMatches
<1>5. CASE AmfSelect(w) \/ AmfClose(w) \/ HandleUe(w)
  BY <1>1, <1>5 DEF AmfSelect, AmfClose, HandleUe, amfVars
<1>6. CASE AttachInit(w) \/ AttachAuth(w) \/ SecurityModeCmd(w)
           \/ SetIntegrityContext(w) \/ SendSecurityModeCmd(w)
  BY <1>1, <1>6 DEF AttachInit, AttachAuth, SecurityModeCmd, SetIntegrityContext,
                    SendSecurityModeCmd
<1>7. CASE SecurityModeComplete(w) \/ LocationUpdate(w) \/ LocationDelete(w)
           \/ LocationInsert(w) \/ CreateSessionBegin(w) \/ CreateSessionEnd(w)
  BY <1>1, <1>7 DEF SecurityModeComplete, LocationUpdate, LocationDelete,
                    LocationInsert, CreateSessionBegin, CreateSessionEnd
<1>8. CASE AttachComplete(w) \/ ModifyBearerBegin(w) \/ ModifyBearerEnd(w)
           \/ DetachBegin(w) \/ DetachEnd(w) \/ RemUectx(w)
  BY <1>1, <1>8 DEF AttachComplete, ModifyBearerBegin, ModifyBearerEnd, DetachBegin,
                    DetachEnd, RemUectx
<1>. QED  BY <1>0, <1>2, <1>3, <1>4, <1>5, <1>6, <1>7, <1>8 DEF AmfWorker

\* No other component touches the ids.
LEMMA OthersMatch ==
    ASSUME UNCHANGED <<ranVars, amfVars>>
    PROVE  Matched
<1>1. UNCHANGED <<ran, s1amf_id>>
  BY DEF ranVars, amfVars
<1>. QED  BY <1>1, SameView DEF Matched

\* Every step of the core is a step of Registration or none.
LEMMA StepMatches ==
    ASSUME TypeOK, FreshIds, Agreement, NoWrap', [Next]_vars
    PROVE  Matched
<1>1. ASSUME NEW n \in Ues, RanStep(n) PROVE Matched
  BY <1>1, RanStepMatches
<1>2. ASSUME NEW w \in Workers, AmfStep(w) PROVE Matched
  BY <1>2, AmfStepMatches
<1>3. CASE AcceptStep \/ Lose \/ AmfCrash \/ UNCHANGED vars
  BY <1>3, OthersMatch DEF AcceptStep, Lose, AmfCrash, vars
<1>4. CASE (\E w \in Workers : SmfStep(w)) \/ \E t \in UpfThreads : UpfStep(t)
  BY <1>4, OthersMatch DEF SmfStep, UpfStep
<1>. QED  BY <1>1, <1>2, <1>3, <1>4 DEF Next, Finished

\* The core implements Registration as long as the counter of the ids has not
\* gone round: an id in use is neither removed nor given away (amf.cpp:163-169,
\* 1196, 1240), and the id in a challenge is the subscriber's own.
THEOREM RegistrationImplemented == Spec /\ []NoWrap => ImplementsRegistration
<1>1. TypeOK /\ FreshIds /\ ConvInv /\ NoWrap /\ NoWrap' /\ [Next]_vars
      => [R!Next]_R!vars
  BY StepMatches DEF ConvInv, Matched
<1>. QED
  BY <1>1, InitMatches, TypeCorrect, NextIdsFree, ConversationAgrees, PTL
     DEF Spec, ImplementsRegistration, R!Spec

----------------------------------------------------------------------------
(* Session: the mapping                                                    *)

\* What Session sees of n's bearer, said in the words of BearerInv.
BearerReads(n) ==
    /\ Removing(n) <=> Leaving(n)
    /\ Leaving(n) => BearerOf(n) = "closing"
    /\ Gone(n) /\ ~Leaving(n) => BearerOf(n) = "none"
    /\ Full(n) => BearerOf(n) = IF upf_ctx[Imsi(n)].enodeb THEN "active" ELSE "open"
    /\ \A T \in {{"s11"}, {"s11", "s1"}, {"s11", "s1", "sgi"}} :
          Entered(n, T) /\ NoContext(n) /\ ~Leaving(n) => BearerOf(n) = "opening"

\* With one N4 thread the mapping reads the tables so.
LEMMA MappingReads == UpfTypeOK /\ UpfThreadCount = 1 => \A n \in Ues : BearerReads(n)
<1>. SUFFICES ASSUME UpfTypeOK, UpfThreadCount = 1, NEW n \in Ues PROVE BearerReads(n)
  OBVIOUS
<1>0. UpfThreads = {1} /\ Imsi(n) # 0 /\ Imsi(n) \in Imsis
  BY TablesApart DEF UpfThreads
<1>1. Removing(n) <=> Leaving(n)
  BY <1>0 DEF Removing, Leaving, Thread, RemovalPcs
<1>2. Leaving(n) => BearerOf(n) = "closing"
  BY <1>1 DEF BearerOf
<1>3. upf_ctx[Imsi(n)].present \in BOOLEAN
  BY <1>0 DEF UpfTypeOK, UpfContexts
<1>4. ASSUME Gone(n), ~Leaving(n) PROVE BearerOf(n) = "none"
  <2>1. /\ ~(s11_id[Teid(n)] = Imsi(n)) /\ ~(s1_id[Teid(n)] = Imsi(n))
        /\ ~(sgi_id[IpAddr(Imsi(n))] = Imsi(n)) /\ ~upf_ctx[Imsi(n)].present
    BY <1>0, <1>4 DEF Gone, Entered, NoContext, NoUpfContext
  <2>2. Entries(n) = {FALSE}
    BY <1>3, <2>1 DEF Entries
  <2>. QED  BY <1>1, <1>4, <2>2 DEF BearerOf
<1>5. ASSUME Full(n)
      PROVE  BearerOf(n) = IF upf_ctx[Imsi(n)].enodeb THEN "active" ELSE "open"
  <2>1. /\ s11_id[Teid(n)] = Imsi(n) /\ s1_id[Teid(n)] = Imsi(n)
        /\ sgi_id[IpAddr(Imsi(n))] = Imsi(n) /\ upf_ctx[Imsi(n)].present
    BY <1>5 DEF Full, Entered, HasContext
  <2>2. Entries(n) = {TRUE}
    BY <1>3, <2>1 DEF Entries
  <2>. QED  BY <1>1, <1>5, <2>2 DEF BearerOf, Full
<1>6. ASSUME NEW T \in {{"s11"}, {"s11", "s1"}, {"s11", "s1", "sgi"}},
             Entered(n, T), NoContext(n), ~Leaving(n)
      PROVE  BearerOf(n) = "opening"
  <2>1. s11_id[Teid(n)] = Imsi(n) /\ ~upf_ctx[Imsi(n)].present
    BY <1>6 DEF Entered, NoContext, NoUpfContext
  <2>2. TRUE \in Entries(n) /\ FALSE \in Entries(n)
    BY <1>3, <2>1 DEF Entries
  <2>3. Entries(n) # {TRUE} /\ Entries(n) # {FALSE}
    BY <2>2
  <2>. QED  BY <1>1, <1>6, <2>3 DEF BearerOf
<1>. QED  BY <1>1, <1>2, <1>4, <1>5, <1>6 DEF BearerReads

\* It does so in the next state, too.
LEMMA MappingReadsNext ==
    (UpfTypeOK /\ UpfThreadCount = 1 => \A n \in Ues : BearerReads(n))'
BY MappingReads, PTL

\* A step of Session or none, under its refinement mapping.
Followed == S!Next \/ UNCHANGED S!vars

\* A state without faults, as the invariants know it.
Calm ==
    /\ UpfThreadCount = 1 /\ exited = {}
    /\ TypeOK /\ Placement /\ Agreement /\ LinkOK /\ GrantsOK /\ BearerOK
    /\ \A n \in Ues : DownlinkShut(n)

\* The mapping, in a calm state.
LEMMA CalmReads ==
    ASSUME Calm, NEW n \in Ues
    PROVE  BearerReads(n)
BY MappingReads DEF Calm, TypeOK

\* The mapping, if the next state is calm.
LEMMA CalmReadsNext ==
    ASSUME Calm', NEW n \in Ues
    PROVE  BearerReads(n)'
BY MappingReadsNext DEF Calm, TypeOK

\* Session sees the phases and the bearers, nothing else.
LEMMA SameSession ==
    ASSUME \A n \in Ues : PhaseOf(ran'[n].pc) = PhaseOf(ran[n].pc) /\ BearerOf(n)' = BearerOf(n)
    PROVE  Followed
<1>1. UNCHANGED SessionPhase
  BY DEF SessionPhase
<1>2. UNCHANGED SessionBearer
  BY DEF SessionBearer
<1>. QED  BY <1>1, <1>2 DEF Followed, S!vars

\* A step of a simulator thread moves one phase.
LEMMA OnePhase ==
    ASSUME UNCHANGED <<upf, upfTables>>, NEW n \in Ues,
           \A m \in Ues \ {n} : ran'[m] = ran[m]
    PROVE  /\ UNCHANGED SessionBearer
           /\ SessionPhase' = [SessionPhase EXCEPT ![n] = PhaseOf(ran'[n].pc)]
           /\ SessionPhase[n] = PhaseOf(ran[n].pc) /\ SessionBearer[n] = BearerOf(n)
<1>1. \A m : BearerOf(m)' = BearerOf(m)
  BY DEF BearerOf, Removing, Entries, upfTables
<1>2. UNCHANGED SessionBearer
  BY <1>1 DEF SessionBearer
<1>. QED  BY <1>2 DEF SessionPhase, SessionBearer

\* A step of the UPF moves one bearer.
LEMMA OneBearer ==
    ASSUME UNCHANGED ran, NEW n \in Ues,
           \A m \in Ues \ {n} : BearerOf(m)' = BearerOf(m)
    PROVE  /\ UNCHANGED SessionPhase
           /\ SessionBearer' = [SessionBearer EXCEPT ![n] = BearerOf(n)']
           /\ SessionPhase[n] = PhaseOf(ran[n].pc) /\ SessionBearer[n] = BearerOf(n)
BY DEF SessionPhase, SessionBearer

\* The core starts as Session does.
LEMMA SessionInit == Init /\ UpfThreadCount = 1 => S!Init
<1>. SUFFICES ASSUME Init, UpfThreadCount = 1 PROVE S!Init
  OBVIOUS
<1>1. SessionPhase = [n \in Ues |-> "detached"]
  BY DEF Init, RanInit, NewRan, PhaseOf, SessionPhase
<1>2. ASSUME NEW n \in Ues PROVE BearerOf(n) = "none"
  <2>1. BearerReads(n)
    BY MappingReads, InitType DEF TypeOK
  <2>2. Gone(n)
    BY TablesApart DEF Init, UpfInit, Gone, Entered, NoContext
  <2>3. ~Leaving(n)
    BY DEF Init, UpfInit, UpfThreads, Leaving, Thread, RemovalPcs, IdleThread
  <2>. QED  BY <2>1, <2>2, <2>3 DEF BearerReads
<1>3. SessionBearer = [n \in Ues |-> "none"]
  BY <1>2 DEF SessionBearer
<1>. QED  BY <1>1, <1>3 DEF S!Init

----------------------------------------------------------------------------
(* Session: the simulator                                                  *)

\* The simulator begins to attach, takes the accept for a bearer that is open
\* and not active, begins to leave, takes the answer to that for a bearer that is
\* closing or gone, and ends when its time is up.
LEMMA RanStepFollows ==
    ASSUME Calm, NEW n \in Ues, RanStep(n)
    PROVE  Followed
<1>0. /\ RanThread(n) /\ UNCHANGED <<upf, upfTables>> /\ ran \in [Ues -> RanContexts]
      /\ ran[n] \in RanContexts /\ SubscriberOK(n) /\ TablesOK(n) /\ DownlinkShut(n)
      /\ BearerReads(n) /\ Running("amf")
  <2>1. BearerReads(n)
    BY CalmReads
  <2>. QED  BY <2>1 DEF Calm, RanStep, TypeOK, RanTypeOK, Agreement, BearerOK, upfVars,
                        upfTables, Running
<1>1. ~ConnLost(n)
  BY <1>0 DEF ConnLost
<1>2. CASE ConnMme(n) \/ SetSecurity(n)
  <2>1. \A m \in Ues \ {n} : ran'[m] = ran[m]
    BY <1>0, <1>2 DEF ConnMme, SetSecurity, RanGoto
  <2>2. \/ ran[n].pc = "connect" /\ ran'[n].pc = "start"
        \/ ran[n].pc = "security" /\ ran'[n].pc = "session"
    BY <1>0, <1>2 DEF ConnMme, SetSecurity, RanGoto, RanContexts
  <2>3. PhaseOf(ran'[n].pc) = PhaseOf(ran[n].pc)
    BY <2>2 DEF PhaseOf
  <2>4. \A m : BearerOf(m)' = BearerOf(m)
    BY <1>0 DEF BearerOf, Removing, Entries, upfTables
  <2>5. \A m \in Ues : PhaseOf(ran'[m].pc) = PhaseOf(ran[m].pc) /\ BearerOf(m)' = BearerOf(m)
    BY <2>1, <2>3, <2>4
  <2>. QED  BY <2>5, SameSession
<1>3. CASE RanAuthenticate(n)
  <2>1. \A m \in Ues \ {n} : ran'[m] = ran[m]
    BY <1>0, <1>3 DEF RanAuthenticate
  <2>2. ran[n].pc = "autn" /\ ran'[n].pc = "security"
    BY <1>0, <1>3, ChallengeAccepted DEF Calm, RanAuthenticate
  <2>3. PhaseOf(ran'[n].pc) = PhaseOf(ran[n].pc)
    BY <2>2 DEF PhaseOf
  <2>4. \A m : BearerOf(m)' = BearerOf(m)
    BY <1>0 DEF BearerOf, Removing, Entries, upfTables
  <2>5. \A m \in Ues : PhaseOf(ran'[m].pc) = PhaseOf(ran[m].pc) /\ BearerOf(m)' = BearerOf(m)
    BY <2>1, <2>3, <2>4
  <2>. QED  BY <2>5, SameSession
<1>4. CASE RanInitialAttach(n)
  <2>1. /\ ran[n].pc = "start" /\ ran'[n].pc = "autn"
        /\ \A m \in Ues \ {n} : ran'[m] = ran[m]
    BY <1>0, <1>4 DEF RanInitialAttach, RanContexts
  <2>2. S!Attach(n)
    BY <1>0, <2>1, OnePhase DEF S!Attach, S!PhaseStep, PhaseOf
  <2>. QED  BY <2>2 DEF Followed, S!Next
<1>5. CASE TimeExceeded(n)
  <2>1. /\ ran[n].pc = "start" /\ ran'[n].pc = "done"
        /\ \A m \in Ues \ {n} : ran'[m] = ran[m]
    BY <1>0, <1>5 DEF TimeExceeded, RanGoto, RanContexts
  <2>2. S!Quit(n)
    BY <1>0, <2>1, OnePhase DEF S!Quit, S!PhaseStep, PhaseOf
  <2>. QED  BY <2>2 DEF Followed, S!Next
<1>6. CASE RanDetach(n)
  <2>1. /\ ran[n].pc = "data" /\ ran'[n].pc = "detach"
        /\ \A m \in Ues \ {n} : ran'[m] = ran[m]
    BY <1>0, <1>6 DEF RanDetach, RanGoto, RanContexts
  <2>2. S!Detach(n)
    BY <1>0, <2>1, OnePhase DEF S!Detach, S!PhaseStep, PhaseOf
  <2>. QED  BY <2>2 DEF Followed, S!Next
<1>7. CASE SetEpsSession(n)
  <2>1. /\ ran[n].pc = "session" /\ down[n] # <<>> /\ ran'[n].pc = "data"
        /\ \A m \in Ues \ {n} : ran'[m] = ran[m]
    <3>1. ran[n].pc = "session" /\ down[n] # <<>>
      BY <1>7 DEF SetEpsSession, Received
    <3>2. \E c : ran' = [ran EXCEPT ![n] = c] /\ c.pc = "data"
      <4> DEFINE c == [ran[n] EXCEPT !.guti = Head(down[n]).guti,
                  !.s1_uteid_ul = Head(down[n]).ul, !.s1_uteid_dl = Head(down[n]).ul,
                  !.ip_addr = Head(down[n]).ip, !.pc = "data"]
      <4>1. ran' = [ran EXCEPT ![n] = c]
        BY <1>0, <1>7 DEF SetEpsSession
      <4>2. c.pc = "data"
        BY <1>0 DEF RanContexts
      <4>. QED  BY <4>1, <4>2
    <3>. QED  BY <1>0, <3>1, <3>2
  <2>2. Full(n)
    BY <1>0, <2>1 DEF TablesOK, ToBeFull, Accepted
  <2>3. ~upf_ctx[Imsi(n)].enodeb
    BY <1>0, <2>1, <2>2 DEF DownlinkShut, Full
  <2>4. BearerOf(n) = "open"
    BY <1>0, <2>2, <2>3 DEF BearerReads
  <2>5. S!Accept(n)
    BY <1>0, <2>1, <2>4, OnePhase DEF S!Accept, S!PhaseStep, PhaseOf
  <2>. QED  BY <2>5 DEF Followed, S!Next
<1>8. CASE DetachAccepted(n)
  <2>1. /\ ran[n].pc = "detach" /\ down[n] # <<>> /\ ran'[n].pc = "start"
        /\ \A m \in Ues \ {n} : ran'[m] = ran[m]
    BY <1>0, <1>8 DEF DetachAccepted, Received, RanGoto, RanContexts
  <2>2. Away(n)
    BY <1>0, <2>1 DEF TablesOK, ToBeAway, AwayPhase
  <2>3. BearerOf(n) \in {"closing", "none"}
    BY <1>0, <2>2 DEF Away, BearerReads
  <2>4. S!Confirm(n)
    BY <1>0, <2>1, <2>3, OnePhase DEF S!Confirm, S!PhaseStep, PhaseOf
  <2>. QED  BY <2>4 DEF Followed, S!Next
<1>. QED
  BY <1>0, <1>1, <1>2, <1>3, <1>4, <1>5, <1>6, <1>7, <1>8 DEF RanThread

----------------------------------------------------------------------------
(* Session: the user plane                                                 *)

\* A step that neither changes a table nor begins or ends a removal is none of
\* Session's.
LEMMA QuietFollows ==
    ASSUME Calm, Calm', UNCHANGED <<ran, upfTables>>,
           \A m \in Ues : ~Leaving(m) /\ ~Leaving(m)'
    PROVE  Followed
<1>1. \A m \in Ues : ~Removing(m) /\ ~Removing(m)'
  BY CalmReads, CalmReadsNext DEF BearerReads
<1>2. \A m \in Ues : BearerOf(m)' = BearerOf(m)
  BY <1>1 DEF BearerOf, Entries, upfTables
<1>. QED  BY <1>2, SameSession

\* A handler touches the tables of the subscriber it works for, nobody else's.
LEMMA OthersKeep ==
    ASSUME Calm, Calm', UNCHANGED ran, NEW n \in Ues,
           UNCHANGED s11_id \/ \E i : s11_id' = [s11_id EXCEPT ![Teid(n)] = i],
           UNCHANGED s1_id \/ \E i : s1_id' = [s1_id EXCEPT ![Teid(n)] = i],
           UNCHANGED sgi_id \/ \E i : sgi_id' = [sgi_id EXCEPT ![IpAddr(Imsi(n))] = i],
           UNCHANGED upf_ctx \/ \E c : upf_ctx' = [upf_ctx EXCEPT ![Imsi(n)] = c],
           upf[1].imsi = Imsi(n),
           upf'[1].imsi = Imsi(n) \/ upf'[1].pc = "idle"
    PROVE  /\ UNCHANGED SessionPhase
           /\ SessionBearer' = [SessionBearer EXCEPT ![n] = BearerOf(n)']
           /\ SessionPhase[n] = PhaseOf(ran[n].pc) /\ SessionBearer[n] = BearerOf(n)
<1>0. /\ s11_id \in [Teids -> {0} \cup Imsis] /\ s1_id \in [Teids -> {0} \cup Imsis]
      /\ sgi_id \in [Addresses -> {0} \cup Imsis] /\ upf_ctx \in [Imsis -> UpfContexts]
  BY DEF Calm, TypeOK, UpfTypeOK
<1>1. ASSUME NEW m \in Ues \ {n} PROVE BearerOf(m)' = BearerOf(m)
  <2>1. /\ Teid(m) # Teid(n) /\ Imsi(m) # Imsi(n) /\ IpAddr(Imsi(m)) # IpAddr(Imsi(n))
        /\ Teid(m) \in Teids /\ IpAddr(Imsi(m)) \in Addresses /\ Imsi(m) \in Imsis
    BY TablesApart
  <2>2. s11_id'[Teid(m)] = s11_id[Teid(m)]
    BY <1>0, <2>1
  <2>3. s1_id'[Teid(m)] = s1_id[Teid(m)]
    BY <1>0, <2>1
  <2>4. sgi_id'[IpAddr(Imsi(m))] = sgi_id[IpAddr(Imsi(m))]
    BY <1>0, <2>1
  <2>5. upf_ctx'[Imsi(m)] = upf_ctx[Imsi(m)]
    BY <1>0, <2>1
  <2>6. ~Leaving(m) /\ ~Leaving(m)'
    BY <2>1 DEF Leaving, Thread, RemovalPcs
  <2>7. ~Removing(m) /\ ~Removing(m)'
    BY <2>6, CalmReads, CalmReadsNext DEF BearerReads
  <2>. QED  BY <2>2, <2>3, <2>4, <2>5, <2>7 DEF BearerOf, Entries
<1>. QED  BY <1>1, OneBearer

\* A create opens the bearer of a subscriber that is attaching.
LEMMA CreateFollows ==
    ASSUME Calm, Calm', NEW w, NEW n, Answers(w, n),
           CreateS11(1) \/ CreateS1(1) \/ CreateSgi(1) \/ CreateContext(1)
    PROVE  Followed
<1>1. PICK r \in UpfThreadStates : r = upf[1]
  BY AnswersFacts
<1>2. /\ upf \in [{1} -> UpfThreadStates] /\ n \in Ues /\ UNCHANGED ran
      /\ r.pc \in CreatePcs /\ r.typ = "create" /\ r.imsi = Imsi(n) /\ r.teid = Teid(n)
      /\ amf[w].pc = "session_end" /\ w \in Workers
  BY <1>1, AnswersFacts DEF CreateS11, CreateS1, CreateSgi, CreateContext, CreatePcs,
                            Answers
<1>3. /\ upf'[1].imsi = Imsi(n) /\ upf'[1].typ = "create"
      /\ \/ r.pc = "c_s11" /\ upf'[1].pc = "c_s1"
         \/ r.pc = "c_s1" /\ upf'[1].pc = "c_sgi"
         \/ r.pc = "c_sgi" /\ upf'[1].pc = "c_ctx"
         \/ r.pc = "c_ctx" /\ upf'[1].pc = "send"
  <2>1. CASE CreateS11(1) \/ CreateS1(1) \/ CreateContext(1)
    BY <1>1, <1>2, <2>1 DEF CreateS11, CreateS1, CreateContext, UpfGoto, UpfThreadStates
  <2>2. CASE CreateSgi(1)
    BY <1>1, <1>2, <2>2 DEF CreateSgi, UpfThreadStates
  <2>. QED  BY <2>1, <2>2
<1>4. ran[n].pc = "session" /\ PhaseOf(ran[n].pc) = "attaching"
  <2>1. WorkerOK(w) /\ SubscriberOK(n) /\ Running("amf") /\ n = amf[w].ue
    BY <1>2 DEF Calm, Answers, Agreement, ServiceOK, Running
  <2>2. ran[n].pc \in {"session", "failed"} /\ ran[n].pc # "failed"
    BY <1>2, <2>1 DEF WorkerOK, SessionPcs, ServesSession, SubscriberOK, UplinkOK, UplinkShape
  <2>. QED  BY <2>2 DEF PhaseOf
<1>5. CreateOK(n) /\ CreateOK(n)' /\ ~Leaving(n) /\ ~Leaving(n)'
  <2>1. CreateOK(n)
    BY <1>1, <1>2 DEF Calm, BearerOK, ThreadOK, ThreadFor, Thread
  <2>2. CreateOK(n)'
    BY <1>2, <1>3 DEF Calm, BearerOK, ThreadOK, ThreadFor, Thread
  <2>. QED  BY <1>1, <1>2, <1>3, <2>1, <2>2 DEF Leaving, Thread, RemovalPcs, CreatePcs
<1>6. /\ UNCHANGED SessionPhase
      /\ SessionBearer' = [SessionBearer EXCEPT ![n] = BearerOf(n)']
      /\ SessionPhase[n] = PhaseOf(ran[n].pc) /\ SessionBearer[n] = BearerOf(n)
  <2>0. n \in Ues /\ UNCHANGED ran /\ upf[1].imsi = Imsi(n) /\ upf'[1].imsi = Imsi(n)
    BY <1>1, <1>2, <1>3
  <2>1. UNCHANGED s11_id \/ \E i : s11_id' = [s11_id EXCEPT ![Teid(n)] = i]
    BY <1>1, <1>2 DEF CreateS11, CreateS1, CreateSgi, CreateContext
  <2>2. UNCHANGED s1_id \/ \E i : s1_id' = [s1_id EXCEPT ![Teid(n)] = i]
    BY <1>1, <1>2 DEF CreateS11, CreateS1, CreateSgi, CreateContext
  <2>3. UNCHANGED sgi_id \/ \E i : sgi_id' = [sgi_id EXCEPT ![IpAddr(Imsi(n))] = i]
    BY <1>1, <1>2 DEF CreateS11, CreateS1, CreateSgi, CreateContext
  <2>4. UNCHANGED upf_ctx \/ \E c : upf_ctx' = [upf_ctx EXCEPT ![Imsi(n)] = c]
    BY <1>1, <1>2 DEF CreateS11, CreateS1, CreateSgi, CreateContext
  <2>. QED  BY <2>0, <2>1, <2>2, <2>3, <2>4, OthersKeep
<1>7. BearerReads(n) /\ BearerReads(n)' /\ DownlinkShut(n)'
  BY <1>2, CalmReads, CalmReadsNext DEF Calm
<1>8. CASE r.pc = "c_s11"
  <2>1. BearerOf(n) = "none" /\ BearerOf(n)' = "opening"
    BY <1>1, <1>3, <1>5, <1>7, <1>8 DEF CreateOK, Thread, BearerReads
  <2>2. S!Open(n)
    BY <1>4, <1>6, <2>1 DEF S!Open, S!BearerStep
  <2>. QED  BY <1>2, <2>2 DEF Followed, S!Next
<1>9. CASE r.pc \in {"c_s1", "c_sgi"}
  <2>1. BearerOf(n) = "opening" /\ BearerOf(n)' = "opening"
    BY <1>1, <1>3, <1>5, <1>7, <1>9 DEF CreateOK, Thread, BearerReads
  <2>2. SessionBearer' = SessionBearer
    BY <1>6, <2>1 DEF SessionBearer
  <2>. QED  BY <1>6, <2>2 DEF Followed, S!vars
<1>10. CASE r.pc = "c_ctx"
  <2>1. BearerOf(n) = "opening"
    BY <1>1, <1>5, <1>7, <1>10 DEF CreateOK, Thread, BearerReads
  <2>2. Full(n)' /\ ~upf_ctx'[Imsi(n)].enodeb
    BY <1>2, <1>3, <1>4, <1>5, <1>7, <1>10 DEF CreateOK, Thread, DownlinkShut
  <2>3. BearerOf(n)' = "open"
    BY <1>7, <2>2 DEF BearerReads
  <2>4. S!Opened(n)
    BY <1>4, <1>6, <2>1, <2>3 DEF S!Opened, S!BearerStep
  <2>. QED  BY <1>2, <2>4 DEF Followed, S!Next
<1>. QED  BY <1>2, <1>8, <1>9, <1>10 DEF CreatePcs

\* A modify makes an open bearer active, once the subscriber has its session, and
\* leaves an active one active.
LEMMA ModifyFollows ==
    ASSUME Calm, Calm', NEW w, NEW n, Answers(w, n), ModifyContext(1)
    PROVE  Followed
<1>1. /\ n \in Ues /\ UNCHANGED ran /\ upf \in [{1} -> UpfThreadStates]
      /\ upf[1].pc = "m_ctx" /\ upf[1].imsi = Imsi(n) /\ upf[1].typ = "modify"
      /\ amf[w].pc = "modify_end" /\ w \in Workers
  BY AnswersFacts DEF ModifyContext, Answers
<1>2. upf'[1].pc = "send" /\ upf'[1].imsi = Imsi(n) /\ upf'[1].typ = "modify"
  BY <1>1 DEF ModifyContext, UpfThreadStates
<1>3. PhaseOf(ran[n].pc) \in {"attached", "detaching"}
  <2>1. WorkerOK(w) /\ SubscriberOK(n) /\ Running("amf") /\ n = amf[w].ue
    BY <1>1 DEF Calm, Answers, Agreement, ServiceOK, Running
  <2>2. ran[n].pc \in {"data", "detach", "failed"} /\ ran[n].pc # "failed"
    BY <1>1, <2>1 DEF WorkerOK, CompletePcs, ServesComplete, SubscriberOK, UplinkOK, UplinkShape
  <2>. QED  BY <2>2 DEF PhaseOf
<1>4. Full(n)
  BY <1>1, AnswersClaims
<1>5. Full(n)' /\ upf_ctx'[Imsi(n)].enodeb
  BY <1>1, <1>2 DEF Calm, BearerOK, ThreadOK, ThreadFor, Thread, Active
<1>6. /\ UNCHANGED SessionPhase
      /\ SessionBearer' = [SessionBearer EXCEPT ![n] = BearerOf(n)']
      /\ SessionPhase[n] = PhaseOf(ran[n].pc) /\ SessionBearer[n] = BearerOf(n)
  <2>1. UNCHANGED <<s11_id, s1_id, sgi_id>> /\ \E c : upf_ctx' = [upf_ctx EXCEPT ![Imsi(n)] = c]
    BY <1>1 DEF ModifyContext
  <2>. QED  BY <1>1, <1>2, <2>1, OthersKeep
<1>7. BearerOf(n) \in {"open", "active"} /\ BearerOf(n)' = "active"
  <2>1. BearerReads(n) /\ BearerReads(n)'
    BY <1>1, CalmReads, CalmReadsNext
  <2>. QED  BY <1>4, <1>5, <2>1 DEF BearerReads
<1>8. CASE BearerOf(n) = "open"
  <2>1. S!Activate(n)
    BY <1>3, <1>6, <1>7, <1>8 DEF S!Activate, S!BearerStep
  <2>. QED  BY <1>1, <2>1 DEF Followed, S!Next
<1>9. CASE BearerOf(n) = "active"
  <2>1. SessionBearer' = SessionBearer
    BY <1>6, <1>7, <1>9 DEF SessionBearer
  <2>. QED  BY <1>6, <2>1 DEF Followed, S!vars
<1>. QED  BY <1>7, <1>8, <1>9

\* The reply to a release closes an active bearer, for a subscriber that leaves;
\* the other replies change no bearer.
LEMMA SendFollows ==
    ASSUME Calm, Calm', NEW w, NEW n, Answers(w, n), UpfSend(1)
    PROVE  Followed
<1>1. PICK r \in UpfThreadStates : r = upf[1]
  BY AnswersFacts
<1>2. /\ n \in Ues /\ UNCHANGED <<ran, upfTables>> /\ upf \in [{1} -> UpfThreadStates]
      /\ r.pc = "send" /\ r.imsi = Imsi(n) /\ w \in Workers
      /\ r.typ = "release" => amf[w].pc = "detach_end"
      /\ upf' = [upf EXCEPT ![1] = IF r.typ = "release" THEN [r EXCEPT !.pc = "d_s11"]
                                                        ELSE IdleThread]
  BY <1>1, AnswersFacts DEF UpfSend, Answers
<1>3. CASE r.typ # "release"
  <2>1. upf'[1].pc = "idle"
    BY <1>2, <1>3 DEF IdleThread
  <2>2. \A m \in Ues : ~Leaving(m) /\ ~Leaving(m)'
    BY <1>1, <1>2, <2>1 DEF Leaving, Thread, RemovalPcs
  <2>. QED  BY <1>2, <2>2, QuietFollows
<1>4. CASE r.typ = "release"
  <2>1. upf'[1].pc = "d_s11" /\ upf'[1].imsi = Imsi(n)
    BY <1>2, <1>4 DEF UpfThreadStates
  <2>2. Leaving(n)' /\ Full(n) /\ upf_ctx[Imsi(n)].enodeb
    BY <1>1, <1>4, <2>1, AnswersClaims DEF Leaving, Thread, RemovalPcs, Active
  <2>3. BearerOf(n) = "active" /\ BearerOf(n)' = "closing"
    <3>1. BearerReads(n) /\ BearerReads(n)'
      BY <1>2, CalmReads, CalmReadsNext
    <3>. QED  BY <2>2, <3>1 DEF BearerReads
  <2>4. PhaseOf(ran[n].pc) = "detaching"
    <3>1. WorkerOK(w) /\ SubscriberOK(n) /\ Running("amf") /\ n = amf[w].ue
      BY <1>2 DEF Calm, Answers, Agreement, ServiceOK, Running
    <3>2. ran[n].pc \in {"detach", "failed"} /\ ran[n].pc # "failed"
      BY <1>2, <1>4, <3>1 DEF WorkerOK, DetachPcs, ServesDetach, SubscriberOK, UplinkOK,
                              UplinkShape
    <3>. QED  BY <3>2 DEF PhaseOf
  <2>5. S!Close(n)
    <3>1. /\ UNCHANGED SessionPhase
          /\ SessionBearer' = [SessionBearer EXCEPT ![n] = BearerOf(n)']
          /\ SessionPhase[n] = PhaseOf(ran[n].pc) /\ SessionBearer[n] = BearerOf(n)
      BY <1>1, <1>2, <2>1, OthersKeep DEF upfTables
    <3>. QED  BY <2>3, <2>4, <3>1 DEF S!Close, S!BearerStep
  <2>. QED  BY <1>2, <2>5 DEF Followed, S!Next
<1>. QED  BY <1>3, <1>4

\* The removals behind a release end with its bearer.
LEMMA RemovalFollows ==
    ASSUME Calm, Calm', UNCHANGED ran,
           DetachS11(1) \/ DetachS1(1) \/ DetachSgi(1) \/ RemUpfContext(1)
    PROVE  Followed
<1>0. /\ upf \in [{1} -> UpfThreadStates] /\ upf[1] \in UpfThreadStates
      /\ upf[1].pc \in RemovalPcs
      /\ s11_id \in [Teids -> {0} \cup Imsis] /\ s1_id \in [Teids -> {0} \cup Imsis]
      /\ sgi_id \in [Addresses -> {0} \cup Imsis] /\ upf_ctx \in [Imsis -> UpfContexts]
  BY DEF Calm, TypeOK, UpfTypeOK, UpfThreads, DetachS11, DetachS1, DetachSgi,
         RemUpfContext, RemovalPcs
<1>1. PICK n \in Ues : upf[1].imsi = Imsi(n)
  <2>1. upf[1].imsi \in Imsis
    BY <1>0 DEF Calm, BearerOK, ThreadOK, Thread, UpfThreadStates
  <2>2. upf[1].imsi - 1 \in Ues /\ upf[1].imsi = Imsi(upf[1].imsi - 1)
    BY <2>1, UeCountAssumption DEF Imsis, Ues, Imsi
  <2>. QED  BY <2>2
<1>2. Leaving(n) /\ RemovalOK(n)
  BY <1>0, <1>1 DEF Leaving, Thread, Calm, BearerOK, ThreadOK, ThreadFor
<1>3. upf[1].teid = Teid(n) /\ upf[1].dl = Teid(n) /\ upf[1].ip = IpAddr(Imsi(n))
  BY <1>2 DEF RemovalOK, KeysInHand, Thread
<1>4. ASSUME upf'[1].imsi = Imsi(n) \/ upf'[1].pc = "idle"
      PROVE  /\ UNCHANGED SessionPhase
             /\ SessionBearer' = [SessionBearer EXCEPT ![n] = BearerOf(n)']
             /\ SessionPhase[n] = PhaseOf(ran[n].pc) /\ SessionBearer[n] = BearerOf(n)
  <2>1. UNCHANGED s11_id \/ \E i : s11_id' = [s11_id EXCEPT ![Teid(n)] = i]
    BY <1>3 DEF DetachS11, DetachS1, DetachSgi, RemUpfContext
  <2>2. UNCHANGED s1_id \/ \E i : s1_id' = [s1_id EXCEPT ![Teid(n)] = i]
    BY <1>3 DEF DetachS11, DetachS1, DetachSgi, RemUpfContext
  <2>3. UNCHANGED sgi_id \/ \E i : sgi_id' = [sgi_id EXCEPT ![IpAddr(Imsi(n))] = i]
    BY <1>3 DEF DetachS11, DetachS1, DetachSgi, RemUpfContext
  <2>4. UNCHANGED upf_ctx \/ \E c : upf_ctx' = [upf_ctx EXCEPT ![Imsi(n)] = c]
    BY <1>1 DEF DetachS11, DetachS1, DetachSgi, RemUpfContext
  <2>. QED  BY <1>1, <1>4, <2>1, <2>2, <2>3, <2>4, OthersKeep
<1>5. BearerReads(n) /\ BearerReads(n)' /\ BearerOf(n) = "closing"
  BY <1>2, CalmReads, CalmReadsNext DEF BearerReads
<1>6. CASE DetachS11(1) \/ DetachS1(1) \/ DetachSgi(1)
  <2>1. upf'[1].pc \in RemovalPcs /\ upf'[1].imsi = Imsi(n)
    BY <1>0, <1>1, <1>6 DEF DetachS11, DetachS1, DetachSgi, UpfGoto, UpfThreadStates,
                            RemovalPcs
  <2>2. BearerOf(n)' = "closing"
    BY <1>5, <2>1 DEF BearerReads, Leaving, Thread
  <2>3. SessionBearer' = SessionBearer
    BY <1>4, <1>5, <2>1, <2>2 DEF SessionBearer
  <2>. QED  BY <1>4, <2>1, <2>3 DEF Followed, S!vars
<1>7. CASE RemUpfContext(1)
  <2>1. /\ upf'[1].pc = "idle" /\ UNCHANGED <<s11_id, s1_id, sgi_id>>
        /\ upf_ctx'[Imsi(n)] = NoUpfContext /\ upf[1].pc = "d_rem"
    BY <1>0, <1>1, <1>7, TablesApart DEF RemUpfContext, IdleThread
  <2>2. Entered(n, {})
    BY <1>2, <2>1 DEF RemovalOK, Thread
  <2>3. Gone(n)' /\ ~Leaving(n)'
    BY <2>1, <2>2 DEF Gone, Entered, NoContext, Leaving, Thread, RemovalPcs
  <2>4. BearerOf(n)' = "none"
    BY <1>5, <2>3 DEF BearerReads
  <2>5. S!Closed(n)
    BY <1>4, <1>5, <2>1, <2>4 DEF S!Closed, S!BearerStep
  <2>. QED  BY <2>5 DEF Followed, S!Next
<1>. QED  BY <1>6, <1>7

\* Of the steps of the UPF, the writes to the tables and the reply to a release
\* are Session's.
LEMMA UpfStepFollows ==
    ASSUME Calm, Calm', NEW t \in UpfThreads, UpfStep(t)
    PROVE  Followed
<1>0. /\ t = 1 /\ UpfThread(1) /\ UNCHANGED <<ran, up, down, amf, smf>>
      /\ upf[1] \in UpfThreadStates /\ upf \in [{1} -> UpfThreadStates]
  <2>1. UpfThreads = {1}
    BY DEF UpfThreads, Calm
  <2>. QED  BY <2>1 DEF UpfStep, linkVars, amfVars, ranVars, smfVars, Calm, TypeOK, UpfTypeOK
<1>1. CASE UpfReceive(1)
  <2>1. UNCHANGED upfTables /\ upf[1].pc = "idle"
    BY <1>1 DEF UpfReceive
  <2>2. upf'[1].pc \notin RemovalPcs
    <3>1. n4_req # <<>> /\ n4_req \in Seq(N4Requests)
      BY <1>1 DEF UpfReceive, Calm, TypeOK, UpfTypeOK
    <3>2. PICK m \in N4Requests : m = Head(n4_req)
      BY <3>1, TailItems
    <3>3. m.typ \in {"create", "modify", "release"}
      BY DEF N4Requests, N4Types
    <3>4. upf'[1].pc \in {"c_s11", "m_lookup", "d_lookup"}
      BY <1>0, <1>1, <3>2, <3>3 DEF UpfReceive
    <3>. QED  BY <3>4 DEF RemovalPcs
  <2>3. \A m \in Ues : ~Leaving(m) /\ ~Leaving(m)'
    BY <2>1, <2>2 DEF Leaving, Thread, RemovalPcs
  <2>. QED  BY <1>0, <2>1, <2>3, QuietFollows
<1>2. CASE UpfLookup(1) \/ DetachContext(1)
  <2>1. UNCHANGED upfTables /\ upf[1].pc \notin RemovalPcs
    BY <1>2 DEF UpfLookup, DetachContext, RemovalPcs
  <2>2. upf'[1].pc \in {upf[1].pc, "m_ctx", "d_ctx", "send"}
    <3>1. CASE UNCHANGED upf
      BY <3>1
    <3>2. CASE UpfLookup(1) /\ upf' # upf
      <4>1. \E i, pc : /\ upf' = [upf EXCEPT ![1] = [@ EXCEPT !.imsi = i, !.pc = pc]]
                       /\ pc \in {"m_ctx", "d_ctx"}
        BY <3>2 DEF UpfLookup
      <4>. QED  BY <1>0, <4>1 DEF UpfThreadStates
    <3>3. CASE DetachContext(1) /\ upf' # upf
      <4> DEFINE c == upf_ctx[upf[1].imsi]
      <4>1. upf' = [upf EXCEPT ![1] = [@ EXCEPT !.teid = c.s11_cteid, !.dl = c.s1_uteid_ul,
                                                !.ip = c.ip_addr, !.pc = "send"]]
        BY <3>3 DEF DetachContext
      <4>. QED  BY <1>0, <4>1 DEF UpfThreadStates
    <3>. QED  BY <1>2, <3>1, <3>2, <3>3
  <2>3. \A m \in Ues : ~Leaving(m) /\ ~Leaving(m)'
    BY <2>1, <2>2 DEF Leaving, Thread, RemovalPcs
  <2>. QED  BY <1>0, <2>1, <2>3, QuietFollows
<1>3. CASE DetachS11(1) \/ DetachS1(1) \/ DetachSgi(1) \/ RemUpfContext(1)
  BY <1>0, <1>3, RemovalFollows
<1>4. CASE UpfSend(1) \/ CreateS11(1) \/ CreateS1(1) \/ CreateSgi(1) \/ CreateContext(1)
           \/ ModifyContext(1)
  <2>1. upf[1].pc \in AnsweringPcs
    BY <1>4 DEF UpfSend, CreateS11, CreateS1, CreateSgi, CreateContext, ModifyContext,
                AnsweringPcs
  <2>2. PICK w \in Workers : w = upf[1].w
    BY <1>0 DEF UpfThreadStates
  <2>3. PICK n \in Ues : n = amf[w].ue
    BY AmfStateType DEF Calm, TypeOK
  <2>4. Answers(w, n)
    BY <1>0, <2>1, <2>2, <2>3 DEF Answers, Answering, Calm
  <2>. QED  BY <1>4, <2>4, SendFollows, CreateFollows, ModifyFollows
<1>. QED  BY <1>0, <1>1, <1>2, <1>3, <1>4 DEF UpfThread

\* Every step of a core without faults is a step of Session or none.
LEMMA StepFollows ==
    ASSUME Calm, Calm', [Next]_vars
    PROVE  Followed
<1>1. ASSUME NEW n \in Ues, RanStep(n) PROVE Followed
  BY <1>1, RanStepFollows
<1>2. ASSUME NEW t \in UpfThreads, UpfStep(t) PROVE Followed
  BY <1>2, UpfStepFollows
<1>3. ASSUME UNCHANGED <<ran, upf, upfTables>> PROVE Followed
  <2>1. \A m \in Ues : BearerOf(m)' = BearerOf(m)
    BY <1>3 DEF BearerOf, Removing, Entries, upfTables
  <2>. QED  BY <1>3, <2>1, SameSession
<1>4. ASSUME NEW w \in Workers, AmfStep(w) PROVE Followed
  BY <1>3, <1>4, AmfLeavesUpf DEF AmfStep, ranVars
<1>5. ASSUME NEW w \in Workers, SmfStep(w) PROVE Followed
  BY <1>3, <1>5 DEF SmfStep, SmfWorker, RequestCreate, RequestModify, RequestRelease,
       RcvAnswer, RcvTimeout, UpdateCreate, upfVars, upfTables, ranVars
<1>6. CASE Lose
  BY <1>3, <1>6 DEF Lose, LoseRequest, LoseReply, upfTables, ranVars
<1>7. CASE AcceptStep \/ AmfCrash \/ UNCHANGED vars
  BY <1>3, <1>7 DEF AcceptStep, AmfCrash, vars, upfVars, upfTables, ranVars
<1>. QED  BY <1>1, <1>2, <1>4, <1>5, <1>6, <1>7 DEF Next, Finished

\* Without faults attach and detach implement Session: a session is accepted once
\* its bearer is open (amf.cpp, handle_create_session), its downlink is set up and
\* only then is it closed (upf.cpp, handle_detach), the end is confirmed when it is
\* closing, and no bearer is opened before the last one of the subscriber is gone.
THEOREM SessionImplemented ==
    Spec /\ [](UpfThreadCount = 1 /\ ~MayCrash /\ NoWrap /\ Prompt)
       => ImplementsSession
<1> DEFINE Clear == UpfThreadCount = 1 /\ ~MayCrash /\ NoWrap /\ Prompt
<1>1. TypeOK /\ ConvInv /\ BearerInv /\ Clear => Calm
  BY DEF ConvInv, Agreement, OnlyUpfExits, BearerInv, LinkInv, Running, Calm
<1>2. Calm /\ Calm' /\ [Next]_vars => [S!Next]_S!vars
  BY StepFollows DEF Followed
<1>3. Init /\ Clear => S!Init
  BY SessionInit
<1>. QED
  BY <1>1, <1>2, <1>3, TypeCorrect, ConversationAgrees, BearersKept, PTL
     DEF Spec, ImplementsSession, S!Spec
=============================================================================
