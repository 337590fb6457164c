# The control plane of 5G-Core-Rest-SBA in TLA+

This directory models the control plane of the 5G core in this repository: what
happens between the simulated radio network, the AMF, the AUSF, the UDM, the SMF
and the UPF when subscribers attach, get a session, are handed over, and detach;
what remains of that when datagrams are lost, answers are late, calls fail or
the AMF is killed; and the connections below the messages. TLC checks the
model on small instances. TLAPS proves, for every number of subscribers and
workers, the core's type invariant, all its other safety invariants (those about
the UPF's tables for one N4 thread and without late answers, as they are false
otherwise) and that it implements both of its abstract specifications; that
authentication fails closed whichever calls fail; that handovers keep the types,
and a torn down tunnel is gone; and that a connection is a channel of whole
messages. File and line numbers refer to `src/` of the
repository.

## 1. The system

| Part | Files | State it keeps | Operations |
|---|---|---|---|
| RAN simulator | `ran_simulator.cpp`, `ran.cpp` | per thread: a subscriber (`ran_ctx`); shared: the uplink table | attach, authenticate, set security, set up a session, transfer data, detach, in a loop |
| N2 server | `sctp_server.cpp` | connections per worker, the turn | accept, select and serve, close |
| AMF | `amf.cpp`, `amf_server.cpp` | `ue_count`, `s1amf_id` (id to GUTI), `ue_ctx` | one handler per NAS message, each a chain of REST calls |
| AUSF | `ausf.cpp` | none | authentication vector, location update |
| UDM | `udm.cpp` | the UE contexts of all other components (by GUTI), two database tables | about 18 REST handlers that read or write a context |
| SMF | `smf.cpp`, `smf_server.cpp` | one UDP socket per worker | create, modify, release a session |
| UPF | `upf.cpp`, `upf_server.cpp` | `s11_id`, `s1_id`, `sgi_id` (lookups to IMSI), `ue_ctx` | create, modify, release (N4); forwarding (N3, SGi); handover requests |

How they interact:

* Simulator and AMF exchange S1AP messages over one SCTP association per thread,
  a reliable FIFO stream in each direction. The AMF deals associations to its
  workers in turn and a worker keeps them for ever.
* Worker *w* of the AMF makes synchronous REST calls to worker *w* of the AUSF,
  the UDM and the SMF (the ports are numbered by worker). While it waits it
  serves nobody.
* A worker of the SMF sends a UDP datagram to the UPF and takes the next
  datagram of its socket for the answer; it gives up after five seconds.
* All N4 threads of the UPF read one UDP socket. The README of the repository
  starts the UPF with 10 of them.

What is hard, and what each component must get right (PROJECT.json lists the
hazards one by one, at their lines):

* **Interleaving in the UPF.** A handler is a sequence of short critical
  sections over four tables with four locks. A release answers before it
  removes anything.
* **Ordering.** An attach complete is not answered; the detach request may
  follow at once. Only the FIFO streams and the blocking workers keep the modify
  before the release.
* **Timeouts, loss, late answers** on N4, with nothing in an answer compared to
  the request.
* **Long-lived state**: ids, contexts and rows of an earlier session of the same
  subscriber, some of which no one removes.
* **Assertions that end a process.** `handle_type1_error` calls `exit`, so a
  lookup that fails for one subscriber ends the service for all.
* **Receives without a timeout** in the simulator: whether an attach or a detach
  always ends is a question about the whole system.
* **Failed calls.** A REST call that fails is printed, if that, and the caller
  goes on with zeros. Zero is a valid teid.
* **Handover.** Four messages of two RANs over two connections, served by two
  workers, against the attach and detach of the same subscriber.
* **Byte streams.** The kernel takes and gives messages in pieces, and either
  end may go away in the middle of one.

## 2. Modules

```
Platform <- Udm, Ausf, Upf, SctpServer
            Udm, Upf              <- Smf
            Smf, Ausf, SctpServer <- Amf
            Ausf, SctpServer      <- Ran
            Amf, Ran              <- Core
Core <- Conversation <- Bearer
Bearer, Refinement                <- MCCore          (runs)
        Conversation              <- Failures        (run)
        Handover                  <- MCHandover      (runs)
Core <- CoreProofs                                   (proofs)
        Conversation, CoreProofs       <- ConversationProofs
        ConversationProofs, Failures   <- FailureProofs
        CoreProofs, Handover           <- HandoverProofs
        ConversationProofs, Bearer     <- LinkProofs
        LinkProofs, Refinement         <- BearerProofs
Packet <- Security <- Wire <- MCWire                 (run)
                      Wire <- WireProofs             (proofs)
Identifiers <- IdentifierFacts                       (proofs)
Session, Registration: abstract, implemented by Core (Refinement)
Channel:               abstract, implemented by Wire
```

* `Platform`: constants, identities, `Exit` (`Utils::handle_type1_error`).
  Subscriber *n* has IMSI *n*+1; GUTI, teid and address are injective functions
  of it. Missing numbers read 0, as in the code; teid 0 is a valid teid there
  and here, that of subscriber 0.
* `Identifiers`: the same maps with the code's digits and widths, and the loop
  that fills the address pool; `IdentifierFacts` proves what `Platform` takes
  for granted of them.
* `Udm`: `udm_ctx` and the location rows. Each operator is a REST handler; it
  runs under one lock, hence one atomic step. `Udm::set_loc_info` is two
  statements under two locks, hence two operators. A read-only handler is the
  expression `udm_ctx[guti]` in its caller.
* `Ausf`: stateless; the vector and the response to it, as arithmetic.
* `Upf`: the N4 threads (`upf[t].pc` is the place in the handler) and the N4
  link. `create` = `CreateS11`, `CreateS1`, `CreateSgi`, `CreateContext`,
  `UpfSend`; `modify` = `UpfLookup`, `ModifyContext`, `UpfSend`; `release` =
  `UpfLookup`, `DetachContext`, `UpfSend`, `DetachS11`, `DetachS1`,
  `DetachSgi`, `RemUpfContext`, each with the code's exits. The constructor of a
  context leaves its S1 teids uninitialised (`upf.cpp:26-38`): the uplink one of a
  context that a modify makes is a free choice (`Looked`), the downlink one is
  written before it is read.
* `Smf`: `smf[w].pc` goes `call`, `wait`, (`update`,) `done`. An answer of
  another kind than expected is read by position, as `Packet::extract_item`
  does; a timeout leaves an empty packet, which reads as zeros; a refused
  release leaves the member `res` of its response uninitialised, which is a
  free choice of a Boolean. Read as a result, a create's teid counts as false
  when it is 0; the code reads its low byte, so 256 would read false too, but the
  model's teids are smaller.
* `SctpServer`: backlog, turn, pipes, `conn_fds` and the loop over it, and the
  two streams of each association.
* `Amf`: the workers. An action is one REST call with the local code up to the
  next call or critical section, so two workers interleave wherever the code
  lets them.
* `Ran`: the simulator threads.
* `Core`: the composition, the specification, fairness, the properties of the
  core, and the strengthenings used by the proofs.
* `Conversation`: `ConvInv`, what a subscriber, its connection and the worker
  that serves it agree on between two messages. It implies most of what `Core`
  promises of AMF and UDM and is written to be inductive. `RecordInv`, on top of
  it, says for whom the AMF keeps an id or a context.
* `Bearer`: `LinkInv`, what requests, handlers, answers and records agree on
  about the bearer of one subscriber, and `BearerInv`, where the tables of the
  UPF then are. Both are written to be inductive on top of `ConvInv`.
* `Registration`, `Session`: what the AMF promises of its ids, and what the core
  promises a subscriber of its session. `Refinement` maps `Core` to both.
* `Failures`: `Core` with REST calls that fail (below).
* `Handover`: `Core` with the handover of a session to a second RAN (below).
* `Packet`, `Security`, `Wire`, `Channel`: the packet buffer, cipher and HMAC,
  one direction of a connection as bytes, and the channel of whole messages it
  has to be (below).
* `MCCore`, `MCHandover`, `MCWire`: the modules of the runs; they add the claims
  of comments that the code does not keep, and the messages of `Wire`.
* `CoreProofs`, `ConversationProofs`, `LinkProofs`, `BearerProofs`,
  `FailureProofs`, `HandoverProofs`, `WireProofs`, `IdentifierFacts`: theorems and
  proofs.

**Failures.** `send_and_receive` returns false for a broken connection, a status
other than 200 or a body that is not JSON. `Failures` adds to each call of AMF,
AUSF and SMF the ways it can fail: the callee has not run, or has run and its
answer is lost. The caller then does what it does with zeros, or, after a failed
`CreateSMContext`, with uninitialised teids (`amf.cpp:634`). Where the answer is
ignored anyway only "has not run" is a case of its own. Left out are a callee
that runs after its caller has given up, an SMF that stops half-way, calls
whose answer only feeds HMAC and cipher (they use fixed keys), the keys a UE
derives after a failed security mode call (no property here is about them) and
the location row of IMSI 0.

**Handover.** The repository has five operations of a RAN (`ran.cpp:361-451`)
and the handlers of AMF and UPF, but nothing that calls the operations: the
model calls each of them in the state its comment names, while the subscriber
transfers data. The source uses the subscriber's connection, so messages 7 and
10 queue in the stream of its attach and detach; the target has a connection of
its own to any worker. The workers of the AMF and the threads of the UPF are
those of the core, in one handler at a time. The AMF waits for the UPF on a
socket of the handler's own, with the receive timeout; it reaches the RANs by
new connections, which deliver in any order. A connect that is refused is tried
again for ever (`sctp_client.cpp:27`), and the handlers connect to the source even
when the UPF has not answered; so a worker may stay in any of these connects
(`Connecting`), and nothing makes a RAN accept. Any other error of `connect` ends the
AMF, which is no more than its kill at that moment.

**Wire.** `write_stream` and `read_stream` loop over writes and reads of any
size, below a length and above a buffer with a position. The writer's process
may end, or the reader leave, after any byte. `Packet` models append, prepend
and extract with bytes that remember which item they belong to, so a reader that
is one byte off reads garbage and not a message. `Security` is what cipher and
HMAC do to a packet: the bytes of a cipher text or an HMAC stand for the bytes
they were made from, and only all of them in order give these back. Both ends
have the same key, as in the code, where `k_nas_enc` and `k_nas_int` are passed
and not used. A handler that cannot check or decipher a packet would end its
process; `ImplementsChannel` says that none meets such a packet.

Operators introduced by a comment "Mutation:" are not part of the model. Each is
a wrong variant of the definition that follows it, the way a bug in that code
would look; replacing the definition by it makes TLC report the property that
PROJECT.json names beside it. They show that the properties can fail.

## 3. Properties and runs

Safety of the core:

| Property | What it says |
|---|---|
| `NoProcessExits` | no component meets one of its own assertions |
| `SessionSound` | what the UE was told of its session is what the UPF's tables and context say |
| `DownlinkIsolation` | a packet for an address leaves on the teid of the UE that owns the address |
| `AmfBindingSound` | the id a UE uses leads to its own GUTI as long as it may use it |
| `DetachGutiMatches` | the GUTI in a detach request is the one the header's id leads to (`amf.cpp:1156`) |
| `AnswerMatches` | the datagram an SMF worker takes answers its request |
| `NoResidue` | a detached UE leaves no entry in AMF or UPF once its handlers are done |
| `KeyAgreement` | UDM and UE derive the same NAS keys |
| `UdmAgreesWithUe` | the UDM's record of a session is the UE's, with exactly one location row |
| `ReleaseAfterModify` | a bearer is modified before it is released |
| `IdNeverReused` | (action) an id in use is never given to another subscriber, until the counter wraps |
| `LookupsOwned` | every teid and address in the UPF leads to its owner, faults or not |
| `ImsiTravels` | from the attach request over UDM, SMF and N4 to the UPF's create handler an IMSI is accompanied by its own GUTI and teid, also when another UE's answer is misread on the way |
| `ConvInv` | the conversation: one holder of the turn per subscriber, every message and every handler has that subscriber's own id, GUTI, response and keys |
| `RecordInv` | an id or a context in the AMF is there for a subscriber that has or is told it, or for a handler that is about to send or remove it; ids the counter has not come to are free (`FreshIds`, the strengthening of `IdNeverReused`) |
| `BearerInv` | the N4 link (`LinkInv`): each worker's request has one place on its way to the UPF and back, is answered by its own kind and with its own subscriber's teid and address, and every record of a grant says the same; and with one N4 thread each table of the UPF holds a subscriber's entry exactly from its create to its release, its downlink open only behind the attach complete; both until someone gives up waiting |
| `ImplementsRegistration` | (refinement) the id table and the simulator's ids implement `Registration`, faults or not |
| `ImplementsSession` | (refinement) without faults the core implements `Session`: accept only after the bearer is open, close only after detach and modify, confirm only when it is closing, no new bearer before the old one is gone |

When calls fail: `OnlyUpfExits` (no component but the UPF ends by an assertion),
`FailsClosed` (nobody gets past the authentication unless the UDM holds the
response to its challenge), `FailureContained` (the sessions of others, but
subscriber 0's, are as they should be).

Handover: `HandoverKeepsSession` (whatever a handover does, also one that is
late or given up, the lookups of the session stay), `IndirectTunnelLeads` (the
indirect teid the source was given leads to its session and is a second one),
`ToldWhenSwitched` (the source is told of the end only when the downlink has
been switched and the note of it dropped), `TornDownIsGone`.

Connections: `InStep` (the reader waits for a length only where one begins) and
`ImplementsChannel` (refinement: whole messages, in order, none twice).

Liveness: `AttachCompletes`, `DetachCompletes`, `EventuallyClean`; with
handovers and a kill of the AMF `HandoverHandled`, `DetachAnswered` and
`LostAmfNoticed`; with failing calls `WorkersFreed`; on a connection `Delivered`
and `EndNoticed`.

| Run | Instance | Shows |
|---|---|---|
| `base` | 2 UEs, 2 workers, 1 N4 thread, 2 attaches each, no faults | the safety of the core, `BearerInv`, `RecordInv`, `ImplementsSession`; no deadlock |
| `live` | 2 UEs, 1 worker, 1 N4 thread, 2 attaches each | every attach and detach completes, the core ends clean |
| `faults` | 2 UEs, 1 worker, 1 N4 thread, 1 loss, 1 timeout | what survives a late answer to another UE's request, at every station of an attach; `ImplementsRegistration` |
| `reattach` | 1 UE, 1 worker, 2 N4 threads, 2 attaches, 2 losses, 2 timeouts, the AMF killed | `ConvInv` survives racing handlers of one UE, and the kill |
| `failures` | 2 UEs, 1 worker, any one REST call fails | nobody is let in, no worker is lost, others keep their sessions |
| `handover` | 1 UE, 2 workers, 1 N4 thread, 2 attaches, 1 AMF timeout, the AMF killed at any moment, RANs that may not accept | handover against detach and re-attach; a worker is lost only to a RAN that does not accept; the simulator notices the kill |
| `wire` | 3 messages of 4 layouts, a kernel buffer of 3 bytes | short reads and writes, ends that go away, cipher and HMAC |
| `race_reattach` | 1 UE, 2 N4 threads, no faults | **violation** of `NoProcessExits` |
| `late_answer` | 2 UEs, 1 timeout | **violation** of `AnswerMatches` |
| `emm_state` | 1 UE | **violation**: the UDM keeps a detached UE registered |
| `tau_timer` | 1 UE | **violation**: the session's timer is stored as 0 |
| `handover_uplink` | 2 UEs, ports as in `ports.h` | **violation**: the target of a handover gets uplink teid 0 |

The five violations are explained under "findings" in PROJECT.json. The first is
the serious one: `Upf::handle_detach` answers before it removes, and a second
thread that serves the next attach of the same subscriber loses its entry to the
first; the following modify ends the UPF. `base` shows that the core is sound
with one N4 thread, where this cannot happen.

**What `handover` does and does not show.** The AMF takes the teids of a handover
from its own contexts, where they are 0. For subscriber 0 that is right by
chance, and `handover` shows that the rest of the procedure is right for it.
With a second subscriber nothing is: its handover makes the UPF note, switch and
tear down subscriber 0's session, and its indirect teid, 0 + 1, overwrites the
lookup of subscriber 1. With two subscribers and matching ports TLC reports
`HandoverKeepsSession`, `IndirectTunnelLeads`, `ToldWhenSwitched` and
`TornDownIsGone` violated; `handover_uplink` shows the cause with the ports of
the code, where the UPF never gets the requests at all (7300 against 7000).
Within those limits: what a detach leaves of an unfinished handover at the UPF
(the note and the indirect teid) is not cleaned up, and a completion that comes
after the next attach redirects the downlink of that session.

**What a failed call does to others.** The SMF asks the UPF for teid 0 when its
question to the UDM fails: subscriber 0's session is modified or released.
`FailureContained` therefore speaks of everybody else.

After a fault a session need not be sound and a UE may wait for ever (nothing is
retransmitted, and a failed release or a failed comparison is not answered), so
`faults`, `reattach` and `failures` check what still must hold, and they do not
check for deadlock. All other passing runs do.

**Bounds.** Two subscribers are enough for one to get what belongs to another;
two attaches for state of an earlier session to matter; two workers and two N4
threads for each pair of critical sections to interleave. `IdSpace` is 8 where
the code has 2^32, more than the attaches of any run, so that the counter does
not wrap within a behaviour. `MaxLosses` and `MaxTimeouts` bound the faults
because with unlimited ones nothing else happens. `MaxCycles` stands for the
run time of the simulator, which may also end before it (`TimeExceeded`).
`MaxRestFailures` is 1: with one failure a UE's procedure already ends or goes on
with zeros, and the other subscriber is there to be harmed. `MaxHoTimeouts` is 1,
so that the UPF answers a handler that has gone. In `wire` the kernel's buffer
is smaller than a message and messages differ in length, so that a length, an
item and a message can each be cut anywhere; `LenWidth` is 2, the least with a
length in pieces, and blocks and HMACs have 2 bytes; one ciphered message fills
its block exactly, so that the padding is a block of its own. The instances have
up to 2.8 million states; three subscribers on the instance of `base` are out of
reach of a quick run.

**Fairness.** Weak fairness of each thread: the simulator's, the acceptor, each
worker and each N4 thread. They are operating system threads, and every action
stays enabled until it is taken, as nobody else takes it away (a blocked receive
is simply not enabled). Nothing is assumed of losses, timeouts while the UPF
runs, or the crash. Fairness is stated per thread, not per action: it does not
choose for a thread which branch it takes, but a thread that is at the top of
its loop may not stop there. The RANs' handover operations, failing calls and
the ends that go away in `Wire` are not fair either; the reader and the writer
there are. In a handover only a worker's own steps are fair (`HoRuns`); a connect
to a RAN ends when the RAN accepts (`HoAccepted`), which nothing promises.
`HandoverHandled` therefore says that a worker comes back or is in such a connect,
and `DetachAnswered` assumes that no connect lasts for ever (`RansAccept`).
Without these both are false, as TLC confirms: a RAN that does not accept takes a
worker, and with it every subscriber whose connection that worker serves. The refinements are of safety: the mapped specifications state no
fairness.

## 4. Proofs

`CoreProofs` proves `Spec => []TypeOK`. The type invariant carries what an untyped
program relies on: an attach has an IMSI in hand, a request to the UPF a GUTI.
One lemma per component and action shows that the action keeps that part of it.

On top of it:

* `IdsUnique`: `Spec => IdNeverReused`. The strengthening is `FreshIds`: below
  the wrap, ids above the counter are not in use. An attach takes the id after
  the counter, every other action only removes entries.
* `ImsiStaysWithTeid` and `LookupsSafe`: `Spec => []ImsiTravels` and `Spec =>
  []LookupsOwned`, through their conjunction `LookupInv`. A table entry is
  made from an IMSI and a teid that a create request carried; so the invariant
  follows the pair back along its way, through the UPF thread
  (`UpfEntersOwn`), the datagrams (`N4CarriesOwn`), the call to the SMF
  (`SmfAsksOwn`) and the UDM's context (`UdmHoldsOwn`) to the attach request
  (`AmfCarriesOwn`). The theorems cover losses, late answers, timeouts, a crash
  and any number of threads: misread answers never reach these tables.

`ConversationProofs` proves the conversation, `ConversationAgrees`: `Spec => []ConvInv`. AMF and UDM keep their promises
because a subscriber has at most one thing in flight, so the invariant says who
holds the turn of a subscriber and what that holder has in hand:

* `Placement` (every step keeps it, wrap or not): a connection is in the backlog
  or at one worker, and a worker serves a connection of its own. Hence two
  workers never serve one subscriber (`OneSubscriber`, `OneWorker`).
* `SubscriberOK(n)`: for each step the simulator may wait at, which message is on
  which stream and what it carries; whose GUTI the id it holds leads to; what
  the UDM has of it.
* `ServiceOK(w)`: for each step of a handler, where its subscriber waits, that
  both streams are empty, and what its locals are. The two exceptions are in the
  code: an attach complete is not answered (`ServesComplete` allows the detach
  request behind it), and a detach is answered before the entries are removed
  (`RemovesFor` allows the next attach request).
* `CallOK(w)`: the SMF's worker works on the call of that handler.
* `OnlyUpfExits`: a lookup by id never fails, so no other process exits.

A step concerns one subscriber and the worker that serves it (`KeptFor`,
`HandlerKeeps`: one lemma per operation of `ran.cpp` and handler step of
`amf.cpp`); everybody else is `Untouched`, because subscribers have different
GUTIs and IMSIs. The first three parts are stated below the wrap (`NoWrap`):
once `ue_count` has gone round, `InitialAttach` overwrites ids in use, and they
are false. What the UPF does, loses or delays does not occur in the invariant, so
the theorem holds with any number of losses, late answers and N4 threads.
`BindingSound`, `DetachGuti`, `KeysAgree`, `UdmAgrees` and `OthersNeverExit` are
its consequences, each for a property that `faults`, `base` or `failures` checks.

`LinkProofs` proves `LinkAgrees`: `Spec => []LinkInv`. A worker of the SMF sends
one request and takes the next datagram for its answer; the invariant is why
that is right as long as no worker has given up (`Prompt`; after the first
timeout the late answer breaks it, which is the finding of `late_answer`):

* `OneAtATime`: of each worker there is at most one request in the queue,
  handler in the UPF or answer in its socket, and they exclude each other.
* `RequestOK`, `HandlerOK`, `ReplyOK`: whichever it is, it has the type, the teid
  and the IMSI of the call that waits for it. That the lookup of a handler finds
  the right subscriber is `LookupsOwned`. A loss only takes something away.
* `GrantsOK`: the teid and the address that a create grants are the same at
  every place that stores a part of them, from the SMF's call over the UDM and
  the accept to the simulator, its uplink table and its attach complete.
* `DownlinkOwn`: an open downlink is its own subscriber's. It needs the other
  parts while the UPF runs, and no step changes it when the UPF has exited.

There is no condition on the number of threads in it: the race of two threads
disturbs tables, not the datagrams. `DownlinksIsolated` follows.

`BearerProofs` proves `BearersKept`: `Spec => []BearerInv`. With one N4 thread,
and while nobody has given up, every request meets the tables it expects, so
the UPF never exits. Three claims say who relies on what of a subscriber:

* `ToBeAway`: nothing of it is entered (before its create, and from the answer
  to its release on). `Away` allows for the thread still to be in the second
  half of the release (`Leaving`); as there is only one thread, it will have
  finished before it takes the next request. With two threads this is where
  the induction fails, and `race_reattach` is the counterexample.
* `ToBeFull`: all lookups and the context are entered (from the answer to the
  create to the release).
* `ToBeActive`: besides, the downlink is open (from the answer to the modify).

`TablesOK` is that the claims are met. `ThreadOK` says how far the thread is in a
handler, table by table. The claims change hands with the messages, and most of
the proof is that a step makes nobody claim more than before (`ClaimsKept`): a
detach request that has come early claims an open downlink only behind the
attach complete (`Settled`), and the SMF's worker claims what its subscriber
claimed when it called. The steps of the thread (`UpfStepBearer`) are the only
ones that change tables, and those of one subscriber touch no entry of another
(`TablesApart`). `DownlinkShut`, the last part of the invariant, says that no
modify comes before its session is accepted. `SessionsSound`, `AnswersMatch`, `ModifiedBeforeRelease` and
`NobodyExits` are consequences.

It also proves `RecordsKept`: `Spec => []RecordInv`, from `ConvInv` alone and so
with any number of threads, losses, timeouts and a crash. An id is handed on:
the attach handler enters it, the challenge carries it, the simulator keeps it,
and the detach handler takes it over when it answers; `IdHeld` names the four,
`ContextHeld` does the same for the AMF's context. So `NothingLeft`, that is
`NoResidue`, follows from the two halves: the UPF's tables by `BearerInv`, the
AMF's by `RecordInv`.

The conditions of these theorems are those under which the properties are true:
`NoWrap` (ids in use are given out again after a wrap), `Prompt`, and for the
tables one N4 thread. `base` satisfies all three in every state; the violations
`race_reattach` and `late_answer` show what the last two exclude. The number of
lost datagrams is not among them.

`BearerProofs` also proves `RegistrationImplemented`: every behaviour of the core
in which the counter does not wrap is one of `Registration`. The attach request
is `Ask`; `InitialAttach` is `Assign` (the next id is free by `FreshIds`); taking
the challenge is `Learn` (the id in it is the subscriber's own by `ConvInv`); the
detach request is `Leave`; `RemItfid` is `Remove` (its subscriber no longer uses
the id); an answered or lost detach is `End`; `HandleAutn` never removes an id,
as the responses agree; every other step leaves the three mapped variables alone.

And it proves `SessionImplemented`: every behaviour of the core with one N4
thread, in which the AMF is not killed, the counter does not wrap and no worker of
the SMF gives up, is one of `Session`. `BearerReads` says what the mapping shows
where `BearerInv` holds, table by table: `closing` while the thread is `Leaving`,
`none` when all is `Gone`, `opening` between the first table and the context,
`open` or `active` when the session is `Full`. The first table of a create is
`Open` and its context is `Opened`, for a subscriber that is still attaching
(`ServesSession`); the attach accept is `Accept`, as it claims a full session and
the downlink is shut; a modify is `Activate` or nothing; the reply to a release is
`Close`, as the session is active then; the end of the removals is `Closed`; the
answer to a detach is `Confirm`, as it claims an absent or leaving bearer. The
other steps leave both mapped variables alone.

`FailureProofs` is about `FailSpec`: the core with any number of failing calls,
next to losses, late answers and a crash.

* `FailTypesHold` (`FailSpec => []TypeOK`): an answer that is missing leaves
  zeros or, after a failed `CreateSMContext`, any teids, but no other type.
* `FailConversation` (`FailSpec => []FailInv`). `ConvInv` is false here: a
  session may have the teids of subscriber 0, and UDM and simulator different
  keys. `FailInv` is what is left: `Placement`, and below the wrap the turns of a
  subscriber, its ids, the response it gave and the GUTI its handlers work with.
  Two things are new in it. A challenge may be made of zeros, or of subscriber
  0's vector (`FailedChallengeOK`); then the UE ends, unless it is subscriber 0,
  whose own vector that is (`ExplainedChallenge`). And a response may be refused
  although it is right; then its id is gone and the UE waits in vain (`Refused`).
* All that is said of a subscriber is local to it, so everybody a step does not
  concern is `Away` (`AwayKept`). A call that fails within a handler is its
  worker's own step (`FailedWorkerStep`), and most calls, failing or not, only
  move the handler on: `Onward`, with the step it may go on to and what it still
  has to hold.
* `AuthenticationFailsClosed`, `FailedDetachGuti` and `FailuresEndNothing` follow
  for the three safety properties of `failures` about the AMF and the UDM: a UE
  that is past its authentication gave the response the UDM holds, the GUTI in a
  detach request is its sender's, and no process but the UPF ends itself.

`HandoverProofs` is about `HoSpec`, whatever the order of handovers, attaches and
detaches, with receive timeouts and a kill of the AMF:

* `HandoverTypes` (`HoSpec => [](TypeOK /\ HoTypeOK)`). The teid of an indirect
  tunnel is one more than the session's, so that it is a teid at all depends on
  whose session it is: the AMF always asks for teid 0. Hence the types need to be
  proved together with `SessionTeidsOwned` (teid 0 leads to subscriber 0 or to
  nobody, and the teid in that one's context is 0) and with `ImsiTravels`, the way
  a teid comes into the tables.
* `HandoverSockets` (`HoSpec => []SocketsOK`): a handler's socket is in one request
  at most, in the queue or with a thread, and the handler that made it waits.
  So an answer, however late, ends no wait but the one it is for.
* `TornDownTunnelGone`, for one subscriber (`UeCount = 1`): `HoSpec =>
  []TornDownIsGone`. That the entry is away when the last one busy with a
  teardown has finished is easy as long as nobody enters it again; a setup that
  is late would. `TunnelInv` is why there is none: the setup of a tunnel is in one
  of eight places, from the source's first message to the source that has heard
  of it (`OnePlace`, through `PlacesKeep` and `PlacesMove`: a step leaves a setup
  where it is or moves it on); it makes the teid the source is told
  (`SetupTeid`); and neither completion nor teardown is asked for before the
  source has heard of it (`CompletionOK`). `WorkerSteps` and `ThreadSteps` reduce
  the steps of AMF and UPF to what these parts read. With a second subscriber the
  property is false (section 3), as the teid of one's tunnel is that of the
  next one's session.
* `HandoverIds` (`HoSpec => IdNeverReused`) and `HandoverLookups` (`HoSpec =>
  [](SessionTeidsOwned /\ AddressesOwned)`): what handovers leave to the core for
  any number of subscribers, the ids of the AMF and the UPF's lookups by session
  teid and by address. The third lookup, `s1_id`, is the one they do write.

`IdentifierFacts` is about numbers wider than TLC's. `IdentitiesInjective` and
`AddressesSound` follow from how many digits each number has (`Shifts`): joining
to a number of fixed length is injective, and cutting seven digits off the GUTI
leaves the nine that differ. The pool's invariant `PoolInv` is the closed form of
`subnet` and `host` after *i* turns of the loop.

`WireProofs` is about one connection, for any set of messages that fit the
buffer, any capacity of the kernel and any short reads and writes, also when
either end goes in the middle of a message:

* `RoundTrip`: of a message of any layout, with or without cipher and HMAC, its
  handler reads from the packet what was appended. Each packet function is
  undone by its counterpart (`PrependHolds` and `ExtractHolds`, `HmacBack`,
  `CipherBack`), and the items come out in order by induction over them.
* `OneReading`, `MessageBack`: a receiver that finds a header finds the layout
  with it, so the bytes of a message are those of no other one; `LengthBack` says
  the same of the length in front of them.
* `ReaderInStep` (`WireSpec => []InStep`): what is in the reader's buffer, the
  kernel and the writer's buffer, with the length already taken, is the frames of
  the messages not yet received, or a beginning of them when the writer has gone.
  It is inductive with `WireTypeOK` and `WireBytes`: a write or a short read moves
  bytes from one part to the next (`SyncCut`); a whole length is that of the next
  message, as both begin the same bytes (`SyncLen`); a whole body is that message
  (`SyncBody`), and what follows are the frames of the rest.
* `WireTypesHold`, and `WireIsChannel`: `Snd` is `Send`, the read that completes a
  body is `Deliver` of the next message, `Close` is `Close`, and every other step
  is none of `Channel`'s.

The inductions over items and messages need no induction theorem of the library,
whose predicates the provers cannot instantiate: `AllNumbers` says that a *set* of
numbers with 0 and every successor is all of them (by `WFMin`), and `AppendedDef`,
`AfterItemsDef` and `TrainDef` use it to unfold the recursive functions.

The constants are subject only to the assumptions in the modules that declare
them (counts are natural numbers, at least one UE, worker and thread, `IdSpace`
at least 2; an int fits the packet buffer, a message with its length fits it, and
the value of a header decides the layout, as the type in it does in `handle_ue`).
TLC checks the inductive invariants of the core too: `BearerInv` (with `LinkInv`)
and `RecordInv` (with `FreshIds`) in `base`, `ConvInv` in `reattach`, and the two
parts of `LookupInv` in `faults`.

Only model-checked:

* That the core does not deadlock (it takes ENABLED).
* `FailureContained`: it needs the parts of `LinkInv` and `BearerInv` that hold of
  subscribers none of whose calls has failed.
* `HandoverKeepsSession`, `IndirectTunnelLeads` and `ToldWhenSwitched`: they need
  `BearerInv` with handover messages in between, which `ConvInv` does not allow
  for on the streams. For one subscriber a mapping could hide these messages,
  but `tlapm` cannot cite the theorems of an instance, so that `BearersKept` is
  not to be had under a mapping.
* All liveness properties (liveness under fairness is out of the prover's reach).

## 5. Left out, and why

* **Data plane**: forwarding has no state but the lookups, which are modelled.
* **Data races** on the hash maps (`amf.cpp:191`, `udm.cpp:327-336`): an unlocked
  access is an atomic step of its own. What an unsynchronised insertion leaves
  of a `std::unordered_map` is undefined and has no finite set of outcomes.
* **Failures of the database**, and a UDM, SMF or UPF that restarts empty:
  nothing in the code recovers from them.
* **Digit strings** in `Core`: there IMSI, GUTI, teid and address are injective
  maps (`Platform`), which `Identifiers` shows the real ones to be below
  `MAX_UE_COUNT`. From 10000 subscribers on all share the empty address.
* **The cryptographic library**: `Security` takes cipher text and HMAC as values
  of their own; `Core` sends its messages in the clear, as one that is ciphered
  arrives whenever it would (`wire`).
* **Wrapping of the 32-bit id**: `InitialAttach` computes it (`% IdSpace`), the
  runs do not reach it; after it ids in use are given out again.
* **Connecting to the AMF**: the simulator's `connect_with_server` is a step that
  waits until the AMF runs (the AMF's own connects to RANs are in `Handover`).
  The error that makes `snd` send again, EPERM, does not occur on a connected
  stream.
* Service discovery, AMQP, the tun device, the MySQL client: I/O.

The location update goes through the AUSF (`ausf.cpp:83-115`), which forwards it
to the UDM; the two statements there are `LocationDelete` and `LocationInsert`.

## 6. Plan

1. Done: the core, its faults, failing calls, handover, connections, the two
   refinements; type correctness and every safety invariant of the core that a
   run checks, with the conversation, the N4 link, the UPF's tables and the
   AMF's records as inductive invariants; the steps of both refinements; the
   channel below; types and authentication when calls fail; types, sockets and
   the end of a tunnel in handovers.
2. The session's invariants with handovers in between, and for subscribers whose
   calls have not failed.
3. `Upf` on its own, against any client that keeps to the protocol; what a
   release must do first for the race of `race_reattach` to disappear.
