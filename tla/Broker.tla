------------------------------- MODULE Broker -------------------------------
(***************************************************************************)
(* The connection broker (src/live/broker.rs, broker/outbound.rs) and the  *)
(* reconnecting frontend that it serves (src/live/broker_link.rs).         *)
(*                                                                         *)
(* Producers are emulator connections, Sessions are frontend connections;  *)
(* each is one accepted and authenticated TCP connection, with a thread    *)
(* of its own.  A controller is a frontend process: it may hold several    *)
(* connections, an old one that the broker has not seen end and the one it *)
(* has replaced it with.  The threads share the registry under one lock,   *)
(* so every critical section is one action; what the code does outside the *)
(* lock (encoding a request, writing a response, the producer's writer     *)
(* thread) is an action of its own.                                        *)
(***************************************************************************)
EXTENDS Integers, Sequences, FiniteSets, Fence

CONSTANTS
    Keys,         \* the names of the registry
    AnonKeys,     \* the sequence of names emu1, emu2, ... among them
    Producers,
    Sessions,
    Controllers,
    Launches,
    None,         \* no producer, session, name or launch
    NameOf,       \* the name each producer's hello gives, or None
    LaunchOf,     \* the launch_id of each producer's hello
    Lifecycle,    \* the producers that advertise control_session_lifecycle
    ControllerOf, \* the frontend process behind each session
    QueueFrames,  \* capacity of a producer's outbound queue (4 in the code)
    MaxReq        \* bound: requests that one session sends

ASSUME BrokerAssumption ==
    /\ None \notin Keys \cup Producers \cup Sessions \cup Launches
    /\ AnonKeys \in Seq(Keys)
    /\ NameOf \in [Producers -> Keys \cup {None}]
    /\ LaunchOf \in [Producers -> Launches]
    /\ Lifecycle \subseteq Producers
    /\ ControllerOf \in [Sessions -> Controllers]
    /\ QueueFrames \in Nat \ {0}
    /\ MaxReq \in Nat /\ MaxReq < IdSpace

VARIABLES
    \* Registry: per name, the fields of Emu (conn is the producer, or None).
    conn, gen, session, session_gen, anon, next_gen,
    \* handle_emulator: the thread of each producer, what it registered, and
    \* the line it is about to forward.
    pphase, my_name, my_gen, target,
    \* Outbound: per producer, the queue, the line its writer thread has
    \* taken, the history of the lines the producer can read, whether the
    \* writer runs, and the socket.
    queue, inflight, wire, writer, sock,
    \* handle_session: the thread of each frontend and what it attached to.
    phase, name, registration, my_session_gen, sent,
    live,      \* the frontend sockets that neither end has shut
    known,     \* what each LazyBrokerLink remembers of its last attach
    delivered  \* every line written to a frontend that could read it

registry == <<conn, gen, session, session_gen, anon, next_gen>>
emulators == <<pphase, my_name, my_gen, target>>
outbound == <<queue, inflight, wire, writer, sock>>
frontends == <<phase, name, registration, my_session_gen, sent>>

vars == <<registry, emulators, outbound, frontends, live, known, delivered>>

-----------------------------------------------------------------------------
(* Lines.                                                                   *)

AttachFrame(g) == [kind |-> "attach", sess |-> g, id |-> 0, by |-> None]

DetachFrame(g) == [kind |-> "detach", sess |-> g, id |-> 0, by |-> None]

\* A request as the broker passes it on.  sess is the stamped attachment,
\* which only a lifecycle producer reads; by stands for the payload.
RequestFrame(s) ==
    [kind |-> "request", sess |-> my_session_gen[s],
     id |-> FencePack(my_session_gen[s], sent[s]), by |-> s]

\* What a producer may send: any number of answers (progress included) to a
\* request it can read, each under the id of the request, or a line of its
\* own under an id without a field.
ProducerLines(p) ==
    {[id |-> 0, by |-> None]} \cup
    {[id |-> wire[p][i].id, by |-> wire[p][i].by] :
        i \in {j \in 1 .. Len(wire[p]) : wire[p][j].kind = "request"}}

NoTarget == [sess |-> None, gen |-> 0, id |-> 0, by |-> None]

-----------------------------------------------------------------------------
(* Registry.                                                                *)

Occupied == {k \in Keys : conn[k] # None}

\* Mutant: any pairing of the name will do.
PairedByName(s) == session[name[s]] # None

\* The admission check of a frontend message: the entry the session attached
\* to is still the registered one and still paired with this session.
Paired(s) ==
    /\ gen[name[s]] = registration[s]
    /\ session_gen[name[s]] = my_session_gen[s]
    /\ session[name[s]] # None

-----------------------------------------------------------------------------
(* Outbound: one bounded queue and one writer thread per producer.          *)

\* How many lines the queue of p takes; none once the writer is gone.
Room(p) == IF writer[p] THEN QueueFrames - Len(queue[p]) ELSE 0

\* Mutant: a line that finds the queue full is dropped and the socket kept.
EnqueueOrDrop(p, lines) ==
    /\ queue' = [queue EXCEPT ![p] =
                    IF Len(lines) <= Room(p) THEN @ \o lines
                    ELSE @ \o SubSeq(lines, 1, Room(p))]
    /\ UNCHANGED <<inflight, wire, writer, sock>>

\* Outbound::enqueue of lines, one after the other, as long as they fit; the
\* first that does not closes the transport.
Enqueue(p, lines) ==
    /\ queue' = [queue EXCEPT ![p] =
                    IF Len(lines) <= Room(p) THEN @ \o lines
                    ELSE @ \o SubSeq(lines, 1, Room(p))]
    /\ sock' = [sock EXCEPT ![p] = IF Len(lines) <= Room(p) THEN @ ELSE "shut"]
    /\ UNCHANGED <<inflight, wire, writer>>

\* lifecycle: only a producer that asked for lifecycle events gets one.
LifecycleLines(p, lines) == IF p \in Lifecycle THEN lines ELSE << >>

\* The writer thread takes a line off the queue ...
WriterRecv(p) ==
    /\ writer[p]
    /\ inflight[p] = << >>
    /\ queue[p] # << >>
    /\ inflight' = [inflight EXCEPT ![p] = <<Head(queue[p])>>]
    /\ queue' = [queue EXCEPT ![p] = Tail(@)]
    /\ UNCHANGED <<registry, emulators, wire, writer, sock, frontends, live,
                   known, delivered>>

\* ... and writes it.  A line written after the peer has closed is lost.
WriterWrite(p) ==
    /\ inflight[p] # << >>
    /\ sock[p] # "shut"
    /\ inflight' = [inflight EXCEPT ![p] = << >>]
    /\ wire' = [wire EXCEPT ![p] = IF sock[p] = "open"
                                   THEN Append(@, inflight[p][1]) ELSE @]
    /\ UNCHANGED <<registry, emulators, queue, writer, sock, frontends, live,
                   known, delivered>>

\* The end of a writer thread: its receiver and the lines in it are dropped
\* and the socket is shut.
StopWriter(p) ==
    /\ queue' = [queue EXCEPT ![p] = << >>]
    /\ inflight' = [inflight EXCEPT ![p] = << >>]
    /\ writer' = [writer EXCEPT ![p] = FALSE]
    /\ sock' = [sock EXCEPT ![p] = "shut"]
    /\ UNCHANGED wire

\* A write error or timeout.
WriterFail(p) ==
    /\ inflight[p] # << >>
    /\ StopWriter(p)
    /\ UNCHANGED <<registry, emulators, frontends, live, known, delivered>>

-----------------------------------------------------------------------------
(* Emulator connections.                                                    *)

\* The name of a new registration, and the anonymous counter it leaves.
Naming(p, k, n) ==
    IF NameOf[p] # None
    THEN k = NameOf[p] /\ n = anon
    ELSE /\ n > anon
         /\ k = AnonKeys[n]
         /\ \A m \in anon + 1 .. n - 1 : AnonKeys[m] \in Occupied

Register(p) ==
    /\ pphase[p] = "hello"
    /\ \E k \in Keys \ Occupied, n \in 0 .. Len(AnonKeys) :
        /\ Naming(p, k, n)
        /\ anon' = n
        /\ conn' = [conn EXCEPT ![k] = p]
        /\ gen' = [gen EXCEPT ![k] = next_gen + 1]
        /\ session' = [session EXCEPT ![k] = None]
        /\ session_gen' = [session_gen EXCEPT ![k] = 0]
        /\ my_name' = [my_name EXCEPT ![p] = k]
    /\ next_gen' = next_gen + 1
    /\ my_gen' = [my_gen EXCEPT ![p] = next_gen + 1]
    /\ pphase' = [pphase EXCEPT ![p] = "serving"]
    /\ writer' = [writer EXCEPT ![p] = TRUE]
    /\ sock' = [sock EXCEPT ![p] = "open"]
    /\ UNCHANGED <<target, queue, inflight, wire, frontends, live, known, delivered>>

\* A malformed hello, or a name that is taken: the incumbent stays.
RefuseRegistration(p) ==
    /\ pphase[p] = "hello"
    /\ pphase' = [pphase EXCEPT ![p] = "gone"]
    /\ UNCHANGED <<registry, my_name, my_gen, target, outbound, frontends, live,
                   known, delivered>>

\* The reader thread takes a line of the producer and, under the lock, the
\* session and the generation it is for; without a pairing the line is lost.
ReadLine(p) ==
    LET k == my_name[p] IN
    /\ pphase[p] = "serving"
    /\ target[p] = NoTarget
    /\ gen[k] = my_gen[p]
    /\ session[k] # None
    /\ \E l \in ProducerLines(p) :
        target' = [target EXCEPT ![p] = [sess |-> session[k], gen |-> session_gen[k],
                                         id |-> l.id, by |-> l.by]]
    /\ UNCHANGED <<registry, pphase, my_name, my_gen, outbound, frontends, live,
                   known, delivered>>

\* Outside the lock: fence the line and write it to the session's socket.
\* A write error or timeout shuts that socket.
ForwardLine(p) ==
    LET t == target[p] IN
    /\ t # NoTarget
    /\ target' = [target EXCEPT ![p] = NoTarget]
    /\ \/ /\ FenceAdmits(t.id, t.gen)
          /\ t.sess \in live
          /\ delivered' = delivered \cup
                {[to |-> t.sess, id |-> FenceRestore(t.id), by |-> t.by]}
          /\ UNCHANGED live
       \/ /\ FenceAdmits(t.id, t.gen)
          /\ live' = live \ {t.sess}
          /\ UNCHANGED delivered
       \/ /\ ~FenceAdmits(t.id, t.gen)
          /\ UNCHANGED <<live, delivered>>
    /\ UNCHANGED <<registry, pphase, my_name, my_gen, outbound, frontends, known>>

\* The emulator process ends, or its end of the connection does.
ProducerCrash(p) ==
    /\ sock[p] = "open"
    /\ sock' = [sock EXCEPT ![p] = "peer_closed"]
    /\ UNCHANGED <<registry, emulators, queue, inflight, wire, writer, frontends,
                   live, known, delivered>>

\* The reader sees the end of the connection, or a line that is no frame: it
\* removes the entry that it registered, which shuts the connection, and tells
\* the paired session that the emulator is gone.
ProducerEof(p) ==
    LET k == my_name[p] IN
    /\ pphase[p] = "serving"
    /\ target[p] = NoTarget
    /\ pphase' = [pphase EXCEPT ![p] = "gone"]
    /\ StopWriter(p)
    /\ IF gen[k] = my_gen[p]
       THEN /\ conn' = [conn EXCEPT ![k] = None]
            /\ gen' = [gen EXCEPT ![k] = 0]
            /\ session' = [session EXCEPT ![k] = None]
            /\ session_gen' = [session_gen EXCEPT ![k] = 0]
            /\ delivered' = IF session[k] \notin live THEN delivered
                            ELSE delivered \cup {[to |-> session[k], id |-> 0, by |-> None]}
       ELSE UNCHANGED <<conn, gen, session, session_gen, delivered>>
    /\ UNCHANGED <<anon, next_gen, my_name, my_gen, target, frontends, live, known>>

-----------------------------------------------------------------------------
(* Frontend connections.                                                    *)

\* The entries that an attach which asks for a name (or for none) can mean.
Pick(want) == IF want # None THEN {want} \cap Occupied
              ELSE {k \in Occupied : Occupied = {k}}

\* The name that a frontend asks for: the one of its last attach, if any.
Wants(c) == IF known[c].reg # 0 THEN {known[c].name} ELSE Keys \cup {None}

\* Mutant: a paired emulator is given to any frontend.
AttachAllowedWhileBusy(c, k) ==
    /\ known[c].launch # None => known[c].launch = LaunchOf[conn[k]]
    /\ known[c].reg \in {0, gen[k]} \/ known[c].launch = LaunchOf[conn[k]]

\* handle_session's answer to an attach of controller c to entry k: a
\* remembered launch must be the emulator's, and a remembered registration
\* must be current unless the launch is; a paired emulator is given only to
\* a frontend that remembers this very registration.
AttachAllowed(c, k) ==
    LET sameRegistration == known[c].reg = 0 \/ known[c].reg = gen[k]
        sameLaunch == known[c].launch # None /\ known[c].launch = LaunchOf[conn[k]]
    IN /\ known[c].launch # None => sameLaunch
       /\ sameRegistration \/ sameLaunch
       /\ session[k] # None => known[c].reg # 0 /\ sameRegistration

\* Mutant: a takeover does not announce the loss of the old session.
PairLinesNoDetach(k, g) == LifecycleLines(conn[k], <<AttachFrame(g)>>)

\* pair_session: the lifecycle events of a new pairing.
PairLines(k, g) ==
    LifecycleLines(conn[k],
        IF session[k] # None THEN <<DetachFrame(session_gen[k]), AttachFrame(g)>>
                             ELSE <<AttachFrame(g)>>)

\* The critical section of an attach that is refused or names no emulator.
AttachRefused(s) ==
    /\ phase[s] = "new"
    /\ \E want \in Wants(ControllerOf[s]) :
        \/ Pick(want) = {} /\ UNCHANGED next_gen
        \/ /\ \E k \in Pick(want) : ~AttachAllowed(ControllerOf[s], k)
           /\ next_gen' = next_gen + 1
    /\ phase' = [phase EXCEPT ![s] = "closed"]
    /\ live' = live \ {s}
    /\ UNCHANGED <<conn, gen, session, session_gen, anon, emulators, outbound, name,
                   registration, my_session_gen, sent, known, delivered>>

\* The critical section of an attach that is allowed: the session that was
\* paired, if any, is shut out and its loss is announced before the new one.
\* If an event cannot be enqueued, the emulator is left without a session.
Attach(s) ==
    /\ phase[s] = "new"
    /\ \E want \in Wants(ControllerOf[s]) : \E k \in Pick(want) :
        LET g == next_gen + 1
            ok == Len(PairLines(k, g)) <= Room(conn[k])
        IN
        /\ AttachAllowed(ControllerOf[s], k)
        /\ Enqueue(conn[k], PairLines(k, g))
        /\ session' = [session EXCEPT ![k] = IF ok THEN s ELSE None]
        /\ session_gen' = [session_gen EXCEPT ![k] = IF ok THEN g ELSE @]
        /\ phase' = [phase EXCEPT ![s] = IF ok THEN "attached" ELSE "closed"]
        /\ name' = [name EXCEPT ![s] = k]
        /\ registration' = [registration EXCEPT ![s] = gen[k]]
        /\ my_session_gen' = [my_session_gen EXCEPT ![s] = IF ok THEN g ELSE 0]
        /\ live' = live \ (IF ok THEN {session[k]} ELSE {session[k], s})
    /\ next_gen' = next_gen + 1
    /\ UNCHANGED <<conn, gen, anon, emulators, sent, known, delivered>>

\* The attach response: the frontend learns the registration and the launch.
AttachReply(s) ==
    /\ phase[s] = "attached"
    /\ s \in live
    /\ phase' = [phase EXCEPT ![s] = "reading"]
    /\ \E p \in Producers :
        /\ my_gen[p] = registration[s]
        /\ known' = [known EXCEPT ![ControllerOf[s]] =
                        [name |-> name[s], reg |-> registration[s],
                         launch |-> LaunchOf[p]]]
    /\ UNCHANGED <<registry, emulators, outbound, name, registration,
                   my_session_gen, sent, live, delivered>>

\* A thread of a frontend connection moves on and changes nothing else.
Moves(s, to) ==
    /\ phase' = [phase EXCEPT ![s] = to]
    /\ UNCHANGED <<registry, emulators, outbound, name, registration,
                   my_session_gen, live, known, delivered>>

\* The attach response cannot be written.
AttachReplyFails(s) ==
    /\ phase[s] = "attached"
    /\ Moves(s, "ending")
    /\ UNCHANGED sent

\* The frontend drops the connection: a timeout, a protocol error, its end.
FrontendClose(s) ==
    /\ s \in live
    /\ phase[s] # "new"
    /\ live' = live \ {s}
    /\ UNCHANGED <<registry, emulators, outbound, frontends, known, delivered>>

\* A request line, possibly read into the buffer before the connection was
\* shut: first check under the lock, then encode outside it.
ReadRequest(s) ==
    /\ phase[s] = "reading"
    /\ sent[s] < MaxReq
    /\ sent' = [sent EXCEPT ![s] = @ + 1]
    /\ Moves(s, IF Paired(s) THEN "encoding" ELSE "ending")

\* Mutant: the encoded line is enqueued on the first check alone.
EnqueueUnchecked(s) ==
    /\ phase[s] = "encoding"
    /\ IF conn[name[s]] # None
       THEN Enqueue(conn[name[s]], <<RequestFrame(s)>>)
       ELSE UNCHANGED outbound
    /\ phase' = [phase EXCEPT ![s] = "reading"]
    /\ UNCHANGED <<registry, emulators, name, registration, my_session_gen, sent,
                   live, known, delivered>>

\* The second check under the lock, and the enqueue.
EnqueueRequest(s) ==
    LET p == conn[name[s]] IN
    /\ phase[s] = "encoding"
    /\ \/ /\ Paired(s)
          /\ Enqueue(p, <<RequestFrame(s)>>)
          /\ phase' = [phase EXCEPT ![s] = IF Room(p) > 0 THEN "reading" ELSE "ending"]
       \/ /\ ~Paired(s)
          /\ phase' = [phase EXCEPT ![s] = "ending"]
          /\ UNCHANGED outbound
    /\ UNCHANGED <<registry, emulators, name, registration, my_session_gen, sent,
                   live, known, delivered>>

\* The end of the connection is read, ...
SessionEof(s) ==
    /\ phase[s] = "reading"
    /\ s \notin live
    /\ Moves(s, "ending")
    /\ UNCHANGED sent

\* ... or a line is refused: too long, reserved fields, params not an object.
RefuseRequest(s) ==
    /\ phase[s] \in {"reading", "encoding"}
    /\ Moves(s, "ending")
    /\ UNCHANGED sent

\* Mutant: the end of a session is not announced.
DetachSilently(s) ==
    /\ phase[s] = "ending"
    /\ session' = IF Paired(s) THEN [session EXCEPT ![name[s]] = None] ELSE session
    /\ phase' = [phase EXCEPT ![s] = "closed"]
    /\ UNCHANGED <<conn, gen, session_gen, anon, next_gen, emulators, outbound,
                   name, registration, my_session_gen, sent, live, known, delivered>>

\* detach_session, and the end of the session's thread.
DetachSession(s) ==
    LET k == name[s] IN
    /\ phase[s] = "ending"
    /\ \/ /\ Paired(s)
          /\ session' = [session EXCEPT ![k] = None]
          /\ Enqueue(conn[k], LifecycleLines(conn[k], <<DetachFrame(my_session_gen[s])>>))
       \/ /\ ~Paired(s)
          /\ UNCHANGED <<session, outbound>>
    /\ phase' = [phase EXCEPT ![s] = "closed"]
    /\ UNCHANGED <<conn, gen, session_gen, anon, next_gen, emulators, name,
                   registration, my_session_gen, sent, live, known, delivered>>

-----------------------------------------------------------------------------
Init ==
    /\ conn = [k \in Keys |-> None]
    /\ gen = [k \in Keys |-> 0]
    /\ session = [k \in Keys |-> None]
    /\ session_gen = [k \in Keys |-> 0]
    /\ anon = 0 /\ next_gen = 0
    /\ pphase = [p \in Producers |-> "hello"]
    /\ my_name = [p \in Producers |-> None]
    /\ my_gen = [p \in Producers |-> 0]
    /\ target = [p \in Producers |-> NoTarget]
    /\ queue = [p \in Producers |-> << >>]
    /\ inflight = [p \in Producers |-> << >>]
    /\ wire = [p \in Producers |-> << >>]
    /\ writer = [p \in Producers |-> FALSE]
    /\ sock = [p \in Producers |-> "shut"]
    /\ phase = [s \in Sessions |-> "new"]
    /\ name = [s \in Sessions |-> None]
    /\ registration = [s \in Sessions |-> 0]
    /\ my_session_gen = [s \in Sessions |-> 0]
    /\ sent = [s \in Sessions |-> 0]
    /\ live = Sessions
    /\ known = [c \in Controllers |-> [name |-> None, reg |-> 0, launch |-> None]]
    /\ delivered = {}

WriterStep(p) == WriterRecv(p) \/ WriterWrite(p) \/ WriterFail(p)

ProducerStep(p) ==
    \/ Register(p) \/ RefuseRegistration(p)
    \/ ReadLine(p) \/ ForwardLine(p)
    \/ ProducerCrash(p) \/ ProducerEof(p)

SessionStep(s) ==
    \/ AttachRefused(s) \/ Attach(s) \/ AttachReply(s) \/ AttachReplyFails(s)
    \/ FrontendClose(s) \/ ReadRequest(s) \/ EnqueueRequest(s)
    \/ SessionEof(s) \/ RefuseRequest(s) \/ DetachSession(s)

Next ==
    \/ \E p \in Producers : WriterStep(p) \/ ProducerStep(p)
    \/ \E s \in Sessions : SessionStep(s)

Spec == Init /\ [][Next]_vars

\* Threads that can proceed do: every blocking write of the broker has a
\* timeout, and every read of a closed connection returns.  Nothing is
\* assumed of emulators or frontends.
Fairness ==
    /\ \A p \in Producers :
        /\ WF_vars(WriterStep(p))
        /\ WF_vars(ForwardLine(p))
        /\ WF_vars(sock[p] # "open" /\ ProducerEof(p))
    /\ \A s \in Sessions :
        /\ WF_vars(AttachReply(s) \/ AttachReplyFails(s))
        /\ WF_vars(EnqueueRequest(s))
        /\ WF_vars(SessionEof(s))
        /\ WF_vars(DetachSession(s))

FairSpec == Spec /\ Fairness
-----------------------------------------------------------------------------
(* Properties.                                                              *)

Frames == [kind : {"attach", "detach", "request"}, sess : Nat, id : Nat,
           by : Sessions \cup {None}]

RegistryOK ==
    /\ conn \in [Keys -> Producers \cup {None}]
    /\ gen \in [Keys -> Nat]
    /\ session \in [Keys -> Sessions \cup {None}]
    /\ session_gen \in [Keys -> Nat]
    /\ anon \in 0 .. Len(AnonKeys)
    /\ next_gen \in Nat

EmulatorsOK ==
    /\ pphase \in [Producers -> {"hello", "serving", "gone"}]
    /\ my_name \in [Producers -> Keys \cup {None}]
    /\ my_gen \in [Producers -> Nat]
    /\ target \in [Producers -> [sess : Sessions \cup {None}, gen : Nat, id : Nat,
                                 by : Sessions \cup {None}]]

OutboundOK ==
    /\ queue \in [Producers -> Seq(Frames)]
    /\ inflight \in [Producers -> Seq(Frames)]
    /\ wire \in [Producers -> Seq(Frames)]
    /\ writer \in [Producers -> BOOLEAN]
    /\ sock \in [Producers -> {"open", "peer_closed", "shut"}]
    /\ \A p \in Producers : Len(queue[p]) <= QueueFrames /\ Len(inflight[p]) <= 1

FrontendsOK ==
    /\ phase \in [Sessions -> {"new", "attached", "reading", "encoding", "ending",
                               "closed"}]
    /\ name \in [Sessions -> Keys \cup {None}]
    /\ registration \in [Sessions -> Nat]
    /\ my_session_gen \in [Sessions -> Nat]
    /\ sent \in [Sessions -> 0 .. MaxReq]
    /\ live \subseteq Sessions
    /\ known \in [Controllers -> [name : Keys \cup {None}, reg : Nat,
                                  launch : Launches \cup {None}]]
    /\ delivered \subseteq [to : Sessions, id : Nat, by : Sessions \cup {None}]

\* Every variable has its type, a queue never holds more than its capacity
\* and the writer thread never more than one line besides.
TypeOK == RegistryOK /\ EmulatorsOK /\ OutboundOK /\ FrontendsOK

\* Attachment g is open just before position i of a stream of lines: its
\* attach event is there and no lifecycle event follows it.
OpenBefore(w, g, i) ==
    \E j \in 1 .. i - 1 :
        /\ w[j] = AttachFrame(g)
        /\ \A m \in j + 1 .. i - 1 : w[m].kind = "request"

Bracketed(w) ==
    \A i \in 1 .. Len(w) :
        IF w[i].kind = "attach"
        THEN \A j \in 1 .. i - 1 : ~OpenBefore(w, w[j].sess, i)
        ELSE OpenBefore(w, w[i].sess, i)

\* What a lifecycle producer reads is a succession of attachments: each is
\* opened, used by requests that carry its own stamp and closed before the
\* next is opened, whatever two frontends and the queue do meanwhile.  (The
\* producer's Route refuses the stream, and its bridge exits, otherwise.)
WireBracketed == \A p \in Lifecycle : Bracketed(wire[p])

\* No producer, lifecycle or not, reads a request of a frontend after one of
\* the frontend that took over from it: a stale buffered line is not routed.
NoStaleRequest ==
    \A p \in Producers : \A i, j \in 1 .. Len(wire[p]) :
        i < j => wire[p][i].sess <= wire[p][j].sess

\* A request is read only by the emulator that its frontend was attached to,
\* although names pass from one emulator to another.
RouteKept ==
    \A p \in Producers : \A i \in 1 .. Len(wire[p]) :
        wire[p][i].by # None =>
            my_gen[p] = registration[wire[p][i].by]

Admitted(p) == wire[p] \o inflight[p] \o queue[p]

\* Owner loss is never silently omitted: as long as the transport of a
\* registered lifecycle producer is up, the attachment that the lines
\* admitted for it leave open is the one of the session the registry has
\* paired, and there is none if there is no such session.
OwnerLossAnnounced ==
    \A k \in Occupied :
        LET w == Admitted(conn[k]) IN
        conn[k] \in Lifecycle /\ sock[conn[k]] = "open" =>
            \A g \in 1 .. next_gen :
                OpenBefore(w, g, Len(w) + 1) <=> (session[k] # None /\ session_gen[k] = g)

\* Both together: what a lifecycle producer has read and will read tells it, at
\* every line, whose attachment it serves (pair_session, detach_session and
\* Outbound::enqueue).
WireTellsOwner == WireBracketed /\ OwnerLossAnnounced

\* Until the generation counter wraps the field of the fence, a response
\* reaches only the frontend that asked, under the number it gave.
ResponseToAsker ==
    next_gen < FieldSpace =>
        \A d \in delivered :
            d.by # None => d.by = d.to /\ d.id \in 1 .. sent[d.to]

\* The pairing of a session ends by its own connection's end, with its
\* emulator's, or because a controller that was itself given this very
\* registration before comes back; never by another frontend's attach, by a
\* duplicate registration or by the cleanup of an older thread.
PairingKept ==
    [][\A k \in Occupied : \A s \in Sessions :
        session[k] = s /\ session'[k] # s =>
            \/ phase[s] = "ending"
            \/ pphase'[conn[k]] = "gone"
            \/ \E t \in Sessions : /\ phase[t] = "new" /\ phase'[t] # "new"
                                  /\ known[ControllerOf[t]].reg = gen[k]]_vars

\* A session whose connection has ended gives its emulator up.
DeadSessionReleased ==
    \A s \in Sessions :
        (s \notin live /\ phase[s] # "new") ~> phase[s] = "closed"

OnWire(p, f) == \E i \in 1 .. Len(wire[p]) : wire[p][i] = f

\* A lifecycle producer that has read the attach event of a session whose
\* connection has ended reads the detach event, or loses its own connection.
OwnerLossReachesProducer ==
    \A p \in Lifecycle, s \in Sessions :
        (s \notin live /\ OnWire(p, AttachFrame(my_session_gen[s]))) ~>
            (OnWire(p, DetachFrame(my_session_gen[s])) \/ sock[p] # "open")

\* Both together: the end of a frontend's connection is acted on by its session
\* thread and reaches the producer (handle_session, detach_session).
OwnerLossIsActedOn == DeadSessionReleased /\ OwnerLossReachesProducer

-----------------------------------------------------------------------------
(* The broker implements the interface of a lifecycle producer.             *)

WireOwner(w) == LET open == {g \in 1 .. next_gen : OpenBefore(w, g, Len(w) + 1)}
                IN IF open = {} THEN 0 ELSE CHOOSE g \in open : TRUE

\* The attachment of the last line of a kind on a wire, 0 if there is none.
LastOf(w, kind) == LET at == {i \in 1 .. Len(w) : w[i].kind = kind}
                   IN IF at = {} THEN 0
                      ELSE w[CHOOSE i \in at : \A j \in at : j <= i].sess

Stream == INSTANCE AttachmentStream WITH
    Producers <- Lifecycle,
    Gens  <- 1 .. Cardinality(Producers) + Cardinality(Sessions),
    owner <- [p \in Lifecycle |-> WireOwner(wire[p])],
    epoch <- [p \in Lifecycle |-> LastOf(wire[p], "attach")],
    last  <- [p \in Lifecycle |-> LastOf(wire[p], "request")]

\* The lines that lifecycle producers read are a behaviour of the abstract
\* stream of attachments.
ImplementsStream == Stream!Spec
=============================================================================
