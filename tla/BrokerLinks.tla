----------------------------- MODULE BrokerLinks -----------------------------
(***************************************************************************)
(* The election of the broker process (src/bin/emucap-broker.rs) and the   *)
(* reconnecting link of a frontend (LazyBrokerLink and BrokerLink of       *)
(* src/live/broker_link.rs), through crashes and restarts of the broker.   *)
(* Binding both ports is the lock; every winner publishes a token of its   *)
(* own and starts with an empty registry, so registration ids come again.  *)
(* The registry and its pairings are the subject of Broker; here it is the *)
(* map from names to registrations that a link meets.                      *)
(***************************************************************************)
EXTENDS Naturals, FiniteSets

CONSTANTS BrokerProcs,   \* processes that may be started as the broker
          EmuLaunches,   \* launches that register under the one name
          MaxLinkSilent, \* MAX_CONSECUTIVE_TIMEOUTS
          MaxRegs        \* bound on the registrations of one broker

VARIABLES proc,       \* process -> where it is in main()
          emuPort, sessPort,   \* who has the ports bound
          ctlFile,    \* the published controller token
          prodFile,   \* the published producer token
          registry,   \* the registration of the serving broker
          nextReg,
          lazy,       \* the LazyBrokerLink: pins, tokens and its inner link
          linkSilent  \* consecutive_timeouts of the inner link

blVars == <<proc, emuPort, sessPort, ctlFile, prodFile, registry, nextReg, lazy, linkSilent>>

Nobody == "nobody"

ASSUME BrokerLinksAssumption ==
    /\ MaxLinkSilent \in Nat \ {0} /\ MaxRegs \in Nat
    /\ Nobody \notin BrokerProcs /\ Nobody \notin EmuLaunches

NoReg == [id |-> 0, launch |-> Nobody, session |-> Nobody]
NoLink == [server |-> Nobody]
\* The producers' token is derived from the controllers' and does not give it away.
ProducerToken(token) == [producer |-> token]

BlInit ==
    /\ proc = [b \in BrokerProcs |-> "start"]
    /\ emuPort = Nobody /\ sessPort = Nobody
    /\ ctlFile = Nobody /\ prodFile = ProducerToken(Nobody)
    /\ registry = NoReg /\ nextReg = 1
    /\ lazy = [named |-> FALSE, reg |-> 0, launch |-> Nobody, token |-> Nobody, inner |-> NoLink]
    /\ linkSilent = 0

Serving(b) == proc[b] = "serving"
Go(b, where) == proc' = [proc EXCEPT ![b] = where]

-----------------------------------------------------------------------------
\* elect_broker: the emulator port, then the session port; a partial bind is given up.
BindEmu(b) ==
    /\ proc[b] = "start"
    /\ IF emuPort = Nobody
       THEN emuPort' = b /\ Go(b, "bound")
       ELSE Go(b, "waiting") /\ UNCHANGED emuPort
    /\ UNCHANGED <<sessPort, ctlFile, prodFile, registry, nextReg, lazy, linkSilent>>

BindSess(b) ==
    /\ proc[b] = "bound"
    /\ IF sessPort = Nobody
       THEN sessPort' = b /\ Go(b, "elected") /\ UNCHANGED emuPort
       ELSE emuPort' = Nobody /\ Go(b, "waiting") /\ UNCHANGED sessPort
    /\ UNCHANGED <<ctlFile, prodFile, registry, nextReg, lazy, linkSilent>>

\* authenticate_session against the process that has the session port: it proves
\* that it holds the token that is published.
ProvesToken(token) == \E b \in BrokerProcs : Serving(b) /\ sessPort = b /\ token = b

\* wait_for_session: probe until an incumbent proves the published token, or give up.
\* A probe attaches nothing.
WaitForSession(b) ==
    /\ proc[b] = "waiting"
    /\ \/ ProvesToken(ctlFile) /\ Go(b, "deferred")
       \/ Go(b, "failed")
    /\ UNCHANGED <<emuPort, sessPort, ctlFile, prodFile, registry, nextReg, lazy, linkSilent>>

\* A token published whatever the election says.
PublishEarly(b) ==
    /\ proc[b] \in {"waiting", "elected"}
    /\ ctlFile' = b
    /\ Go(b, IF proc[b] = "elected" THEN "published" ELSE proc[b])
    /\ UNCHANGED <<emuPort, sessPort, prodFile, registry, nextReg, lazy, linkSilent>>

\* mint_and_publish_session_token, in the order of its two writes.
PublishController(b) ==
    /\ proc[b] = "elected"
    /\ ctlFile' = b /\ Go(b, "published")
    /\ UNCHANGED <<emuPort, sessPort, prodFile, registry, nextReg, lazy, linkSilent>>

PublishProducer(b) ==
    /\ proc[b] = "published"
    /\ prodFile' = ProducerToken(b) /\ Go(b, "serving")
    /\ registry' = NoReg /\ nextReg' = 1
    /\ UNCHANGED <<emuPort, sessPort, ctlFile, lazy, linkSilent>>

\* A write fails, or the process dies; its ports are free again and its
\* connections are closed.
BrokerDies(b) ==
    /\ proc[b] \in {"bound", "elected", "published", "serving"}
    /\ Go(b, "dead")
    /\ emuPort' = IF emuPort = b THEN Nobody ELSE emuPort
    /\ sessPort' = IF sessPort = b THEN Nobody ELSE sessPort
    /\ registry' = NoReg
    /\ UNCHANGED <<ctlFile, prodFile, nextReg, lazy, linkSilent>>

-----------------------------------------------------------------------------
\* A producer that was started with the current producer token registers, in place
\* of the one before; a producer leaves.
Registers(launch) ==
    /\ \E b \in BrokerProcs : Serving(b) /\ prodFile = ProducerToken(b)
    /\ registry' = [id |-> nextReg, launch |-> launch, session |-> Nobody]
    /\ nextReg' = nextReg + 1 /\ nextReg <= MaxRegs
    /\ UNCHANGED <<proc, emuPort, sessPort, ctlFile, prodFile, lazy, linkSilent>>

Unregisters ==
    /\ registry # NoReg
    /\ registry' = NoReg
    /\ UNCHANGED <<proc, emuPort, sessPort, ctlFile, prodFile, nextReg, lazy, linkSilent>>

\* The registry's answer to attach with the pins of the link (Broker has the whole).
PinsMatchByRegistration ==
    /\ registry # NoReg
    /\ lazy.reg \in {0, registry.id}
    /\ registry.session = Nobody \/ lazy.reg = registry.id

PinsMatch ==
    /\ registry # NoReg
    /\ lazy.launch # Nobody => registry.launch = lazy.launch
    /\ lazy.reg \in {0, registry.id} \/ registry.launch = lazy.launch
    /\ registry.session = Nobody \/ lazy.reg = registry.id

\* ensure_connected: the published token is read again for every connection, the
\* broker proves it, and attach is sent with the pins of the connection before.
LazyConnects ==
    /\ lazy.inner = NoLink /\ ctlFile # Nobody
    /\ IF ProvesToken(ctlFile) /\ PinsMatch
       THEN /\ lazy' = [named |-> TRUE, reg |-> registry.id, launch |-> registry.launch,
                        token |-> ctlFile,
                        inner |-> [server |-> ctlFile, reg |-> registry.id, launch |-> registry.launch]]
            /\ registry' = [registry EXCEPT !.session = "link"]
            /\ linkSilent' = 0
       ELSE lazy' = [lazy EXCEPT !.token = ctlFile] /\ UNCHANGED <<registry, linkSilent>>
    /\ UNCHANGED <<proc, emuPort, sessPort, ctlFile, prodFile, nextReg>>

InnerAlive ==
    /\ lazy.inner # NoLink /\ Serving(lazy.inner.server)
    /\ registry.id = lazy.inner.reg /\ registry.session = "link"

\* The session of a link that is given up is detached.
Detached == IF InnerAlive THEN [registry EXCEPT !.session = Nobody] ELSE registry

\* A call is answered by the registration that the link is attached to.
LazyCallAnswered ==
    /\ InnerAlive
    /\ linkSilent' = 0
    /\ UNCHANGED <<proc, emuPort, sessPort, ctlFile, prodFile, registry, nextReg, lazy>>

\* A call that gets no line; the third in a row gives the link up.
LazyCallTimesOut ==
    /\ lazy.inner # NoLink
    /\ IF linkSilent + 1 >= MaxLinkSilent
       THEN linkSilent' = 0 /\ lazy' = [lazy EXCEPT !.inner = NoLink] /\ registry' = Detached
       ELSE linkSilent' = linkSilent + 1 /\ UNCHANGED <<lazy, registry>>
    /\ UNCHANGED <<proc, emuPort, sessPort, ctlFile, prodFile, nextReg>>

\* NotConnected, Protocol or Cancelled, a deadline, or prepare_reconnect: the inner
\* link is dropped and its pins stay.
LazyGivesUp ==
    /\ lazy.inner # NoLink
    /\ lazy' = [lazy EXCEPT !.inner = NoLink] /\ registry' = Detached
    /\ UNCHANGED <<proc, emuPort, sessPort, ctlFile, prodFile, nextReg, linkSilent>>

BlNext ==
    \/ \E b \in BrokerProcs :
          \/ BindEmu(b) \/ BindSess(b) \/ WaitForSession(b)
          \/ PublishController(b) \/ PublishProducer(b) \/ BrokerDies(b)
    \/ \E launch \in EmuLaunches : Registers(launch)
    \/ Unregisters \/ LazyConnects \/ LazyCallAnswered \/ LazyCallTimesOut \/ LazyGivesUp

BlSpec == BlInit /\ [][BlNext]_blVars

-----------------------------------------------------------------------------
Publishes(b) == emuPort = b /\ sessPort = b /\ ctlFile = b /\ prodFile = ProducerToken(b)
StandsBack(b) == proc[b] # "deferred" /\ proc'[b] = "deferred"

\* While a broker serves, it has both ports and the published tokens are its own,
\* and a process that stands back does so for one that serves like that: it did
\* not take a half-started or a dead broker for the incumbent (wait_for_session).
ServingIsPublished ==
    [][\A b \in BrokerProcs :
         /\ Serving(b)' => Publishes(b)'
         /\ StandsBack(b) => \E d \in BrokerProcs \ {b} : Serving(d) /\ Publishes(d)]_blVars

\* A link that was attached to a managed launch is never attached to another one,
\* although a restarted broker hands out the same registration ids again.
LinkStaysOnLaunch ==
    [][\A l \in EmuLaunches :
         lazy.launch = l /\ lazy'.inner # NoLink => lazy'.inner.launch = l]_blVars
==============================================================================
