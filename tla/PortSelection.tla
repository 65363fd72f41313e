---------------------------- MODULE PortSelection ----------------------------
(***************************************************************************)
(* The ports that direct links listen on (ensure_connected and             *)
(* select_runtime_generation of src/live/tcp.rs, src/live/tcp/session.rs   *)
(* and src/live/tcp/reattach.rs), seen over several controllers that share *)
(* the runtime store and one range of ports.  What the store says is read  *)
(* first and the port bound after it: other controllers run in between.    *)
(***************************************************************************)
EXTENDS Naturals, FiniteSets

CONSTANTS PortLinks,        \* controllers
          PortKeys,         \* their control identities; "none" has no stable id
          PortRange,        \* AUTO_PORT_RANGE, from base port 1
          MaxPortLaunches,  \* bound: launches of one behaviour
          MaxPortDecays     \* bound: exits and lost records of one behaviour

ASSUME PortAssumption == PortRange \in Nat /\ "none" \notin PortLinks

VARIABLES slots,       \* port -> its current manifest, link record and capability
          files,       \* port -> the identity in its token file
          persisted,   \* identity -> its persisted port, 0 without one
          portKey,     \* link -> its identity
          portLink,    \* link -> where ensure_connected is, and its listener
          portCount,   \* launches so far
          portDecayed  \* exits and lost records so far

portVars == <<slots, files, persisted, portKey, portLink, portCount, portDecayed>>

Ports == 1 .. PortRange
NoGeneration == [emulator |-> "none"]
NoLease == [holder |-> "none"]
Unbound == [step |-> "idle", attach |-> 0, reserved |-> {}, port |-> 0, launch |-> 0,
            returned |-> FALSE, raced |-> {}]

PortInit ==
    /\ slots = [p \in Ports |-> NoGeneration]
    /\ files = [p \in Ports |-> "none"]
    /\ persisted = [k \in PortKeys |-> 0]
    /\ portKey \in [PortLinks -> PortKeys]
    /\ portLink = [l \in PortLinks |-> Unbound]
    /\ portCount = 0 /\ portDecayed = 0

-----------------------------------------------------------------------------
\* The generation may still run.
MayBeLive(slot) ==
    /\ slot # NoGeneration
    /\ slot.emulator # "exited" \/ slot.bridge \notin {"none", "exited"}

LeaseState(lease, l) ==
    CASE lease.holder = l -> "held"
      [] lease.holder = "gone" -> "available"
      [] OTHER -> "occupied"

\* This process's control key is the lease's.
SameControl(slot, key) == slot.lease # NoLease /\ key # "none" /\ slot.lease.key = key

\* A preference that does not ask who holds the lease.
PreferredByKey(slot, l) ==
    /\ MayBeLive(slot) /\ SameControl(slot, portKey[l])
    /\ slot.emulator = "alive" /\ slot.auth

Preferred(slot, l) ==
    /\ MayBeLive(slot) /\ SameControl(slot, portKey[l])
    /\ slot.emulator = "alive" /\ slot.auth
    /\ LeaseState(slot.lease, l) \in {"held", "available"}

\* The one generation of this control session that it can take back; nothing while
\* there are several, or one that is not (yet) to be had; or else a scan that
\* leaves every generation that may be live alone.
SelectRuntimeGeneration(l) ==
    LET mine == {p \in Ports : MayBeLive(slots[p]) /\ SameControl(slots[p], portKey[l])}
        preferred == {p \in Ports : Preferred(slots[p], l)}
    IN  IF Cardinality(preferred) = 1
        THEN [kind |-> "attach", port |-> CHOOSE p \in preferred : TRUE, reserved |-> {}]
        ELSE [kind |-> IF mine # {} THEN "blocked" ELSE "scan", port |-> 0,
              reserved |-> {p \in Ports : MayBeLive(slots[p])}]

\* A token file holds a token of this session only if it names its identity, and no
\* session without a stable id owns one.
SessionTokenIsOwn(file, key) == key # "none" /\ file = key

Busy(l) == {portLink[q].port : q \in PortLinks \ {l}}

\* The first port that is free and not reserved: the persisted one, or the lowest.
BoundPort(kept, reserved, busy) ==
    LET free == Ports \ (reserved \cup busy)
    IN  IF kept \in free THEN kept
        ELSE IF free = {} THEN 0
        ELSE CHOOSE p \in free : \A q \in free : p <= q

-----------------------------------------------------------------------------
Scan(l) ==
    /\ portLink[l].step = "idle"
    /\ LET choice == SelectRuntimeGeneration(l)
       IN  /\ choice.kind # "blocked"
           /\ portLink' = [portLink EXCEPT ![l] =
                [Unbound EXCEPT !.step = "scanned",
                                !.attach = choice.port, !.reserved = choice.reserved,
                                !.launch = IF choice.port = 0 THEN 0 ELSE slots[choice.port].launch]]
    /\ UNCHANGED <<slots, files, persisted, portKey, portCount, portDecayed>>

\* The port is bound and its token chosen: of the generation to attach, of the live
\* generation on a persisted port, of the token file, or a new one, which is written.
Bind(l) ==
    LET link == portLink[l]
        kept == IF portKey[l] = "none" THEN 0 ELSE persisted[portKey[l]]
        port == IF link.attach = 0 THEN BoundPort(kept, link.reserved, Busy(l))
                ELSE IF link.attach \in Busy(l) THEN 0 ELSE link.attach
        live == port # 0 /\ slots[port].emulator = "alive" /\ slots[port].auth
        launch == IF link.attach # 0 THEN link.launch
                  ELSE IF port = kept /\ live THEN slots[port].launch ELSE 0
    IN  /\ link.step = "scanned"
        /\ portLink' = [portLink EXCEPT ![l] =
                IF port = 0 THEN Unbound
                ELSE [Unbound EXCEPT !.step = "bound", !.port = port, !.launch = launch,
                                     !.raced = link.raced]]
        /\ persisted' = IF port = 0 \/ portKey[l] = "none" THEN persisted
                        ELSE [persisted EXCEPT ![portKey[l]] = port]
        /\ files' = IF port = 0 \/ launch # 0 \/ SessionTokenIsOwn(files[port], portKey[l]) THEN files
                    ELSE [files EXCEPT ![port] = portKey[l]]
        /\ UNCHANGED <<slots, portKey, portCount, portDecayed>>

\* What the reattach tool asks of a generation.
CanReattach(slot, l) ==
    /\ slot # NoGeneration
    /\ slot.emulator = "alive" /\ slot.bridge \in {"none", "alive"} /\ slot.auth
    /\ slot.lease # NoLease /\ LeaseState(slot.lease, l) \in {"held", "available"}

\* History: a link that has read the store and not bound yet did not see this.
Races(p) ==
    [l \in PortLinks |-> IF portLink[l].step = "scanned"
                         THEN [portLink[l] EXCEPT !.raced = @ \cup {p}] ELSE portLink[l]]

Leased(slot, l) == [slot EXCEPT !.lease = [holder |-> l, key |-> portKey[l]]]

\* returned_generation: the port is bound unless it is, then the lease claimed; the
\* listener moves, and a lease held on the port it leaves stays.
ReattachTarget(l, p) ==
    /\ portLink[l].step \in {"idle", "bound"}
    /\ CanReattach(slots[p], l) /\ p \notin Busy(l)
    /\ slots' = [slots EXCEPT ![p] = Leased(@, l)]
    /\ portLink' = [Races(p) EXCEPT ![l] =
            [Unbound EXCEPT !.step = "bound", !.port = p, !.launch = slots[p].launch,
                            !.returned = TRUE]]
    /\ files' = [files EXCEPT ![p] = "generation"]
    /\ UNCHANGED <<persisted, portKey, portCount, portDecayed>>

-----------------------------------------------------------------------------
\* The launch tool, on a port whose generation has exited.
PortLaunch(l) ==
    LET p == portLink[l].port
    IN  /\ portLink[l].step = "bound" /\ portCount < MaxPortLaunches
        /\ ~MayBeLive(slots[p])
        /\ \E bridge \in {"none", "alive"} :
             slots' = [slots EXCEPT ![p] =
                Leased([emulator |-> "alive", bridge |-> bridge, auth |-> TRUE,
                        launch |-> portCount + 1, lease |-> NoLease], l)]
        /\ portCount' = portCount + 1
        /\ portLink' = [Races(p) EXCEPT ![l].launch = portCount + 1]
        /\ files' = [files EXCEPT ![p] = "generation"]
        /\ UNCHANGED <<persisted, portKey, portDecayed>>

\* A mutation of a connected link claims the lease of its generation if it is free.
PortClaim(l) ==
    LET p == portLink[l].port
    IN  /\ portLink[l].step = "bound" /\ slots[p] # NoGeneration
        /\ slots[p].launch = portLink[l].launch /\ slots[p].emulator = "alive"
        /\ slots[p].lease # NoLease /\ LeaseState(slots[p].lease, l) = "available"
        /\ slots' = [slots EXCEPT ![p] = Leased(@, l)]
        /\ portLink' = Races(p)
        /\ UNCHANGED <<files, persisted, portKey, portCount, portDecayed>>

\* A process exits, cannot be verified any more, or a record is lost.
PortDecays(p) ==
    /\ slots[p] # NoGeneration /\ portDecayed < MaxPortDecays
    /\ portDecayed' = portDecayed + 1
    /\ \/ slots' = [slots EXCEPT ![p].emulator = "exited"]
       \/ slots[p].emulator = "alive" /\ slots' = [slots EXCEPT ![p].emulator = "unknown"]
       \/ slots[p].bridge = "alive" /\ slots' = [slots EXCEPT ![p].bridge = "exited"]
       \/ slots' = [slots EXCEPT ![p].lease = NoLease]
       \/ slots' = [slots EXCEPT ![p].auth = FALSE]
    /\ UNCHANGED <<files, persisted, portKey, portLink, portCount>>

\* A controller exits and is started again with the same identity.
PortRestart(l) ==
    /\ portLink' = [portLink EXCEPT ![l] = Unbound]
    /\ slots' = [p \in Ports |->
            IF slots[p] # NoGeneration /\ slots[p].lease.holder = l
            THEN [slots[p] EXCEPT !.lease.holder = "gone"] ELSE slots[p]]
    /\ UNCHANGED <<files, persisted, portKey, portCount, portDecayed>>

PortNext ==
    \/ \E l \in PortLinks :
          \/ Scan(l) \/ Bind(l) \/ PortLaunch(l) \/ PortClaim(l) \/ PortRestart(l)
          \/ \E p \in Ports : ReattachTarget(l, p)
    \/ \E p \in Ports : PortDecays(p)

PortSpec == PortInit /\ [][PortNext]_portVars

-----------------------------------------------------------------------------
\* Unless another controller launched or claimed on that port between the reading
\* of the store and the bind: a link listens on the port of a generation that may
\* be live only as its successor (the control identity of its lease is the link's,
\* or it was handed over by reattachment), and then nobody else that runs holds
\* the lease of the generation whose token the link took.
PortKept ==
    \A l \in PortLinks :
        LET link == portLink[l]
            slot == slots[link.port]
        IN  /\ link.port # 0 /\ link.port \notin link.raced
            /\ MayBeLive(slot) /\ slot.lease # NoLease
            =>  /\ slot.launch = link.launch /\ slot.lease.holder \in {l, "gone"}
                /\ SameControl(slot, portKey[l]) \/ slot.lease.holder = l \/ link.returned
==============================================================================
