------------------------------- MODULE MCParts -------------------------------
(***************************************************************************)
(* The parts that meet the broker and the runtime store only through what  *)
(* other modules model, checked side by side: the initial state selects    *)
(* one, the others stay as they are.  The emulator bridges, the hosts and  *)
(* the composed tools answer to the same variables, one at a time.         *)
(***************************************************************************)
EXTENDS Admission, TcpLink, PortSelection, BrokerLinks, SnapshotStore, Recording, Ledger

VARIABLES part,    \* the part that runs
          native, wire, bridge, req

emuVars == <<native, wire, bridge, req>>

Pc98 == INSTANCE Pc98Bridge WITH Points <- {"b", "t"}, Tracing <- {"t"}, MaxEvents <- 2, MaxReqs <- 3
Neo == INSTANCE NeoGeoBridge WITH Points <- {"b", "d"}, Tracing <- {}, MaxReqs <- 3
Msx == INSTANCE OpenMsxBridge WITH MsxPoints <- {"b"}, MaxQueue <- 1, MaxReqs <- 4
N64 == INSTANCE N64Host WITH Points <- {"b"}, MaxReqs <- 3
Psp == INSTANCE PpssppBridge WITH Points <- {"b"}, MaxPending <- 3, MaxHits <- 1, MaxReqs <- 3
Nds == INSTANCE NdsBridge WITH Armed <- {"arm9", "arm7"}, MaxHits <- 1, MaxReqs <- 4
Pcsx2 == INSTANCE Pcsx2Bridge WITH Cards <- {"a"}, MaxHits <- 1, MaxReqs <- 3
Xemu == INSTANCE XemuBridge WITH Discs <- {"d"}, MaxHits <- 1, MaxReqs <- 4
Tools == INSTANCE ComposedTools WITH Attempts <- 1, Hold <- 1, Movie <- 2, Cases <- 2, Last <- 3,
                                     MaxLaunches <- 2, MaxFaults <- 1
Np == INSTANCE Np2kaiHost WITH MaxPendingEvents <- 1, MaxNativeEvents <- 2, MaxHits <- 3, MaxReqs <- 4

\* A part that is not selected starts in one of its initial states.
AdmissionOff == admRole = "controller" /\ \A p \in Peers : admCred[p] = AdmRoot
PortsOff == \A l \in PortLinks : portKey[l] = "none"
SnapshotsOff == \A s \in Savers : saver[s] = saver[CHOOSE t \in Savers : TRUE]
                /\ saver[s].to = CHOOSE d \in Destinations : TRUE
RecordingOff == ~rec.snapshot
EmulatorsOff == native = 0 /\ wire = 0 /\ bridge = 0 /\ req = 0

Emulator ==
    \/ part = "pc98" /\ Pc98!Pc98Init
    \/ part = "neogeo" /\ Neo!NeoInit
    \/ part = "openmsx" /\ Msx!MsxInit
    \/ part = "n64" /\ N64!N64Init
    \/ part = "psp" /\ Psp!PspInit
    \/ part = "nds" /\ Nds!NdsInit
    \/ part = "pcsx2" /\ Pcsx2!Pcsx2Init /\ wire = 0
    \/ part = "np2kai" /\ Np!NpInit
    \/ part = "xemu" /\ Xemu!XemuInit
    \/ part = "tools" /\ Tools!ToolsInit /\ bridge = 0
    \/ part \in {"admission", "tcp", "ports", "links", "snapshots", "recording", "ledger"} /\ EmulatorsOff

Init ==
    /\ Emulator
    /\ AdmInit /\ (part # "admission" => AdmissionOff)
    /\ TcpInit
    /\ PortInit /\ (part # "ports" => PortsOff)
    /\ BlInit
    /\ SnapInit /\ (part # "snapshots" => SnapshotsOff)
    /\ RecInit /\ (part # "recording" => RecordingOff)
    /\ LedInit

NextEmulator ==
    \/ part = "pc98" /\ Pc98!Pc98Next
    \/ part = "neogeo" /\ Neo!NeoNext
    \/ part = "openmsx" /\ Msx!MsxNext
    \/ part = "n64" /\ N64!N64Next
    \/ part = "psp" /\ Psp!PspNext
    \/ part = "nds" /\ Nds!NdsNext
    \/ part = "pcsx2" /\ Pcsx2!Pcsx2Next /\ UNCHANGED wire
    \/ part = "np2kai" /\ Np!NpNext
    \/ part = "xemu" /\ Xemu!XemuNext
    \/ part = "tools" /\ Tools!ToolsNext /\ UNCHANGED bridge

Next ==
    /\ UNCHANGED part
    /\ \/ part = "admission" /\ AdmNext /\ UNCHANGED <<tcpVars, portVars, blVars, snapVars, recVars, ledVars, emuVars>>
       \/ part = "tcp" /\ TcpNext /\ UNCHANGED <<admVars, portVars, blVars, snapVars, recVars, ledVars, emuVars>>
       \/ part = "ports" /\ PortNext /\ UNCHANGED <<admVars, tcpVars, blVars, snapVars, recVars, ledVars, emuVars>>
       \/ part = "links" /\ BlNext /\ UNCHANGED <<admVars, tcpVars, portVars, snapVars, recVars, ledVars, emuVars>>
       \/ part = "snapshots" /\ SnapNext /\ UNCHANGED <<admVars, tcpVars, portVars, blVars, recVars, ledVars, emuVars>>
       \/ part = "recording" /\ RecNext /\ UNCHANGED <<admVars, tcpVars, portVars, blVars, snapVars, ledVars, emuVars>>
       \/ part = "ledger" /\ LedNext /\ UNCHANGED <<admVars, tcpVars, portVars, blVars, snapVars, recVars, emuVars>>
       \/ NextEmulator /\ UNCHANGED <<admVars, tcpVars, portVars, blVars, snapVars, recVars, ledVars>>

Spec == Init /\ [][Next]_<<part, admVars, tcpVars, portVars, blVars, snapVars, recVars, ledVars, emuVars>>

-----------------------------------------------------------------------------
\* Whatever bridge or host it is: an answer that says the machine is halted, that
\* a parent with effects is cleaned up or a state restored, was true of the
\* emulator, with its frame gate, its stop budget and the input of the ports the
\* parent recorded; late stops, hits, receipts and failed jobs included.  A bridge
\* that retired its control or lost its transport claims nothing more.  Excepted is
\* an N64 host whose debugger wait timed out with its request standing, or that set
\* the run state over an unread hit (Settled).
EmuHaltIsReal ==
    CASE part = "pc98" -> Pc98!Pc98HaltIsReal
      [] part = "neogeo" -> Neo!NeoHaltIsReal
      [] part = "openmsx" -> Msx!MsxHaltIsReal
      [] part = "n64" -> N64!N64HaltIsReal /\ N64!N64GateIsKnown
      [] part = "psp" -> Psp!PspHaltIsReal
      [] part = "nds" -> Nds!NdsHaltIsReal
      [] part = "pcsx2" -> Pcsx2!Pcsx2HaltIsReal /\ Pcsx2!Pcsx2StopInBudget
      [] part = "np2kai" -> Np!NpHaltIsReal
      [] part = "xemu" -> Xemu!XemuHaltIsReal /\ Xemu!XemuStateWhole /\ Xemu!XemuEpochHolds
      [] OTHER -> TRUE


\* What a tool composed of several calls answers is true of the emulator: the input
\* it held is gone, what it measured was of the frame, the anchor and the launch that
\* its caller meant, whatever was refused, lost or relaunched in between.
ToolsSound == part = "tools" => Tools!ComposedToolsSound
==============================================================================
