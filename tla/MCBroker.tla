------------------------------ MODULE MCBroker ------------------------------
(***************************************************************************)
(* Instances of Broker for TLC.                                            *)
(***************************************************************************)
EXTENDS Broker, TLC

CONSTANTS k1, k2, p1, p2, s1, s2, c1, c2, l1, l2

TwoSessions == {s1, s2}
ControllerOfTwo == (s1 :> c1) @@ (s2 :> c2)
OneControllerOfTwo == (s1 :> c1) @@ (s2 :> c1)

\* One emulator that gives its name.
OneNameOf == (p1 :> k1)
OneLaunchOf == (p1 :> l1)

\* Two emulators, one of them anonymous, of two launches.
PairNameOf == (p1 :> k1) @@ (p2 :> None)
PairLaunchOf == (p1 :> l1) @@ (p2 :> l2)

NoAnonKeys == << >>
AnonKeyList == <<k1, k2>>
=============================================================================
