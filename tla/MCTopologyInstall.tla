--------------------------- MODULE MCTopologyInstall ---------------------------
(***************************************************************************)
(* The second manifest adds a chain to the first and moves an identity     *)
(* between chains.  The third one is never installed: it asks for an       *)
(* instance in another battery's launcher and for a suffix that answers on *)
(* D-Bus.  A process restarted while it is in place takes half of an       *)
(* identity of each of the others.                                         *)
(***************************************************************************)
EXTENDS TopologyInstall, TLC

Id(s, i) == [suffix |-> s, instance |-> i]

Manifests ==
    {1 :> Id("s1", 1),
     (1 :> Id("s2", 2)) @@ (2 :> Id("s1", 1)),
     (1 :> Id("s1", 9)) @@ (2 :> Id("s8", 2))}
Launchers == {Id("s9", 9)}
OnBus == {Id("s8", 8)}
=============================================================================
