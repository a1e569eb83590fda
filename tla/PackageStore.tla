---------------------------- MODULE PackageStore ----------------------------
(***************************************************************************)
(* What packages/manager/manager.h promises of the set of installed        *)
(* packages: it changes by one package at a time, a package is installed   *)
(* after the packages it depends on, and init() starts over.               *)
(***************************************************************************)
CONSTANTS Registered, Deps

VARIABLE installed

Init == installed = {}

\* The end of add(): dependencies the registry knows are there already.
Install(n) ==
    /\ n \in Registered
    /\ Deps[n] \cap Registered \subseteq installed
    /\ installed' = installed \cup {n}

\* The end of remove(); whether another package needs n is not asked.
Uninstall(n) ==
    /\ n \in installed
    /\ installed' = installed \ {n}

Reset == installed' = {}

Next ==
    \/ \E n \in Registered : Install(n) \/ Uninstall(n)
    \/ Reset

Spec == Init /\ [][Next]_installed
=============================================================================
