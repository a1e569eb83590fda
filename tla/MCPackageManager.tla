-------------------------- MODULE MCPackageManager --------------------------
(***************************************************************************)
(* Instances of PackageManager for TLC: four rows of the registry          *)
(* (packages/registry/registry.cpp) that show every shape it has: a        *)
(* package two others depend on and that has no sources, and a dependency  *)
(* (i2c) the registry does not know.                                       *)
(***************************************************************************)
EXTENDS PackageManager

MCNames == {"mqtt", "webserver", "wifi", "bme280", "i2c"}
MCRegistered == MCNames \ {"i2c"}
MCDeps ==
    [n \in MCRegistered |->
        CASE n \in {"mqtt", "webserver"} -> {"wifi"}
          [] n = "bme280" -> {"i2c"}
          [] OTHER -> {}]
MCFiles == {"h", "cpp"}
MCSrcFiles == [n \in MCRegistered |-> IF n = "wifi" THEN {} ELSE MCFiles]

\* The smaller registry of the run with two processes.
TwoNames == {"mqtt", "wifi"}
TwoDeps == [n \in TwoNames |-> IF n = "mqtt" THEN {"wifi"} ELSE {}]
TwoFiles == {"h"}
TwoSrcFiles == [n \in TwoNames |-> TwoFiles]
=============================================================================
