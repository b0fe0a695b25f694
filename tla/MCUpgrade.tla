----------------------------- MODULE MCUpgrade -----------------------------
(* Machines for TLC: each platform with the programs that run on it, a       *)
(* graphical client with a package manager, and a target whose name is       *)
(* another one's.                                                            *)
EXTENDS Upgrade

Box(system, target, manager, graphical, programs) ==
  [os |-> system, target |-> target, pm |-> manager, gui |-> graphical, runs |-> programs]

MCMachines ==
  {Box("linux", "x86_64", "deb", TRUE, {"client"}),
   Box("linux", "aarch64", "none", TRUE, {"client"}),
   Box("linux", "x86_64", "none", FALSE, {"service"}),
   Box("linux", "mipsel", "none", FALSE, {"service"}),
   Box("macos", "aarch64", "none", FALSE, {"service"}),
   Box("windows", "x86_64", "none", FALSE, {"service"}),
   Box("windows", "x86_64", "none", FALSE, {"client"})}

MCScripts == {1}
=============================================================================
