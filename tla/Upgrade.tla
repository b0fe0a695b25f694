------------------------------ MODULE Upgrade ------------------------------
(***************************************************************************)
(* Self upgrade (client/src/upgrade/mod.rs and its scripts): on the        *)
(* server's PerformUpgrade a process downloads a build into its cache      *)
(* directory `updates`, unpacks it, starts a script and exits; the script  *)
(* replaces the program and starts it again.  With Service and ConfigFile  *)
(* this makes a machine: a user's client, a service, an administrator.     *)
(*                                                                         *)
(* The client is the user's, the service root's: each has its own cache.   *)
(* The server asks only processes of the old version to upgrade.           *)
(***************************************************************************)
EXTENDS Service

CONSTANTS
  Machines,     (* records [os, target, pm, gui, runs]                       *)
  Scripts       (* bound: upgrade scripts started in a behaviour             *)

ASSUME MachinesAssumption == \A m \in Machines : m.os \in {"linux", "macos", "windows"}

VARIABLES
  updates,    (* process -> its cache: empty, archive, part or binary        *)
  script,     (* script -> whose upgrade it finishes, how, and its place     *)
  cause       (* history: brokeOff (the unpacking was), cutOff (a copy of    *)
              (* the program was), overlap (an upgrade began before the      *)
              (* script of another one had ended)                            *)

upgradeVars == <<updates, script, cause>>
vars == <<configVars, serviceVars, exe, upgradeVars>>

Programs == {"client", "service"}
Unused == [of |-> "client", package |-> FALSE, at |-> "unused"]
Pending(i) == script[i].at \notin {"unused", "done", "failed", "paused"}
Copying(i) == script[i].at \in {"copying", "copyingPart"}

-----------------------------------------------------------------------------
(* Which build is downloaded.                                                *)

LinuxTargets == {"arm", "armv5te", "aarch64", "mips", "mipsel", "i686", "x86_64"}

(* DownloadConfig::new: the builds there are, by the name of the target.     *)
Builds(system) == CASE system = "linux" -> LinuxTargets
                    [] system = "macos" -> {"aarch64", "x86_64"}
                    [] system = "windows" -> {"x86_64"}

(* get_current_arch: target_arch and consts::ARCH do not tell these apart.   *)
CurrentArchByFamily ==                                             \* faulty variant
  IF machine.target \in {"arm", "armv5te", "aarch64"} THEN "arm" ELSE machine.target
CurrentArch == CASE machine.target = "armv5te" -> "arm"
                 [] machine.target = "mipsel" -> "mips"
                 [] OTHER -> machine.target

(* get_linux_package_type: "none" makes it the archive of the command line.  *)
DownloadType(p) ==
  IF p = "service" \/ ~machine.gui THEN "cli"
  ELSE IF os # "linux" THEN "gui" ELSE IF machine.pm = "none" THEN "cli" ELSE machine.pm

(* get_download_url: gui builds are for macOS and Windows, packages for      *)
(* Linux on x86_64.                                                          *)
Offered(p) == /\ CurrentArch \in Builds(os)
              /\ DownloadType(p) \in {"deb", "rpm"} => CurrentArch = "x86_64"

Build == IF CurrentArch = machine.target THEN "new" ELSE "alien"

-----------------------------------------------------------------------------
(* The process: handle_upgrade_available.                                    *)

PerformUpgrade(p) ==
  /\ At(p, "idle") /\ proc[p].image = "old" /\ Offered(p)
  /\ proc' = [proc EXCEPT ![p].at = "downloading"]
  /\ updates' = [updates EXCEPT ![p] = "empty"]
  /\ cause' = IF \E i \in Scripts : Pending(i) /\ script[i].of = p
              THEN cause \cup {"overlap"} ELSE cause
  /\ UNCHANGED <<file, damaged, serviceVars, exe, script>>

(* run_script starts the script and exits.                                   *)
StartScript(p, package) ==
  /\ \E i \in Scripts :
       /\ script[i].at = "unused"
       /\ script' = [script EXCEPT ![i] = [of |-> p, package |-> package, at |-> "wait"]]
  /\ IF p = "service" THEN EndService("clean")
     ELSE proc' = [proc EXCEPT ![p] = Off] /\ UNCHANGED <<damaged, ended, stopping>>
  /\ UNCHANGED <<file, machine, unit, slipped, exe>>

DownloadedUnawaited(p) ==                                          \* faulty variant
  /\ At(p, "downloading") /\ DownloadType(p) = "cli"
  /\ updates' = [updates EXCEPT ![p] = "part"]
  /\ StartScript(p, FALSE) /\ UNCHANGED cause
Downloaded(p) ==
  /\ At(p, "downloading") /\ DownloadType(p) = "cli"
  /\ proc' = [proc EXCEPT ![p].at = "unpacking"]
  /\ updates' = [updates EXCEPT ![p] = "part"]
  /\ UNCHANGED <<file, damaged, serviceVars, exe, script, cause>>

DownloadedPackage(p) ==
  /\ At(p, "downloading") /\ DownloadType(p) # "cli"
  /\ updates' = [updates EXCEPT ![p] = "archive"]
  /\ StartScript(p, TRUE) /\ UNCHANGED cause

Unpacked(p) ==
  /\ At(p, "unpacking")
  /\ updates' = [updates EXCEPT ![p] = "binary"]
  /\ StartScript(p, FALSE) /\ UNCHANGED cause

(* Any command of the user's program makes execute let go of tar, which is   *)
(* killed, and counts as success; the service gets none on Unix, and unzip   *)
(* reads none.                                                               *)
UnpackBrokenOff ==
  /\ At("client", "unpacking") /\ os # "windows"
  /\ cause' = cause \cup {"brokeOff"}
  /\ StartScript("client", FALSE) /\ UNCHANGED updates

(* The server is told UpgradeFailed; a Stop that broke off a download has    *)
(* been taken, and the client goes on.                                       *)
UpgradeFails(p) ==
  /\ proc[p].at \in {"downloading", "unpacking"}
  /\ proc' = [proc EXCEPT ![p].at = "idle"]
  /\ stopping' = IF p = "service" /\ At(p, "downloading") THEN FALSE ELSE stopping
  /\ UNCHANGED <<file, damaged, machine, unit, ended, slipped, exe, upgradeVars>>

-----------------------------------------------------------------------------
(* The scripts.                                                              *)

ScriptAt(i, place) == script[i].at = place
ScriptGoes(i, place) == script' = [script EXCEPT ![i].at = place]

(* `service start` and `service stop` in a script of Unix ask for a          *)
(* configuration with a token, like any command; Windows has sc besides.     *)
Obeyed == os = "windows" \/ (Runnable /\ file["system"] = "auth")

(* `service stop`, and on Unix pkill: their failures are let pass.           *)
ScriptStops(i) ==
  /\ script[i].of = "service" /\ script[i].at \in {"wait", "kill"}
  /\ ScriptGoes(i, IF ScriptAt(i, "wait") /\ os # "windows" THEN "kill" ELSE "replace")
  /\ IF os = "windows"
     THEN stopping' = (stopping \/ Subscribed) /\ UNCHANGED <<proc, damaged, ended>>
     ELSE IF On("service") /\ (Obeyed \/ ScriptAt(i, "kill")) THEN EndService("clean")
     ELSE /\ ended' = IF Obeyed /\ ScriptAt(i, "wait") THEN AfterStop ELSE ended
          /\ UNCHANGED <<proc, damaged, stopping>>
  /\ UNCHANGED <<file, machine, unit, slipped, exe, updates, cause>>

MayReplace(i) == ScriptAt(i, "replace") \/ (ScriptAt(i, "wait") /\ script[i].of = "client")

(* The installer of a package.                                               *)
Installs(i) ==
  /\ MayReplace(i) /\ script[i].package
  /\ exe' = "new" /\ ScriptGoes(i, "start")
  /\ UNCHANGED <<configVars, serviceVars, updates, cause>>

InCache(i) == ~script[i].package /\ updates[script[i].of] \in {"part", "binary"}

(* Windows: move, which a program that runs does not let happen.             *)
InUse == os = "windows" /\ \E p \in Procs : On(p)

Moves(i) ==
  /\ MayReplace(i) /\ os = "windows" /\ InCache(i) /\ ~InUse
  /\ exe' = IF updates[script[i].of] = "binary" THEN Build ELSE "broken"
  /\ updates' = [updates EXCEPT ![script[i].of] = "empty"]
  /\ ScriptGoes(i, "start")
  /\ UNCHANGED <<configVars, serviceVars, cause>>

(* Unix: cp truncates the program and writes it anew, from the file it has   *)
(* opened; with another script at it, it is whole when the last is through.  *)
Copies(i) ==
  /\ MayReplace(i) /\ os # "windows" /\ InCache(i)
  /\ exe' = "broken"
  /\ ScriptGoes(i, IF updates[script[i].of] = "binary" THEN "copying" ELSE "copyingPart")
  /\ UNCHANGED <<configVars, serviceVars, updates, cause>>

HasCopied(i) ==
  /\ Copying(i)
  /\ exe' = IF ScriptAt(i, "copying") /\ ~\E j \in Scripts \ {i} : Copying(j)
            THEN Build ELSE "broken"
  /\ ScriptGoes(i, "start")
  /\ UNCHANGED <<configVars, serviceVars, updates, cause>>

(* A disk that is full, a source that cannot be read, a kill: the script     *)
(* ends (set -e) and leaves the program truncated.                           *)
CopyFails(i) ==
  /\ Copying(i) /\ ScriptGoes(i, "failed")
  /\ cause' = cause \cup {"cutOff"}
  /\ UNCHANGED <<configVars, serviceVars, exe, updates>>

(* On Windows the service's script kills every clo and tries again, for ever *)
(* if need be.                                                               *)
ReplaceAgain(i) ==
  /\ ScriptAt(i, "replace") /\ InUse
  /\ proc' = [p \in Procs |-> Off]
  /\ damaged' = UNION {DamagedBy(p) : p \in Procs}
  /\ ended' = IF On("service") THEN "failed" ELSE ended
  /\ stopping' = FALSE
  /\ UNCHANGED <<file, machine, unit, slipped, exe, upgradeVars>>

(* The others give up, whatever the reason: the client's on Windows waits    *)
(* for a key, in a console without a window; the rest leave everything as it *)
(* is, a service stopped.                                                    *)
GivesUpWhenInUse(i) ==                                             \* faulty variant
  /\ MayReplace(i) /\ InUse /\ ScriptGoes(i, "failed")
  /\ UNCHANGED <<configVars, serviceVars, exe, updates, cause>>
GivesUp(i) ==
  /\ MayReplace(i) /\ (os = "windows" => script[i].of = "client")
  /\ ScriptGoes(i, IF os = "windows" /\ ~script[i].package THEN "paused" ELSE "failed")
  /\ UNCHANGED <<configVars, serviceVars, exe, updates, cause>>

(* `service start`, on Windows sc start after it: what runs already is no    *)
(* error of the first.  If both fail the script waits for a key.             *)
StartsService(i) ==
  /\ ScriptAt(i, "start") /\ script[i].of = "service"
  /\ \/ /\ Obeyed /\ (os = "windows" => unit /\ (On("service") \/ Runnable))
        /\ ScriptGoes(i, "done")
        /\ ended' = IF unit /\ ~On("service") THEN "asked" ELSE ended
     \/ os # "windows" /\ ~Obeyed /\ ScriptGoes(i, "failed") /\ UNCHANGED ended
     \/ os = "windows" /\ ScriptGoes(i, "paused") /\ UNCHANGED ended
  /\ UNCHANGED <<configVars, machine, unit, stopping, slipped, exe, updates, cause>>

StartsClient(i) ==
  /\ ScriptAt(i, "start") /\ script[i].of = "client"
  /\ IF Runnable /\ ~On("client")
     THEN Open("client", "user", exe) ELSE UNCHANGED configVars
  /\ ScriptGoes(i, IF Runnable THEN "done" ELSE "failed")
  /\ UNCHANGED <<serviceVars, exe, updates, cause>>

-----------------------------------------------------------------------------
(* Processes outside an upgrade.                                             *)

StartClient ==
  /\ "client" \in machine.runs /\ ~On("client") /\ Runnable /\ Open("client", "user", exe)
  /\ UNCHANGED <<serviceVars, exe>>

StartAdmin == /\ ~On("admin") /\ Runnable /\ \E path \in Paths : Open("admin", path, "none")
              /\ UNCHANGED <<serviceVars, exe>>

(* clo set and logout of the administrator, AgentAck of client and service   *)
Saves == /\ \E p \in Procs, token \in BOOLEAN : (p # "admin" => token) /\ Save(p, token)
         /\ UNCHANGED <<serviceVars, exe>>

Writes == (WriteOut("client") \/ WriteOut("admin")) /\ UNCHANGED <<serviceVars, exe>>

Dies == /\ \E p \in {"client", "admin"} :
             On(p) /\ proc' = [proc EXCEPT ![p] = Off] /\ damaged' = DamagedBy(p)
        /\ UNCHANGED <<file, serviceVars, exe>>

(* install may name another file with --conf.                                *)
Administration ==
  \/ \E conf \in Paths : Install(conf)
  \/ LET own == proc["admin"].path IN Start(own) \/ Stop(own) \/ Uninstall(own) \/ Refused(own)
  \/ CopyConfig \/ CopyEnds \/ Register \/ Removes \/ Reloads \/ RemovalFails

ServiceStep == ManagerStarts \/ ServiceStops \/ ServiceEnds \/ ServiceOpens \/ ServiceWrites

MachineStep ==
  /\ StartClient \/ StartAdmin \/ Saves \/ Writes \/ Dies \/ Administration \/ ServiceStep
  /\ UNCHANGED upgradeVars

UpgradeStep ==
  \/ UnpackBrokenOff
  \/ \E p \in Programs : \/ PerformUpgrade(p) \/ Downloaded(p) \/ DownloadedPackage(p)
                         \/ Unpacked(p) \/ UpgradeFails(p)

ScriptStep(i) ==
  \/ ScriptStops(i) \/ Installs(i) \/ Moves(i) \/ Copies(i) \/ HasCopied(i) \/ CopyFails(i)
  \/ ReplaceAgain(i) \/ GivesUp(i) \/ StartsService(i) \/ StartsClient(i)

Init ==
  /\ ServiceInit /\ machine \in Machines
  /\ updates = [p \in Programs |-> "empty"]
  /\ script = [i \in Scripts |-> Unused] /\ cause = {}

Next == MachineStep \/ UpgradeStep \/ \E i \in Scripts : ScriptStep(i)

Spec == Init /\ [][Next]_vars

(* A script that was started runs on; on Windows it moves the file right     *)
(* after it has killed what used it, before any of it is started again.      *)
FairSpec == Spec /\ \A i \in Scripts : WF_vars(ScriptStep(i)) /\ SF_vars(Moves(i))

-----------------------------------------------------------------------------
(* Type invariant of the machine.                                            *)
TypeOK ==
  /\ ConfigTypeOK /\ ServiceTypeOK /\ machine \in Machines
  /\ updates \in [Programs -> {"empty", "archive", "part", "binary"}]
  /\ script \in [Scripts -> [of : Programs, package : BOOLEAN,
       at : {"unused", "wait", "kill", "replace", "copying", "copyingPart", "start",
             "done", "failed", "paused"}]]
  /\ cause \subseteq {"brokeOff", "cutOff", "overlap"}

(* A configuration is torn only while it is written, or because its last     *)
(* writer died, met another writer or copied a torn file: no save, creation  *)
(* or copy that goes undisturbed leaves one behind.                          *)
TornHasACause ==
  \A f \in Paths : file[f] = "torn" => f \in damaged \/ \E p \in Procs : Writing(p, f)

(* On Unix a service is known only where its configuration is, whichever     *)
(* user's file it came from and whoever touched it since; and a process of   *)
(* it that the manager no longer knows was started while systemd's unit was  *)
(* being removed: the stop that an uninstall begins with ends every other    *)
(* one, and launchd leaves no such gap.                                      *)
UnitTellsTheService ==
  os # "windows" => /\ unit => file["system"] # "absent"
                    /\ ~unit /\ On("service") => os = "linux" /\ slipped

(* A program on disk that does not run is one a script is copying just now,  *)
(* or what a copy, an unpacking or an overlap of two upgrades left: no       *)
(* script replaces the program by half a build otherwise.                    *)
ProgramIsSound == exe = "broken" => cause # {} \/ \E i \in Scripts : Copying(i)

(* Every script comes to its end, but on Windows, where it may wait for a    *)
(* key that nobody can press, or for a program that another upgrade deleted. *)
ScriptsEnd ==
  \A i \in Scripts :
    ScriptAt(i, "wait") ~> \/ script[i].at \in {"done", "failed"}
                           \/ os = "windows" /\ (ScriptAt(i, "paused") \/ "overlap" \in cause)
=============================================================================
