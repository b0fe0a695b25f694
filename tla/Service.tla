------------------------------ MODULE Service ------------------------------
(***************************************************************************)
(* The system service: what the commands of `clo service` do               *)
(* (client/src/base.rs, service/mod.rs, linux.rs, macos.rs, windows.rs),   *)
(* and what the platform's service manager, which is external, does with   *)
(* the unit they install: systemd restarts a service that failed, launchd  *)
(* (KeepAlive) one that ended in any way, Windows none.                    *)
(*                                                                         *)
(* Only the administrator's process runs these commands, under sudo on     *)
(* Unix: its own configuration is then the system's.                       *)
(***************************************************************************)
EXTENDS ConfigFile

VARIABLES
  machine,    (* its os ("linux", "macos", "windows"), target architecture,  *)
              (* package manager and whether the client is the graphical one *)
  unit,       (* the service manager knows the service                       *)
  ended,      (* how the service's last process ended: clean or failed       *)
  stopping,   (* Windows: a stop control the service has received            *)
  slipped,    (* history: the service's last process was started after the   *)
              (* stop of an uninstall that had not ended                     *)
  exe         (* the program on disk: old, new, alien (of another machine)   *)
              (* or broken                                                   *)

serviceVars == <<machine, unit, ended, stopping, slipped>>

os == machine.os

Runnable == exe \in {"old", "new"}

EndService(how) ==
  /\ proc' = [proc EXCEPT !["service"] = Off]
  /\ damaged' = DamagedBy("service")
  /\ ended' = how /\ stopping' = FALSE

-----------------------------------------------------------------------------
(* handle_service_command: a configuration that is readable and has a token  *)
(* is asked of every action, of stop and uninstall too.                      *)
ActualConfig(conf) ==
  IF proc["admin"].token \/ os = "windows" \/ file["user"] = "absent" THEN conf ELSE "user"

Refused(conf) == /\ At("admin", "idle") /\ file[ActualConfig(conf)] # "auth"
                 /\ proc' = [proc EXCEPT !["admin"] = Off]
                 /\ UNCHANGED <<file, damaged, serviceVars, exe>>

Accepted(conf) == At("admin", "idle") /\ file[ActualConfig(conf)] = "auth"

AdminDone == proc' = [proc EXCEPT !["admin"] = Off]

Install(conf) ==
  /\ Accepted(conf)
  /\ proc' = [proc EXCEPT !["admin"].at = IF os = "windows" THEN "registering" ELSE "installing",
                          !["admin"].path = ActualConfig(conf)]
  /\ UNCHANGED <<file, damaged, serviceVars, exe>>

(* copy_config_to_system reads the file again, whoever writes it now.        *)
AfterCopy == IF os = "windows" THEN Off ELSE [proc["admin"] EXCEPT !.at = "registering"]

CopyConfig ==
  /\ At("admin", "installing")
  /\ IF proc["admin"].path = "system"
     THEN proc' = [proc EXCEPT !["admin"] = AfterCopy] /\ UNCHANGED file
     ELSE /\ proc' = [proc EXCEPT !["admin"].at = "copying"]
          /\ file' = [file EXCEPT !["system"] = "torn"]
  /\ damaged' = IF proc["admin"].path = "system" THEN damaged ELSE damaged \ {"system"}
  /\ UNCHANGED <<serviceVars, exe>>

CopyEnds ==
  /\ At("admin", "copying")
  /\ Put("admin", file[proc["admin"].path], AfterCopy)
  /\ UNCHANGED <<serviceVars, exe>>

(* systemd: write the unit and enable it; launchd: load, which also starts   *)
(* it; Windows creates the service before it copies the configuration.       *)
Register ==
  /\ At("admin", "registering")
  /\ unit' = TRUE
  /\ proc' = [proc EXCEPT !["admin"] = IF os = "windows" THEN [@ EXCEPT !.at = "installing"] ELSE Off]
  /\ ended' = IF On("service") THEN ended
              ELSE IF os = "macos" THEN "asked" ELSE IF unit THEN ended ELSE "none"
  /\ UNCHANGED <<file, damaged, machine, stopping, slipped, exe>>

(* Starting what is not installed fails, what runs already does nothing; the *)
(* status of systemctl and launchctl is not looked at.                       *)
Start(conf) ==
  /\ Accepted(conf) /\ AdminDone
  /\ ended' = IF unit /\ ~On("service") THEN "asked" ELSE ended
  /\ UNCHANGED <<file, damaged, machine, unit, stopping, slipped, exe>>

(* systemd knows a unit until it reloads, whether or not the file is gone.   *)
ManagerStarts ==
  /\ \/ ended = "asked"
     \/ ended = "failed" /\ os \in {"linux", "macos"}
     \/ ended = "clean" /\ os = "macos"
  /\ unit /\ ~On("service") /\ Runnable /\ "service" \in machine.runs
  /\ proc' = [proc EXCEPT !["service"] = [Off EXCEPT !.at = "starting", !.image = exe]]
  /\ ended' = "none" /\ slipped' = (proc["admin"].at \in {"removing", "reloading"})
  /\ UNCHANGED <<file, damaged, machine, unit, stopping, exe>>

(* On Unix the process is terminated wherever it is.  On Windows the control *)
(* handler sends on a broadcast channel to which run_app subscribes only     *)
(* when its configuration is loaded: until then a stop goes nowhere.         *)
Subscribed == proc["service"].at \in {"idle", "saving", "downloading", "unpacking"}

AfterStop == IF On("service") THEN "clean"
             ELSE IF os = "linux" /\ ended \in {"asked", "failed"} THEN "none" ELSE ended

StopService(next) ==
  IF os = "windows"
  THEN /\ stopping' = (stopping \/ Subscribed) /\ proc' = [proc EXCEPT !["admin"] = next]
       /\ UNCHANGED <<damaged, ended>>
  ELSE /\ proc' = [proc EXCEPT !["admin"] = next, !["service"] = Off]
       /\ damaged' = DamagedBy("service") /\ ended' = AfterStop
       /\ UNCHANGED stopping

Stop(conf) == Accepted(conf) /\ StopService(Off) /\ UNCHANGED <<file, machine, unit, slipped, exe>>

(* launchd stops and forgets in one (unload); what is left of the plist      *)
(* changes nothing.  The others stop first and remove later: anyone may      *)
(* start the service in between.                                             *)
Removing == [proc["admin"] EXCEPT !.at = "removing"]

UninstallRunning(conf) ==                                          \* faulty variant
  /\ Accepted(conf)
  /\ proc' = [proc EXCEPT !["admin"] = Removing]
  /\ UNCHANGED <<file, damaged, serviceVars, exe>>
Uninstall(conf) ==
  /\ Accepted(conf)
  /\ IF os = "macos" THEN StopService(Off) /\ unit' = FALSE
                     ELSE StopService(Removing) /\ UNCHANGED unit
  /\ UNCHANGED <<file, machine, slipped, exe>>

(* systemctl disable and remove_file, then daemon-reload; Windows waits ten  *)
(* seconds for the service to stop and deletes it, stopped or not.           *)
Removes ==
  /\ At("admin", "removing")
  /\ proc' = [proc EXCEPT !["admin"] = IF os = "linux" THEN [@ EXCEPT !.at = "reloading"] ELSE Off]
  /\ unit' = (unit /\ os = "linux")
  /\ UNCHANGED <<file, damaged, machine, ended, stopping, slipped, exe>>

Reloads ==
  /\ At("admin", "reloading") /\ AdminDone
  /\ unit' = FALSE
  /\ UNCHANGED <<file, damaged, machine, ended, stopping, slipped, exe>>

(* An error in any of these steps ends the command where it is.              *)
RemovalFails ==
  /\ proc["admin"].at \in {"removing", "reloading"} /\ AdminDone
  /\ UNCHANGED <<file, damaged, serviceVars, exe>>

-----------------------------------------------------------------------------
(* The service's process: run_app's task hears the stop; the client ends by  *)
(* itself when its connection does, or with an error.                        *)
ServiceStops ==
  /\ On("service") /\ At("service", "idle") /\ stopping
  /\ EndService("clean") /\ UNCHANGED <<file, machine, unit, slipped, exe>>

ServiceEnds ==
  /\ On("service") /\ \E how \in {"clean", "failed"} : EndService(how)
  /\ UNCHANGED <<file, machine, unit, slipped, exe>>

(* On Windows the service counts as running before it has read its file.     *)
ServiceOpens ==
  /\ At("service", "starting") /\ Open("service", "system", proc["service"].image)
  /\ ended' = IF file["system"] = "torn" THEN "failed" ELSE ended
  /\ UNCHANGED <<machine, unit, stopping, slipped, exe>>

ServiceWrites == WriteOut("service") /\ UNCHANGED <<serviceVars, exe>>

ServiceInit ==
  /\ ConfigInit
  /\ unit = FALSE /\ ended = "none" /\ stopping = FALSE /\ slipped = FALSE
  /\ exe = "old"

ServiceTypeOK ==
  /\ unit \in BOOLEAN /\ stopping \in BOOLEAN /\ slipped \in BOOLEAN
  /\ ended \in {"none", "asked", "clean", "failed"}
  /\ exe \in {"old", "new", "alien", "broken"}
=============================================================================
