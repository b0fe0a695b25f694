--------------------------- MODULE Upgrade_proofs ---------------------------
(***************************************************************************)
(* Proofs about a machine with its configurations, service and upgrades,   *)
(* for any machines and any number of upgrade scripts: the type of the     *)
(* state, what tears a file, that a service is where its configuration is, *)
(* which of its processes outlive its removal, and when an upgrade leaves  *)
(* a program that does not run.                                            *)
(***************************************************************************)
EXTENDS Upgrade, TLAPS

(* What is being installed has a file, and files do not vanish.              *)
InstallHasAFile ==
  /\ proc["admin"].at \in {"installing", "copying", "registering"}
       => file[proc["admin"].path] # "absent"
  /\ At("admin", "registering") /\ os # "windows" => file["system"] # "absent"

(* Where the administrator's command is between the stop of an uninstall and *)
(* its end; the service that runs meanwhile was started there.               *)
Gap == {"removing", "reloading"}
RemovalStops ==
  os # "windows" /\ proc["admin"].at \in Gap => os = "linux" /\ (On("service") => slipped)

(* Half a build is in a cache while its process is still at it, or else      *)
(* something has gone wrong.                                                 *)
HalfBuildsHaveACause ==
  \A i \in Scripts : Pending(i) =>
    /\ proc[script[i].of].at \in {"downloading", "unpacking"} => cause # {}
    /\ ~script[i].package /\ updates[script[i].of] = "part" => cause # {}
    /\ ScriptAt(i, "copyingPart") => cause # {}
-----------------------------------------------------------------------------
Process == [at : Places, path : Paths, token : BOOLEAN, image : {"none", "old", "new"}]

FilesType == file \in [Paths -> Contents] /\ proc \in [Procs -> Process] /\ damaged \subseteq Paths
ScriptPlaces == {"unused", "wait", "kill", "replace", "copying", "copyingPart", "start",
                 "done", "failed", "paused"}
RestType == /\ ServiceTypeOK /\ machine \in Machines
            /\ updates \in [Programs -> {"empty", "archive", "part", "binary"}]
            /\ script \in [Scripts -> [of : Programs, package : BOOLEAN,
                 at : ScriptPlaces]]
            /\ cause \subseteq {"brokeOff", "cutOff", "overlap"}

LEMMA TypeParts == TypeOK <=> FilesType /\ RestType
BY DEF TypeOK, ConfigTypeOK, FilesType, RestType, Process, ScriptPlaces

LEMMA OffIsAProcess == Off \in Process /\ Off.at = "off"
BY DEF Off, Process, Places, Paths

(* What a dying process damages is a file. *)
LEMMA Damage ==
  ASSUME FilesType, NEW p \in Procs
  PROVE  DamagedBy(p) \subseteq Paths
BY DEF FilesType, DamagedBy, Target, Process, Paths

(* Opening, saving and writing out keep the files' type. *)
LEMMA OpenType ==
  ASSUME FilesType, NEW p \in Procs, NEW path \in Paths, NEW image \in {"none", "old", "new"},
         Open(p, path, image)
  PROVE  FilesType'
<1>1. ASSUME NEW token \in BOOLEAN, NEW at \in Places
      PROVE  [Off EXCEPT !.path = path, !.token = token, !.image = image, !.at = at] \in Process
  BY OffIsAProcess DEF Process
<1>2. proc' \in [Procs -> Process]
  BY <1>1, OffIsAProcess DEF FilesType, Open, Places
<1>3. file' \in [Paths -> Contents] /\ damaged' \subseteq Paths
  BY DEF FilesType, Open, Contents
<1> QED
  BY <1>2, <1>3 DEF FilesType

LEMMA SaveType ==
  ASSUME FilesType, NEW p \in Procs, NEW token \in BOOLEAN, Save(p, token)
  PROVE  FilesType'
<1>1. [proc[p] EXCEPT !.at = "saving", !.token = token] \in Process
  BY DEF FilesType, Process, Places
<1>2. proc' = [proc EXCEPT ![p] = [proc[p] EXCEPT !.at = "saving", !.token = token]]
  BY DEF Save, FilesType
<1>3. proc' \in [Procs -> Process]
  BY <1>1, <1>2 DEF FilesType
<1>4. file' \in [Paths -> Contents] /\ damaged' \subseteq Paths
  BY DEF FilesType, Save, Contents
<1> QED
  BY <1>3, <1>4 DEF FilesType

LEMMA PutType ==
  ASSUME FilesType, NEW p \in Procs, NEW content \in Contents, NEW next \in Process,
         Put(p, content, next)
  PROVE  FilesType'
<1>1. Target(p) \in Paths
  BY DEF FilesType, Target, Process, Paths
<1>2. PICK result \in {content, "torn"} :
        /\ file' = [file EXCEPT ![Target(p)] = result]
        /\ damaged' \in {damaged \cup {Target(p)}, damaged \ {Target(p)}}
  BY DEF Put
<1>3. file' \in [Paths -> Contents] /\ damaged' \subseteq Paths
  BY <1>1, <1>2 DEF FilesType, Contents
<1>4. proc' \in [Procs -> Process]
  BY DEF FilesType, Put
<1> QED
  BY <1>3, <1>4 DEF FilesType

LEMMA WriteOutType ==
  ASSUME FilesType, NEW p \in Procs, WriteOut(p)
  PROVE  FilesType'
<1>1. [proc[p] EXCEPT !.at = "idle"] \in Process /\ Off \in Process
  BY OffIsAProcess DEF FilesType, Process, Places
<1>2. Whole(proc[p].token) \in Contents /\ "anon" \in Contents
  BY DEF Whole, Contents
<1> QED
  BY <1>1, <1>2, PutType DEF WriteOut

(* Files stay and one process goes to another place, or all go. *)
LEMMA MoveType ==
  ASSUME FilesType, NEW p \in Procs, NEW next \in Process, proc' = [proc EXCEPT ![p] = next],
         UNCHANGED file, damaged' \subseteq Paths
  PROVE  FilesType'
BY DEF FilesType
(* A process that stops, and one that only goes to another place. *)
LEMMA StopType ==
  ASSUME FilesType, NEW p \in Procs
  PROVE  /\ \A q \in Procs : DamagedBy(q) \subseteq Paths
         /\ \A place \in Places : [proc[p] EXCEPT !.at = place] \in Process
BY Damage DEF FilesType, Process

(* The administrator's commands keep the type. *)
LEMMA AdministrationType ==
  ASSUME FilesType, RestType, Administration, UNCHANGED upgradeVars
  PROVE  FilesType' /\ RestType'
<1> USE DEF RestType, ServiceTypeOK, serviceVars, upgradeVars
<1>0. /\ \A q \in Procs : DamagedBy(q) \subseteq Paths
      /\ \A place \in Places : [proc["admin"] EXCEPT !.at = place] \in Process
      /\ "admin" \in Procs /\ "service" \in Procs /\ proc["admin"] \in Process
      /\ proc["admin"].path \in Paths
  BY StopType DEF Procs, FilesType, Process
<1>a. \A conf \in Paths : ActualConfig(conf) \in Paths
  BY DEF ActualConfig, Paths
<1>b. AfterCopy \in Process
  BY <1>0, OffIsAProcess DEF AfterCopy, Places
<1>1. ASSUME NEW conf \in Paths, Install(conf)
      PROVE  FilesType' /\ RestType'
  <2>1. \A place \in Places, path \in Paths :
          [proc["admin"] EXCEPT !.at = place, !.path = path] \in Process
    BY <1>0 DEF Process
  <2>2. PICK place \in Places, path \in Paths :
          proc' = [proc EXCEPT !["admin"] = [proc["admin"] EXCEPT !.at = place, !.path = path]]
    <3>1. PICK place \in Places :
            proc' = [proc EXCEPT !["admin"].at = place, !["admin"].path = ActualConfig(conf)]
      BY <1>1 DEF Install, Places
    <3> QED
      BY <1>0, <1>a, <3>1 DEF FilesType
  <2> QED
    BY <1>0, <1>1, <2>1, <2>2, MoveType DEF Install, FilesType
<1>2. ASSUME NEW conf \in Paths, Start(conf) \/ Refused(conf)
      PROVE  FilesType' /\ RestType'
  BY <1>0, <1>2, OffIsAProcess, MoveType DEF Start, Refused, AdminDone, FilesType
<1>3. ASSUME NEW conf \in Paths, Stop(conf) \/ Uninstall(conf)
      PROVE  FilesType' /\ RestType'
  <2>1. PICK next \in Process : StopService(next)
    BY <1>0, <1>3, OffIsAProcess DEF Stop, Uninstall, Removing, Places
  <2>2. UNCHANGED <<file, machine, slipped, exe>> /\ unit' \in BOOLEAN
    BY <1>3 DEF Stop, Uninstall
  <2>3. FilesType'
    BY <1>0, <2>1, <2>2, OffIsAProcess DEF StopService, FilesType
  <2>4. stopping' \in BOOLEAN /\ ended' \in {"none", "asked", "clean", "failed"}
    BY <2>1 DEF StopService, Subscribed, AfterStop
  <2> QED
    BY <2>2, <2>3, <2>4
<1>4. CASE CopyConfig
  <2>1. PICK next \in Process : proc' = [proc EXCEPT !["admin"] = next]
    BY <1>0, <1>4, <1>b DEF CopyConfig, Places, FilesType
  <2>2. file' \in [Paths -> Contents] /\ damaged' \subseteq Paths
    BY <1>4 DEF CopyConfig, FilesType, Contents
  <2> QED
    BY <1>0, <1>4, <2>1, <2>2 DEF CopyConfig, FilesType
<1>5. CASE CopyEnds
  <2>1. file[proc["admin"].path] \in Contents
    BY <1>0 DEF FilesType
  <2> QED
    BY <1>0, <1>5, <1>b, <2>1, PutType DEF CopyEnds
<1>6. CASE Register
  <2>1. [proc["admin"] EXCEPT !.at = "installing"] \in Process
    BY <1>0 DEF Places
  <2> QED
    BY <1>0, <1>6, <2>1, OffIsAProcess, MoveType DEF Register, FilesType
<1>7. CASE Removes \/ Reloads \/ RemovalFails
  <2>1. PICK next \in Process : proc' = [proc EXCEPT !["admin"] = next]
    BY <1>0, <1>7, OffIsAProcess DEF Removes, Reloads, RemovalFails, AdminDone, Places
  <2> QED
    BY <1>0, <1>7, <2>1, MoveType DEF Removes, Reloads, RemovalFails, FilesType
<1> QED
  BY <1>0, <1>1, <1>2, <1>3, <1>4, <1>5, <1>6, <1>7 DEF Administration

(* So does the service. *)
LEMMA ServiceType ==
  ASSUME FilesType, RestType, ServiceStep, UNCHANGED upgradeVars
  PROVE  FilesType' /\ RestType'
<1> USE DEF RestType, ServiceTypeOK, serviceVars, upgradeVars
<1>0. /\ DamagedBy("service") \subseteq Paths /\ "service" \in Procs
      /\ proc["service"] \in Process
  BY StopType DEF Procs, FilesType
<1>1. CASE ManagerStarts
  <2>1. [Off EXCEPT !.at = "starting", !.image = exe] \in Process
    BY <1>1, OffIsAProcess DEF ManagerStarts, Runnable, Process, Places
  <2> QED
    BY <1>0, <1>1, <2>1, MoveType DEF ManagerStarts, FilesType
<1>2. CASE ServiceStops \/ ServiceEnds
  BY <1>0, <1>2, OffIsAProcess, MoveType DEF ServiceStops, ServiceEnds, EndService
<1>3. CASE ServiceOpens
  <2>1. proc["service"].image \in {"none", "old", "new"} /\ "system" \in Paths
    BY <1>0 DEF Process, Paths
  <2>2. FilesType'
    BY <1>0, <1>3, <2>1, OpenType DEF ServiceOpens
  <2> QED
    BY <1>3, <2>2 DEF ServiceOpens
<1>4. CASE ServiceWrites
  BY <1>0, <1>4, WriteOutType DEF ServiceWrites
<1> QED
  BY <1>1, <1>2, <1>3, <1>4 DEF ServiceStep

LEMMA MachineType ==
  ASSUME FilesType, RestType, MachineStep
  PROVE  FilesType' /\ RestType'
<1> USE DEF RestType, ServiceTypeOK, serviceVars, upgradeVars
<1>0. "client" \in Procs /\ "admin" \in Procs /\ "user" \in Paths /\ UNCHANGED upgradeVars
  BY DEF Procs, Paths, MachineStep
<1>1. CASE StartClient
  <2>1. exe \in {"none", "old", "new"}
    BY <1>1 DEF StartClient, Runnable
  <2> QED
    BY <1>0, <1>1, <2>1, OpenType DEF StartClient
<1>2. CASE StartAdmin
  BY <1>0, <1>2, OpenType DEF StartAdmin
<1>3. CASE Saves \/ Writes
  BY <1>0, <1>3, SaveType, WriteOutType DEF Saves, Writes
<1>4. CASE Dies
  <2>1. PICK p \in {"client", "admin"} : proc' = [proc EXCEPT ![p] = Off] /\ damaged' = DamagedBy(p)
    BY <1>4 DEF Dies
  <2>2. damaged' \subseteq Paths /\ p \in Procs
    BY <1>0, <2>1, StopType
  <2>3. FilesType'
    BY <1>4, <2>1, <2>2, OffIsAProcess, MoveType DEF Dies
  <2> QED
    BY <1>0, <1>4, <2>3 DEF Dies
<1> QED
  BY <1>0, <1>1, <1>2, <1>3, <1>4, AdministrationType, ServiceType DEF MachineStep
(* So do the steps of an upgrade, before the script and in it. *)
LEMMA UpgradeType ==
  ASSUME FilesType, RestType, UpgradeStep
  PROVE  FilesType' /\ RestType'
<1> USE DEF RestType, ServiceTypeOK, serviceVars, upgradeVars
<1>0. /\ \A p \in Programs : p \in Procs /\ proc[p] \in Process
      /\ \A p \in Procs : DamagedBy(p) \subseteq Paths
      /\ "client" \in Programs
  BY StopType DEF Programs, Procs, FilesType
<1>1. ASSUME NEW p \in Programs, NEW package \in BOOLEAN, StartScript(p, package)
      PROVE  /\ FilesType'
             /\ script' \in [Scripts -> [of : Programs, package : BOOLEAN,
                  at : ScriptPlaces]]
             /\ stopping' \in BOOLEAN /\ ended' \in {"none", "asked", "clean", "failed"}
             /\ UNCHANGED <<machine, unit, slipped, exe>>
  <2>1. script' \in [Scripts -> [of : Programs, package : BOOLEAN,
                  at : ScriptPlaces]]
    BY <1>1 DEF StartScript, ScriptPlaces
  <2>2. proc' = [proc EXCEPT ![p] = Off] /\ damaged' \in {damaged, DamagedBy(p)} /\ file' = file
    BY <1>1 DEF StartScript, EndService
  <2>3. FilesType'
    <3>1. damaged' \subseteq Paths
      BY <1>0, <2>2 DEF FilesType
    <3> QED
      BY <1>0, <2>2, <3>1, OffIsAProcess, MoveType
  <2>4. stopping' \in BOOLEAN /\ ended' \in {"none", "asked", "clean", "failed"}
        /\ UNCHANGED <<machine, unit, slipped, exe>>
    BY <1>1 DEF StartScript, EndService
  <2> QED
    BY <2>1, <2>3, <2>4
<1>2. ASSUME NEW p \in Programs, NEW place \in Places, proc' = [proc EXCEPT ![p].at = place],
             UNCHANGED <<file, damaged>>
      PROVE  FilesType'
  <2>1. [proc[p] EXCEPT !.at = place] \in Process
    BY <1>0, StopType
  <2> QED
    BY <1>0, <1>2, <2>1 DEF FilesType
<1>3. CASE UnpackBrokenOff
  BY <1>0, <1>1, <1>3 DEF UnpackBrokenOff
<1>4. ASSUME NEW p \in Programs, PerformUpgrade(p) \/ Downloaded(p) \/ UpgradeFails(p)
      PROVE  FilesType' /\ RestType'
  <2>1. FilesType'
    BY <1>2, <1>4 DEF PerformUpgrade, Downloaded, UpgradeFails, Places
  <2>2. updates' \in [Programs -> {"empty", "archive", "part", "binary"}]
    BY <1>4 DEF PerformUpgrade, Downloaded, UpgradeFails
  <2> QED
    BY <1>4, <2>1, <2>2 DEF PerformUpgrade, Downloaded, UpgradeFails
<1>5. ASSUME NEW p \in Programs, DownloadedPackage(p) \/ Unpacked(p)
      PROVE  FilesType' /\ RestType'
  <2>1. PICK package \in BOOLEAN : StartScript(p, package)
    BY <1>5 DEF DownloadedPackage, Unpacked
  <2>2. updates' \in [Programs -> {"empty", "archive", "part", "binary"}] /\ cause' = cause
    BY <1>5 DEF DownloadedPackage, Unpacked
  <2> QED
    BY <1>1, <2>1, <2>2
<1> QED
  BY <1>3, <1>4, <1>5 DEF UpgradeStep

LEMMA ScriptType ==
  ASSUME FilesType, RestType, NEW i \in Scripts, ScriptStep(i)
  PROVE  FilesType' /\ RestType'
<1> USE DEF RestType, ServiceTypeOK, serviceVars, upgradeVars, configVars
<1>0. /\ \A p \in Procs : DamagedBy(p) \subseteq Paths
      /\ "client" \in Procs /\ "service" \in Procs /\ "user" \in Paths
  BY StopType DEF Procs, Paths
<1>1. ASSUME NEW place \in ScriptPlaces, ScriptGoes(i, place)
      PROVE  script' \in [Scripts -> [of : Programs, package : BOOLEAN,
                  at : ScriptPlaces]]
  BY <1>1 DEF ScriptGoes
<1>2. CASE ScriptStops(i)
  <2>1. FilesType'
    BY <1>0, <1>2, OffIsAProcess, MoveType DEF ScriptStops, EndService, FilesType
  <2>2. stopping' \in BOOLEAN /\ ended' \in {"none", "asked", "clean", "failed"}
    BY <1>2 DEF ScriptStops, EndService, Subscribed, AfterStop
  <2> QED
    BY <1>1, <1>2, <2>1, <2>2 DEF ScriptStops, ScriptPlaces
<1>3. CASE Installs(i) \/ Moves(i) \/ Copies(i) \/ HasCopied(i) \/ CopyFails(i)
  <2>1. exe' \in {"old", "new", "alien", "broken"}
    BY <1>3 DEF Installs, Moves, Copies, HasCopied, CopyFails, Build
  <2>2. updates' \in [Programs -> {"empty", "archive", "part", "binary"}]
    BY <1>3 DEF Installs, Moves, Copies, HasCopied, CopyFails
  <2>3. cause' \subseteq {"brokeOff", "cutOff", "overlap"}
    BY <1>3 DEF Installs, Moves, Copies, HasCopied, CopyFails
  <2>4. UNCHANGED <<configVars, serviceVars>>
    BY <1>3 DEF Installs, Moves, Copies, HasCopied, CopyFails
  <2>5. PICK place \in ScriptPlaces : ScriptGoes(i, place)
    BY <1>3 DEF Installs, Moves, Copies, HasCopied, CopyFails, ScriptPlaces
  <2> QED
    BY <1>1, <2>1, <2>2, <2>3, <2>4, <2>5 DEF FilesType
<1>4. CASE ReplaceAgain(i)
  <2>1. damaged' \subseteq Paths
    BY <1>0, <1>4 DEF ReplaceAgain
  <2> QED
    BY <1>4, <2>1, OffIsAProcess DEF ReplaceAgain, FilesType
<1>5. CASE GivesUp(i)
  BY <1>1, <1>5 DEF GivesUp, ScriptPlaces, FilesType
<1>6. CASE StartsService(i)
  BY <1>1, <1>6 DEF StartsService, ScriptPlaces, FilesType
<1>7. CASE StartsClient(i)
  <2>1. FilesType'
    BY <1>0, <1>7, OpenType DEF StartsClient, Runnable, FilesType
  <2> QED
    BY <1>1, <1>7, <2>1 DEF StartsClient, ScriptPlaces
<1> QED
  BY <1>2, <1>3, <1>4, <1>5, <1>6, <1>7 DEF ScriptStep

LEMMA TypeStep == TypeOK /\ [Next]_vars => TypeOK'
<1> SUFFICES ASSUME FilesType, RestType, [Next]_vars
             PROVE  FilesType' /\ RestType'
  BY TypeParts DEF TypeOK, ConfigTypeOK, FilesType, RestType, Process, ScriptPlaces
<1>1. CASE UNCHANGED vars
  BY <1>1 DEF FilesType, RestType, ServiceTypeOK, vars, configVars, serviceVars, upgradeVars
<1> QED
  BY <1>1, MachineType, UpgradeType, ScriptType DEF Next

LEMMA InitType == Init => TypeOK
<1> SUFFICES ASSUME Init
             PROVE  FilesType /\ RestType
  BY TypeParts
<1>1. FilesType
  BY OffIsAProcess DEF Init, ServiceInit, ConfigInit, FilesType, Contents
<1>2. RestType
  BY DEF Init, ServiceInit, RestType, ServiceTypeOK, Programs, Unused, ScriptPlaces
<1> QED
  BY <1>1, <1>2

(* The files, the processes, the service, the caches and the scripts always  *)
(* have their types, on any machine and with any number of scripts.          *)
THEOREM TypeCorrect == Spec => []TypeOK
BY InitType, TypeStep, PTL DEF Spec
-----------------------------------------------------------------------------
(* Torn files *)

(* What damages a file: a process that dies where it writes. *)
LEMMA DeathsDamage ==
  ASSUME FilesType, NEW p \in Procs, NEW f \in Paths, Writing(p, f)
  PROVE  f \in DamagedBy(p)
BY DEF DamagedBy, Writing

(* Files stay, and what is or was written is still being written or damaged. *)
LEMMA TornStays ==
  ASSUME FilesType, TornHasACause, UNCHANGED file, damaged \subseteq damaged',
         \A p \in Procs, f \in Paths : Writing(p, f) => f \in damaged' \/ Writing(p, f)'
  PROVE  TornHasACause'
BY DEF TornHasACause

(* A process at a place where it writes nothing goes to any other place. *)
LEMMA TornMoves ==
  ASSUME FilesType, TornHasACause, NEW p \in Procs, UNCHANGED <<file, damaged>>,
         proc[p].at \notin {"creating", "saving", "copying"},
         \A q \in Procs \ {p} : proc'[q] = proc[q]
  PROVE  TornHasACause'
BY TornStays DEF Writing, Target, At

(* A process dies. *)
LEMMA TornDies ==
  ASSUME FilesType, TornHasACause, NEW p \in Procs, UNCHANGED file, damaged' = DamagedBy(p),
         \A q \in Procs \ {p} : proc'[q] = proc[q]
  PROVE  TornHasACause'
<1>1. damaged \subseteq damaged'
  BY DEF DamagedBy
<1> QED
  BY <1>1, DeathsDamage, TornStays DEF Writing, Target, At

LEMMA TornOpen ==
  ASSUME FilesType, TornHasACause, NEW p \in Procs, NEW path \in Paths, NEW image,
         Open(p, path, image), proc[p].at \in {"off", "starting"}
  PROVE  TornHasACause'
<1>1. CASE file[path] = "absent"
  <2>1. proc'[p].at = "creating" /\ proc'[p].path = path
    BY <1>1 DEF Open, Off, FilesType
  <2>2. /\ file' = [file EXCEPT ![path] = "torn"] /\ damaged' = damaged \ {path}
        /\ \A q \in Procs \ {p} : proc'[q] = proc[q]
    BY <1>1 DEF Open, FilesType
  <2>3. Writing(p, path)'
    BY <2>1 DEF Writing, Target, At
  <2>4. \A q \in Procs, f \in Paths : Writing(q, f) => Writing(q, f)'
    BY <2>2 DEF Writing, Target, At
  <2> QED
    BY <2>2, <2>3, <2>4 DEF TornHasACause, FilesType
<1>2. CASE file[path] # "absent"
  BY <1>2, TornMoves DEF Open, FilesType
<1> QED
  BY <1>1, <1>2

LEMMA TornSave ==
  ASSUME FilesType, TornHasACause, NEW p \in Procs, NEW token, Save(p, token)
  PROVE  TornHasACause'
<1>1. proc'[p].at = "saving" /\ proc'[p].path = proc[p].path /\ proc[p].path \in Paths
  BY DEF Save, FilesType, Process
<1>2. Writing(p, proc[p].path)'
  BY <1>1 DEF Writing, Target, At
<1>3. \A q \in Procs, f \in Paths : Writing(q, f) => Writing(q, f)'
  BY DEF Save, Writing, Target, At, FilesType
<1> QED
  BY <1>1, <1>2, <1>3 DEF TornHasACause, FilesType, Save

LEMMA TornPut ==
  ASSUME FilesType, TornHasACause, NEW p \in Procs, NEW content, NEW next,
         Put(p, content, next), Writing(p, Target(p))
  PROVE  TornHasACause'
<1>1. Target(p) \in Paths
  BY DEF FilesType, Target, Process, Paths
<1>2. PICK result :
        /\ file' = [file EXCEPT ![Target(p)] = result]
        /\ damaged' = IF result = "torn" \/ \E q \in Procs \ {p} : Writing(q, Target(p))
                      THEN damaged \cup {Target(p)} ELSE damaged \ {Target(p)}
  BY DEF Put
<1>3. \A q \in Procs \ {p} : proc'[q] = proc[q]
  BY DEF Put, FilesType
<1>4. \A q \in Procs \ {p}, f \in Paths : Writing(q, f) => Writing(q, f)'
  BY <1>3 DEF Writing, Target, At
<1>5. \A f \in Paths \ {Target(p)} : ~Writing(p, f)
  BY DEF Writing
<1>6. file'[Target(p)] = "torn" => Target(p) \in damaged'
  BY <1>1, <1>2 DEF FilesType
<1>7. ASSUME NEW f \in Paths \ {Target(p)}, file'[f] = "torn"
      PROVE  f \in damaged' \/ \E q \in Procs : Writing(q, f)'
  BY <1>2, <1>4, <1>5, <1>7 DEF TornHasACause, FilesType
<1> QED
  BY <1>6, <1>7 DEF TornHasACause

LEMMA TornAdministration ==
  ASSUME FilesType, TornHasACause, Administration
  PROVE  TornHasACause'
<1>0. "admin" \in Procs /\ "service" \in Procs
  BY DEF Procs
<1>1. ASSUME NEW conf, Install(conf) \/ Start(conf) \/ Refused(conf)
      PROVE  TornHasACause'
  BY <1>0, <1>1, TornMoves DEF Install, Start, Refused, Accepted, AdminDone, At, FilesType
<1>2. ASSUME NEW conf, Stop(conf) \/ Uninstall(conf)
      PROVE  TornHasACause'
  <2>1. PICK next : StopService(next)
    BY <1>2 DEF Stop, Uninstall
  <2>0. At("admin", "idle") /\ UNCHANGED file
    BY <1>2 DEF Stop, Uninstall, Accepted
  <2>2. CASE os = "windows"
    BY <1>0, <2>0, <2>1, <2>2, TornMoves DEF StopService, At, FilesType
  <2>3. CASE os # "windows"
    <3>1. /\ \A q \in Procs \ {"admin", "service"} : proc'[q] = proc[q]
          /\ damaged' = DamagedBy("service") /\ damaged \subseteq damaged'
      BY <2>1, <2>3 DEF StopService, DamagedBy, FilesType
    <3>2. \A f \in Paths : ~Writing("admin", f)
      BY <2>0 DEF Writing, At
    <3> QED
      BY <1>0, <2>0, <3>1, <3>2, DeathsDamage, TornStays DEF Writing, Target, At
  <2> QED
    BY <2>2, <2>3
<1>3. CASE CopyConfig
  <2>1. CASE proc["admin"].path = "system"
    BY <1>0, <1>3, <2>1, TornMoves DEF CopyConfig, At, FilesType
  <2>2. CASE proc["admin"].path # "system"
    <3>1. /\ file' = [file EXCEPT !["system"] = "torn"] /\ damaged' = damaged \ {"system"}
          /\ proc' = [proc EXCEPT !["admin"].at = "copying"] /\ At("admin", "installing")
      BY <1>3, <2>2 DEF CopyConfig
    <3>2. Writing("admin", "system")'
      BY <1>0, <3>1 DEF Writing, Target, At, FilesType, Process
    <3>3. \A q \in Procs, f \in Paths : Writing(q, f) => Writing(q, f)'
      BY <1>0, <3>1 DEF Writing, Target, At, FilesType, Process
    <3> QED
      BY <1>0, <3>1, <3>2, <3>3 DEF TornHasACause, FilesType
  <2> QED
    BY <2>1, <2>2
<1>4. CASE CopyEnds
  <2>1. Writing("admin", Target("admin"))
    BY <1>4 DEF CopyEnds, Writing, At
  <2> QED
    BY <1>0, <1>4, <2>1, TornPut DEF CopyEnds
<1>5. CASE Register
  BY <1>0, <1>5, TornMoves DEF Register, At, FilesType
<1>6. CASE Removes \/ Reloads \/ RemovalFails
  BY <1>0, <1>6, TornMoves DEF Removes, Reloads, RemovalFails, AdminDone, At, FilesType
<1> QED
  BY <1>1, <1>2, <1>3, <1>4, <1>5, <1>6 DEF Administration

LEMMA TornWriteOut ==
  ASSUME FilesType, TornHasACause, NEW p \in Procs, WriteOut(p)
  PROVE  TornHasACause'
<1>1. Writing(p, Target(p))
  BY DEF WriteOut, Writing, At
<1> QED
  BY <1>1, TornPut DEF WriteOut

(* No step tears a file but by a death, a meeting of writers or a copy. *)
LEMMA TornStep ==
  ASSUME TypeOK, TornHasACause, [Next]_vars
  PROVE  TornHasACause'
<1>0. /\ FilesType /\ "client" \in Procs /\ "admin" \in Procs /\ "service" \in Procs
      /\ "user" \in Paths /\ "system" \in Paths /\ Programs \subseteq Procs
  BY TypeParts DEF Procs, Paths, Programs
<1>1. CASE UNCHANGED vars
  BY <1>0, <1>1, TornStays DEF vars, configVars, Writing, Target, At
<1>2. CASE MachineStep
  <2>1. CASE StartClient
    BY <1>0, <2>1, TornOpen DEF StartClient, On, At
  <2>2. CASE StartAdmin
    BY <1>0, <2>2, TornOpen DEF StartAdmin, On, At
  <2>3. CASE Saves
    BY <1>0, <2>3, TornSave DEF Saves
  <2>4. CASE Writes \/ ServiceWrites
    BY <1>0, <2>4, TornWriteOut DEF Writes, ServiceWrites
  <2>5. CASE Dies
    BY <1>0, <2>5, TornDies DEF Dies, FilesType
  <2>6. CASE ManagerStarts
    BY <1>0, <2>6, TornMoves DEF ManagerStarts, On, At, FilesType
  <2>7. CASE ServiceStops \/ ServiceEnds
    BY <1>0, <2>7, TornDies DEF ServiceStops, ServiceEnds, EndService, FilesType
  <2>8. CASE ServiceOpens
    BY <1>0, <2>8, TornOpen DEF ServiceOpens, At
  <2> QED
    BY <1>0, <1>2, <2>1, <2>2, <2>3, <2>4, <2>5, <2>6, <2>7, <2>8, TornAdministration
       DEF MachineStep, ServiceStep
<1>3. CASE UpgradeStep
  <2>1. ASSUME NEW p \in Programs, NEW package, StartScript(p, package),
               proc[p].at \in {"downloading", "unpacking"}
        PROVE  TornHasACause'
    BY <1>0, <2>1, TornDies, TornMoves DEF StartScript, EndService, FilesType
  <2>2. CASE UnpackBrokenOff
    BY <2>1, <2>2 DEF UnpackBrokenOff, At, Programs
  <2>3. ASSUME NEW p \in Programs, PerformUpgrade(p) \/ Downloaded(p) \/ UpgradeFails(p)
        PROVE  TornHasACause'
    BY <1>0, <2>3, TornMoves DEF PerformUpgrade, Downloaded, UpgradeFails, At, FilesType
  <2>4. ASSUME NEW p \in Programs, DownloadedPackage(p) \/ Unpacked(p)
        PROVE  TornHasACause'
    BY <2>1, <2>4 DEF DownloadedPackage, Unpacked, At
  <2> QED
    BY <1>3, <2>2, <2>3, <2>4 DEF UpgradeStep
<1>4. ASSUME NEW i \in Scripts, ScriptStep(i)
      PROVE  TornHasACause'
  <2>1. ASSUME UNCHANGED <<file, proc, damaged>>
        PROVE  TornHasACause'
    BY <1>0, <2>1, TornStays DEF Writing, Target, At
  <2>2. CASE ScriptStops(i)
    BY <1>0, <2>1, <2>2, TornDies DEF ScriptStops, EndService, FilesType
  <2>3. CASE ReplaceAgain(i)
    <3>1. damaged \subseteq damaged'
      BY <1>0, <2>3 DEF ReplaceAgain, DamagedBy
    <3>2. \A p \in Procs, f \in Paths : Writing(p, f) => f \in damaged'
      BY <1>0, <2>3, DeathsDamage DEF ReplaceAgain
    <3> QED
      BY <1>0, <2>3, <3>1, <3>2, TornStays DEF ReplaceAgain
  <2>4. CASE StartsClient(i)
    BY <1>0, <2>1, <2>4, TornOpen DEF StartsClient, configVars, On, At
  <2> QED
    BY <1>4, <2>1, <2>2, <2>3, <2>4 DEF ScriptStep, Installs, Moves, Copies, HasCopied, CopyFails,
       GivesUp, StartsService, configVars
<1> QED
  BY <1>1, <1>2, <1>3, <1>4 DEF Next

(* A configuration is torn only while it is written, or because its last     *)
(* writer died, met another writer or copied a torn file.                    *)
THEOREM TornFilesHaveACause == Spec => []TornHasACause
<1>1. Init => TornHasACause
  BY DEF Init, ServiceInit, ConfigInit, TornHasACause
<1>2. TypeOK /\ TornHasACause /\ [Next]_vars => TornHasACause'
  BY TornStep
<1> QED
  BY <1>1, <1>2, TypeCorrect, PTL DEF Spec
-----------------------------------------------------------------------------
(* The service and its configuration *)

(* No step makes a file vanish. *)
LEMMA FilesRemain ==
  ASSUME TypeOK, InstallHasAFile, [Next]_vars, NEW f \in Paths, file[f] # "absent"
  PROVE  file'[f] # "absent"
<1>0. FilesType /\ "admin" \in Procs /\ proc["admin"].path \in Paths
  BY TypeParts DEF Procs, FilesType, Process
<1>1. ASSUME NEW p, NEW content, NEW next, Put(p, content, next), content # "absent"
      PROVE  file'[f] # "absent"
  BY <1>0, <1>1 DEF Put, FilesType
<1>2. ASSUME NEW p, WriteOut(p)
      PROVE  file'[f] # "absent"
  BY <1>1, <1>2 DEF WriteOut, Whole
<1>3. ASSUME NEW p, NEW path, NEW image, Open(p, path, image)
      PROVE  file'[f] # "absent"
  BY <1>0, <1>3 DEF Open, FilesType
<1>4. ASSUME NEW p, NEW token, Save(p, token)
      PROVE  file'[f] # "absent"
  BY <1>0, <1>4 DEF Save, FilesType
<1>5. CASE CopyEnds
  BY <1>0, <1>1, <1>5 DEF CopyEnds, InstallHasAFile, At
<1>6. CASE CopyConfig
  BY <1>0, <1>6 DEF CopyConfig, FilesType
<1>7. CASE MachineStep
  <2>1. CASE Administration
    BY <1>5, <1>6, <2>1 DEF Administration, Install, Start, Stop, Uninstall, Refused, Register,
       Removes, Reloads, RemovalFails
  <2>2. CASE ServiceStep
    BY <1>2, <1>3, <2>2 DEF ServiceStep, ManagerStarts, ServiceStops, ServiceEnds, ServiceOpens,
                            ServiceWrites
  <2> QED
    BY <1>2, <1>3, <1>4, <1>7, <2>1, <2>2 DEF MachineStep, StartClient, StartAdmin, Saves, Writes,
                                             Dies
<1>8. CASE UpgradeStep
  BY <1>8 DEF UpgradeStep, UnpackBrokenOff, PerformUpgrade, Downloaded, DownloadedPackage, Unpacked,
              UpgradeFails, StartScript
<1>9. ASSUME NEW i \in Scripts, ScriptStep(i)
      PROVE  file'[f] # "absent"
  BY <1>3, <1>9 DEF ScriptStep, ScriptStops, Installs, Moves, Copies, HasCopied, CopyFails,
     ReplaceAgain, GivesUp, StartsService, StartsClient, configVars
<1> QED
  BY <1>7, <1>8, <1>9 DEF Next, vars, configVars

LEMMA InstallStep ==
  ASSUME TypeOK, InstallHasAFile, [Next]_vars
  PROVE  InstallHasAFile'
<1> DEFINE Busy == {"installing", "copying", "registering"}
<1>0. FilesType /\ "admin" \in Procs /\ "system" \in Paths /\ proc["admin"].path \in Paths
      /\ Programs \subseteq Procs \ {"admin"} /\ proc["admin"] \in Process
  BY TypeParts DEF Procs, Paths, Programs, FilesType, Process
<1>1. \A f \in Paths : file[f] # "absent" => file'[f] # "absent"
  BY FilesRemain
<1>2. ASSUME proc'["admin"] = proc["admin"], UNCHANGED machine
      PROVE  InstallHasAFile'
  BY <1>0, <1>1, <1>2 DEF InstallHasAFile, At, os
<1>3. ASSUME proc'["admin"].at \notin Busy
      PROVE  InstallHasAFile'
  BY <1>3 DEF InstallHasAFile, At
<1>4. ASSUME NEW conf \in Paths, Install(conf)
      PROVE  InstallHasAFile'
  <2>1. /\ proc'["admin"].path = ActualConfig(conf) /\ ActualConfig(conf) \in Paths
        /\ os # "windows" => proc'["admin"].at # "registering"
        /\ file[ActualConfig(conf)] = "auth" /\ machine' = machine /\ file' = file
    BY <1>0, <1>4 DEF Install, Accepted, ActualConfig, Paths, FilesType, Process, serviceVars
  <2> QED
    BY <2>1 DEF InstallHasAFile, At, os
<1>5. CASE CopyConfig
  <2>0. machine' = machine /\ At("admin", "installing")
    BY <1>5 DEF CopyConfig, serviceVars
  <2>1. CASE os # "windows"
    <3>1. /\ proc'["admin"].path = proc["admin"].path
          /\ proc["admin"].path # "system" => proc'["admin"].at = "copying"
      BY <1>0, <1>5, <2>1 DEF CopyConfig, AfterCopy, FilesType, Process
    <3>2. file[proc["admin"].path] # "absent"
      BY <2>0 DEF InstallHasAFile, At
    <3>3. file'[proc'["admin"].path] # "absent"
      BY <1>0, <1>1, <3>1, <3>2
    <3>4. At("admin", "registering")' => file'["system"] # "absent"
      BY <3>1, <3>3 DEF At
    <3> QED
      BY <3>3, <3>4 DEF InstallHasAFile
  <2>2. CASE os = "windows"
    <3>1. proc'["admin"].at \notin Busy
          \/ (proc'["admin"].at = "copying" /\ proc'["admin"].path = proc["admin"].path)
      BY <1>0, <1>5, <2>2 DEF CopyConfig, AfterCopy, Off, FilesType, Process
    <3> QED
      BY <1>0, <1>1, <1>3, <2>0, <3>1 DEF InstallHasAFile, At, os
  <2> QED
    BY <2>1, <2>2
<1>6. CASE CopyEnds
  <2>0. machine' = machine /\ At("admin", "copying") /\ proc'["admin"] = AfterCopy
    BY <1>0, <1>6 DEF CopyEnds, Put, serviceVars, FilesType
  <2>1. CASE os # "windows"
    <3>1. proc'["admin"].path = proc["admin"].path
      BY <1>0, <2>0, <2>1 DEF AfterCopy, Process
    <3>2. file'["system"] # "absent"
      BY <1>0, <1>6, <2>0 DEF CopyEnds, Put, Target, At, InstallHasAFile, FilesType
    <3> QED
      BY <1>0, <1>1, <2>0, <3>1, <3>2 DEF InstallHasAFile, At
  <2>2. CASE os = "windows"
    BY <1>3, <2>0, <2>2 DEF AfterCopy, Off
  <2> QED
    BY <2>1, <2>2
<1>7. CASE Register
  <2>1. CASE os # "windows"
    BY <1>0, <1>3, <1>7, <2>1 DEF Register, Off, FilesType
  <2>2. CASE os = "windows"
    <3>1. /\ proc'["admin"].at = "installing" /\ proc'["admin"].path = proc["admin"].path
          /\ At("admin", "registering")
      BY <1>0, <1>7, <2>2 DEF Register, FilesType, Process
    <3> QED
      BY <1>0, <1>1, <3>1 DEF InstallHasAFile, At
  <2> QED
    BY <2>1, <2>2
<1>8. CASE Administration
  <2>1. ASSUME NEW conf, Start(conf) \/ Refused(conf) \/ Stop(conf)
        PROVE  proc'["admin"].at = "off"
    BY <1>0, <2>1 DEF Start, Refused, Stop, StopService, AdminDone, Off, FilesType
  <2>2. ASSUME NEW conf, Uninstall(conf)
        PROVE  proc'["admin"].at \notin Busy
    BY <1>0, <2>2 DEF Uninstall, StopService, Removing, Off, FilesType, Process
  <2>3. ASSUME Removes \/ Reloads \/ RemovalFails
        PROVE  proc'["admin"].at \notin Busy
    BY <1>0, <2>3 DEF Removes, Reloads, RemovalFails, AdminDone, Off, FilesType, Process
  <2> QED
    BY <1>3, <1>4, <1>5, <1>6, <1>7, <1>8, <2>1, <2>2, <2>3 DEF Administration
<1>9. CASE MachineStep
  <2>1. CASE StartClient \/ ServiceStep
    BY <1>0, <1>2, <2>1 DEF StartClient, ServiceStep, ManagerStarts, ServiceStops, ServiceEnds,
       EndService, ServiceOpens, ServiceWrites, WriteOut, Put, Open, serviceVars, FilesType, Programs
  <2>2. CASE StartAdmin
    BY <1>0, <1>3, <2>2 DEF StartAdmin, Open, Off, FilesType
  <2>3. CASE Saves
    <3>1. PICK p \in Procs, token \in BOOLEAN : Save(p, token)
      BY <2>3 DEF Saves
    <3>2. proc'["admin"] = proc["admin"] \/ proc'["admin"].at = "saving"
      BY <1>0, <3>1 DEF Save, FilesType, Process
    <3> QED
      BY <1>2, <1>3, <2>3, <3>2 DEF Saves, serviceVars
  <2>4. CASE Writes
    <3>1. proc'["admin"] = proc["admin"] \/ proc'["admin"].at \in {"idle", "off"}
      BY <1>0, <2>4 DEF Writes, WriteOut, Put, Off, FilesType, Process
    <3> QED
      BY <1>2, <1>3, <2>4, <3>1 DEF Writes, serviceVars
  <2>5. CASE Dies
    BY <1>0, <1>2, <1>3, <2>5 DEF Dies, Off, serviceVars, FilesType
  <2> QED
    BY <1>8, <1>9, <2>1, <2>2, <2>3, <2>4, <2>5 DEF MachineStep
<1>10. CASE UpgradeStep
  <2>1. ASSUME NEW p \in Programs, NEW package, StartScript(p, package)
        PROVE  InstallHasAFile'
    BY <1>0, <1>2, <2>1 DEF StartScript, EndService, FilesType
  <2> QED
    BY <1>0, <1>2, <1>10, <2>1 DEF UpgradeStep, UnpackBrokenOff, PerformUpgrade, Downloaded,
       DownloadedPackage, Unpacked, UpgradeFails, FilesType, serviceVars, Programs
<1>11. ASSUME NEW i \in Scripts, ScriptStep(i)
       PROVE  InstallHasAFile'
  <2>1. CASE ReplaceAgain(i)
    BY <1>0, <1>3, <2>1 DEF ReplaceAgain, Off
  <2>2. CASE ~ReplaceAgain(i)
    BY <1>0, <1>2, <1>11, <2>2 DEF ScriptStep, ScriptStops, EndService, Installs, Moves, Copies,
       HasCopied, CopyFails, GivesUp, StartsService, StartsClient, Open, FilesType, serviceVars, configVars, Programs
  <2> QED
    BY <2>1, <2>2
<1> QED
  BY <1>2, <1>9, <1>10, <1>11 DEF Next, vars, configVars, serviceVars

(* Only an uninstall gets the administrator where a removal goes on. *)
LEMMA RemovalBegins ==
  ASSUME TypeOK, [Next]_vars, proc'["admin"].at \in Gap, ~\E conf \in Paths : Uninstall(conf)
  PROVE  proc["admin"].at \in Gap
<1>0. FilesType /\ "admin" \in Procs /\ "service" \in Procs /\ "client" \in Procs
      /\ Programs \subseteq Procs \ {"admin"} /\ proc["admin"] \in Process
  BY TypeParts DEF Procs, Programs, FilesType
<1> SUFFICES ASSUME proc'["admin"] # proc["admin"], proc["admin"].at \notin Gap
             PROVE  FALSE
  OBVIOUS
<1>1. proc'["admin"] # Off
  BY DEF Off, Gap
<1>2. ASSUME NEW p \in Procs, NEW path, NEW image, Open(p, path, image)
      PROVE  proc'["admin"] = proc["admin"] \/ proc'["admin"].at \in {"off", "creating", "idle"}
  BY <1>0, <1>2 DEF Open, Off, FilesType
<1>3. ASSUME NEW p \in Procs, WriteOut(p)
      PROVE  proc'["admin"] = proc["admin"] \/ proc'["admin"].at \in {"off", "idle"}
  BY <1>0, <1>3 DEF WriteOut, Put, Off, FilesType, Process
<1>4. CASE Administration
  <2>1. \/ CopyConfig \/ CopyEnds \/ Register \/ Removes
        \/ \E conf \in Paths : Install(conf)
    <3>1. proc["admin"].path \in Paths
      BY <1>0 DEF Process
    <3> QED
      BY <1>0, <1>1, <1>4, <3>1 DEF Administration, Start, Stop, StopService, Refused, Reloads,
         RemovalFails, AdminDone, FilesType
  <2>2. proc'["admin"].at \in {"off", "installing", "copying", "registering"} \/ Removes
    BY <1>0, <2>1 DEF CopyConfig, CopyEnds, Register, Install, Put, AfterCopy, Off, FilesType,
       Process
  <2>3. ~Removes
    BY DEF Removes, At, Gap
  <2> QED
    BY <2>2, <2>3 DEF Gap
<1>5. CASE MachineStep
  <2>1. CASE StartClient \/ StartAdmin
    BY <1>0, <1>2, <2>1 DEF StartClient, StartAdmin, Gap
  <2>2. CASE Saves
    BY <1>0, <2>2 DEF Saves, Save, Gap, FilesType, Process
  <2>3. CASE Writes
    BY <1>0, <1>3, <2>3 DEF Writes, Gap
  <2>4. CASE Dies
    BY <1>0, <1>1, <2>4 DEF Dies, FilesType
  <2>5. CASE ServiceStep
    <3>1. CASE ManagerStarts \/ ServiceStops \/ ServiceEnds
      BY <1>0, <3>1 DEF ManagerStarts, ServiceStops, ServiceEnds, EndService, FilesType
    <3>2. CASE ServiceOpens \/ ServiceWrites
      BY <1>0, <1>2, <1>3, <3>2 DEF ServiceOpens, ServiceWrites, Gap
    <3> QED
      BY <2>5, <3>1, <3>2 DEF ServiceStep
  <2> QED
    BY <1>4, <1>5, <2>1, <2>2, <2>3, <2>4, <2>5 DEF MachineStep
<1>6. CASE UpgradeStep
  <2>1. ASSUME NEW p \in Programs, NEW package, StartScript(p, package)
        PROVE  proc'["admin"] = proc["admin"]
    BY <1>0, <2>1 DEF StartScript, EndService, FilesType
  <2> QED
    BY <1>0, <1>6, <2>1 DEF UpgradeStep, UnpackBrokenOff, PerformUpgrade, Downloaded,
       DownloadedPackage, Unpacked, UpgradeFails, FilesType, Programs
<1>7. ASSUME NEW i \in Scripts, ScriptStep(i)
      PROVE  FALSE
  <2>1. CASE StartsClient(i)
    BY <1>0, <1>2, <2>1 DEF StartsClient, configVars, Gap
  <2>2. CASE ScriptStops(i) \/ ReplaceAgain(i)
    BY <1>0, <1>1, <2>2 DEF ScriptStops, EndService, ReplaceAgain, FilesType
  <2> QED
    BY <1>7, <2>1, <2>2 DEF ScriptStep, Installs, Moves, Copies, HasCopied, CopyFails, GivesUp,
       StartsService, configVars
<1> QED
  BY <1>5, <1>6, <1>7 DEF Next, vars, configVars

(* The service runs only as long as it is known, and only with a file. *)
LEMMA UnitStep ==
  ASSUME TypeOK, InstallHasAFile, RemovalStops, UnitTellsTheService, [Next]_vars
  PROVE  RemovalStops' /\ UnitTellsTheService'
<1>0. /\ FilesType /\ RestType /\ "admin" \in Procs /\ "service" \in Procs
      /\ Programs \subseteq Procs /\ "system" \in Paths
  BY TypeParts DEF Procs, Programs, Paths
<1>1. file["system"] # "absent" => file'["system"] # "absent"
  BY <1>0, FilesRemain
<1>b. proc'["admin"].at \in Gap => proc["admin"].at \in Gap \/ \E conf \in Paths : Uninstall(conf)
  BY RemovalBegins
<1>2. ASSUME UNCHANGED <<machine, unit, slipped>>, On("service")' => On("service"),
             ~\E conf \in Paths : Uninstall(conf)
      PROVE  RemovalStops' /\ UnitTellsTheService'
  BY <1>1, <1>b, <1>2 DEF RemovalStops, UnitTellsTheService, os
<1>3. ASSUME UNCHANGED <<machine, unit, slipped>>, proc'["service"].at = proc["service"].at,
             ~\E conf \in Paths : Uninstall(conf)
      PROVE  RemovalStops' /\ UnitTellsTheService'
  BY <1>2, <1>3 DEF On, At
<1>4. ASSUME UNCHANGED <<machine, unit, slipped>>, ~At("service", "off"),
             ~\E conf \in Paths : Uninstall(conf)
      PROVE  RemovalStops' /\ UnitTellsTheService'
  BY <1>2, <1>4 DEF On
<1>c. ASSUME NEW conf \in Paths, Uninstall(conf)
      PROVE  RemovalStops' /\ UnitTellsTheService'
  <2>1. CASE os = "windows"
    BY <1>c, <2>1 DEF Uninstall, UnitTellsTheService, RemovalStops, os
  <2>2. CASE os # "windows"
    <3>1. PICK next \in {Off, Removing} :
            /\ proc' = [proc EXCEPT !["admin"] = next, !["service"] = Off]
            /\ os = "macos" => next = Off
      BY <1>c, <2>2 DEF Uninstall, StopService
    <3>2. machine' = machine /\ (unit' => unit)
      BY <1>c DEF Uninstall
    <3>3. ~On("service")'
      BY <1>0, <3>1, OffIsAProcess DEF On, At, FilesType
    <3>4. os = "macos" => proc'["admin"].at \notin Gap
      BY <1>0, <3>1, OffIsAProcess DEF Gap, FilesType
    <3>5. os \in {"linux", "macos", "windows"}
      BY <1>0, MachinesAssumption DEF RestType, os
    <3> QED
      BY <1>1, <2>2, <3>2, <3>3, <3>4, <3>5 DEF UnitTellsTheService, RemovalStops, os
  <2> QED
    BY <2>1, <2>2
<1>5. ASSUME Administration, ~\E conf \in Paths : Uninstall(conf)
      PROVE  RemovalStops' /\ UnitTellsTheService'
  <2>1. CASE CopyConfig \/ CopyEnds \/ \E conf \in Paths : Install(conf) \/ Start(conf) \/ Refused(conf)
    BY <1>0, <1>3, <1>5, <2>1 DEF CopyConfig, CopyEnds, Put, Install, Start, Refused, AdminDone,
                            FilesType, serviceVars
  <2>2. ASSUME NEW conf, Stop(conf)
        PROVE  RemovalStops' /\ UnitTellsTheService'
    <3>1. UNCHANGED <<machine, unit, slipped>> /\ On("service")' => On("service")
      BY <1>0, <2>2, OffIsAProcess DEF Stop, StopService, On, At, FilesType
    <3> QED
      BY <1>2, <1>5, <2>2, <3>1 DEF Stop
  <2>3. CASE Register
    <3>1. machine' = machine /\ unit' /\ At("admin", "registering") /\ proc'["admin"].at \notin Gap
      BY <1>0, <2>3 DEF Register, Off, Gap, FilesType, Process
    <3> QED
      BY <1>1, <3>1 DEF UnitTellsTheService, RemovalStops, InstallHasAFile, os
  <2>4. CASE Removes \/ Reloads
    <3>1. /\ UNCHANGED <<machine, slipped>> /\ (unit' => unit) /\ proc["admin"].at \in Gap
          /\ proc'["service"] = proc["service"]
      BY <1>0, <2>4 DEF Removes, Reloads, AdminDone, At, Gap, FilesType
    <3> QED
      BY <1>1, <3>1 DEF RemovalStops, UnitTellsTheService, os, On, At
  <2>5. CASE RemovalFails
    BY <1>0, <1>3, <1>5, <2>5 DEF RemovalFails, AdminDone, FilesType, serviceVars
  <2> QED
    BY <1>5, <2>1, <2>2, <2>3, <2>4, <2>5, <1>0 DEF Administration, FilesType, Process, Paths
<1>6. ASSUME MachineStep, ~\E conf \in Paths : Uninstall(conf)
      PROVE  RemovalStops' /\ UnitTellsTheService'
  <2>1. CASE StartClient \/ StartAdmin \/ Writes \/ Dies
    BY <1>0, <1>3, <1>6, <2>1 DEF StartClient, StartAdmin, Writes, WriteOut, Put, Open, Dies,
                            FilesType, serviceVars
  <2>2. CASE Saves
    <3>1. PICK p \in Procs, token \in BOOLEAN : Save(p, token) /\ UNCHANGED serviceVars
      BY <2>2 DEF Saves
    <3>2. proc'["service"].at = proc["service"].at \/ ~At("service", "off")
      BY <1>0, <3>1 DEF Save, At, FilesType
    <3> QED
      BY <1>3, <1>4, <1>6, <3>1, <3>2 DEF serviceVars
  <2>3. CASE ManagerStarts
    <3>1. /\ UNCHANGED <<machine, unit, file>> /\ unit /\ slipped' = (proc["admin"].at \in Gap)
          /\ proc'["admin"] = proc["admin"]
      BY <1>0, <2>3 DEF ManagerStarts, Gap, FilesType
    <3> QED
      BY <3>1 DEF UnitTellsTheService, RemovalStops, os
  <2>4. CASE ServiceStops \/ ServiceEnds \/ ServiceOpens \/ ServiceWrites
    BY <1>4, <1>6, <2>4 DEF ServiceStops, ServiceEnds, EndService, ServiceOpens, ServiceWrites,
                            WriteOut, On, At, serviceVars
  <2> QED
    BY <1>5, <1>6, <2>1, <2>2, <2>3, <2>4 DEF MachineStep, ServiceStep
<1>7. ASSUME NEW p \in Programs, proc[p].at # "off", UNCHANGED <<machine, unit, slipped>>,
             \A q \in Procs \ {p} : proc'[q] = proc[q], ~\E conf \in Paths : Uninstall(conf)
      PROVE  RemovalStops' /\ UnitTellsTheService'
  BY <1>0, <1>3, <1>4, <1>7 DEF At
<1>8. ASSUME UpgradeStep, ~\E conf \in Paths : Uninstall(conf)
      PROVE  RemovalStops' /\ UnitTellsTheService'
  <2>1. ASSUME NEW p \in Programs, NEW package, StartScript(p, package), proc[p].at # "off"
        PROVE  RemovalStops' /\ UnitTellsTheService'
    BY <1>0, <1>7, <1>8, <2>1 DEF StartScript, EndService, FilesType
  <2> QED
    BY <1>0, <1>7, <1>8, <2>1 DEF UpgradeStep, UnpackBrokenOff, PerformUpgrade, Downloaded, At,
       DownloadedPackage, Unpacked, UpgradeFails, FilesType, serviceVars, Programs
<1>9. ASSUME NEW i \in Scripts, ScriptStep(i), ~\E conf \in Paths : Uninstall(conf)
      PROVE  RemovalStops' /\ UnitTellsTheService'
  <2>1. CASE ScriptStops(i) \/ ReplaceAgain(i)
    <3>1. UNCHANGED <<machine, unit, slipped>>
          /\ (proc'["service"] = proc["service"] \/ proc'["service"] = Off)
      BY <1>0, <2>1 DEF ScriptStops, EndService, ReplaceAgain, FilesType
    <3> QED
      BY <1>2, <1>9, <3>1, OffIsAProcess DEF On, At
  <2>2. CASE Installs(i) \/ Moves(i) \/ Copies(i) \/ HasCopied(i) \/ CopyFails(i) \/ GivesUp(i)
             \/ StartsService(i) \/ StartsClient(i)
    BY <1>0, <1>3, <1>9, <2>2 DEF Installs, Moves, Copies, HasCopied, CopyFails, GivesUp,
       StartsService, StartsClient, Open, FilesType, serviceVars, configVars
  <2> QED
    BY <1>9, <2>1, <2>2 DEF ScriptStep
<1>10. ASSUME UNCHANGED vars
       PROVE  RemovalStops' /\ UnitTellsTheService'
  BY <1>10 DEF RemovalStops, UnitTellsTheService, On, At, os, vars, configVars, serviceVars
<1> QED
  BY <1>c, <1>6, <1>8, <1>9, <1>10 DEF Next

(* On Unix a service is known only where its configuration is, and a process *)
(* that the manager no longer knows was started while the unit of systemd    *)
(* was being removed, whatever is about to start it again.                   *)
THEOREM ServiceFollowsItsUnit == Spec => []UnitTellsTheService
<1>1. Init => InstallHasAFile /\ RemovalStops /\ UnitTellsTheService
  BY DEF Init, ServiceInit, ConfigInit, InstallHasAFile, RemovalStops, UnitTellsTheService, On, At,
         Off, Gap, Procs
<1>2. TypeOK /\ InstallHasAFile /\ RemovalStops /\ UnitTellsTheService /\ [Next]_vars
        => InstallHasAFile' /\ RemovalStops' /\ UnitTellsTheService'
  BY InstallStep, UnitStep
<1> QED
  BY <1>1, <1>2, TypeCorrect, PTL DEF Spec
-----------------------------------------------------------------------------
(* The program *)

Upgrading == {"downloading", "unpacking"}

(* Outside an upgrade no process gets into one, and nothing of it changes. *)
LEMMA MachineFrame ==
  ASSUME FilesType, MachineStep
  PROVE  /\ UNCHANGED <<updates, script, cause, exe, machine>>
         /\ \A p \in Programs : proc'[p].at \in Upgrading => proc[p].at \in Upgrading
<1>0. "admin" \in Procs /\ "service" \in Procs /\ Programs \subseteq Procs \ {"admin"}
  BY DEF Procs, Programs
<1>1. UNCHANGED <<updates, script, cause>>
  BY DEF MachineStep, upgradeVars
<1>2. ASSUME NEW p \in Procs, proc'[p].at \notin Upgrading,
             \A q \in Procs \ {p} : proc'[q] = proc[q]
      PROVE  \A q \in Programs : proc'[q].at \in Upgrading => proc[q].at \in Upgrading
  BY <1>0, <1>2
<1>3. ASSUME NEW p \in Procs, NEW path, NEW image, Open(p, path, image)
      PROVE  \A q \in Programs : proc'[q].at \in Upgrading => proc[q].at \in Upgrading
  <2>1. proc'[p].at \in {"off", "creating", "idle"} /\ \A q \in Procs \ {p} : proc'[q] = proc[q]
    BY <1>3 DEF Open, Off, FilesType
  <2> QED
    BY <1>2, <2>1 DEF Upgrading
<1>4. ASSUME NEW p \in Procs, WriteOut(p)
      PROVE  \A q \in Programs : proc'[q].at \in Upgrading => proc[q].at \in Upgrading
  <2>1. proc'[p].at \in {"off", "idle"} /\ \A q \in Procs \ {p} : proc'[q] = proc[q]
    BY <1>4 DEF WriteOut, Put, Off, FilesType, Process
  <2> QED
    BY <1>2, <2>1 DEF Upgrading
<1>5. ASSUME NEW p \in Procs, proc'[p] = Off, \A q \in Procs \ {p} : proc'[q] = proc[q]
      PROVE  \A q \in Programs : proc'[q].at \in Upgrading => proc[q].at \in Upgrading
  BY <1>2, <1>5, OffIsAProcess DEF Upgrading
<1>6. CASE StartClient \/ StartAdmin \/ Writes
  BY <1>0, <1>1, <1>3, <1>4, <1>6 DEF StartClient, StartAdmin, Writes, serviceVars, Procs
<1>7. CASE Saves
  <2>1. PICK p \in Procs, token \in BOOLEAN : Save(p, token) /\ UNCHANGED <<serviceVars, exe>>
    BY <1>7 DEF Saves
  <2>2. proc'[p].at = "saving" /\ \A q \in Procs \ {p} : proc'[q] = proc[q]
    BY <2>1 DEF Save, FilesType, Process
  <2> QED
    BY <1>1, <1>2, <2>1, <2>2 DEF Upgrading, serviceVars
<1>8. CASE Dies
  <2>1. PICK p \in {"client", "admin"} : proc' = [proc EXCEPT ![p] = Off]
    BY <1>8 DEF Dies
  <2>2. p \in Procs /\ proc'[p] = Off /\ \A q \in Procs \ {p} : proc'[q] = proc[q]
    BY <2>1 DEF Procs, FilesType
  <2> QED
    BY <1>1, <1>5, <1>8, <2>2 DEF Dies, serviceVars
<1>9. CASE Administration
  <2>1. \A q \in Procs \ {"admin"} : proc'[q] = proc[q] \/ proc'[q] = Off
    BY <1>0, <1>9 DEF Administration, Install, Start, Stop, Uninstall, Refused, CopyConfig,
       CopyEnds, Register, Removes, Reloads, RemovalFails, StopService, AdminDone, Put, FilesType
  <2>2. UNCHANGED <<exe, machine>>
    BY <1>9 DEF Administration, Install, Start, Stop, Uninstall, Refused, CopyConfig,
       CopyEnds, Register, Removes, Reloads, RemovalFails, serviceVars
  <2> QED
    BY <1>0, <1>1, <2>1, <2>2, OffIsAProcess DEF Upgrading
<1>10. CASE ServiceStep
  <2>1. CASE ManagerStarts
    <3>1. proc'["service"].at = "starting"
      BY <1>0, <2>1 DEF ManagerStarts, Off, FilesType
    <3> QED
      BY <1>0, <1>1, <1>2, <2>1, <3>1 DEF ManagerStarts, Upgrading, FilesType
  <2>2. CASE ServiceStops \/ ServiceEnds
    BY <1>0, <1>1, <1>5, <2>2 DEF ServiceStops, ServiceEnds, EndService, FilesType
  <2>3. CASE ServiceOpens
    BY <1>0, <1>1, <1>3, <2>3 DEF ServiceOpens
  <2>4. CASE ServiceWrites
    BY <1>0, <1>1, <1>4, <2>4 DEF ServiceWrites, serviceVars
  <2> QED
    BY <1>10, <2>1, <2>2, <2>3, <2>4 DEF ServiceStep
<1> QED
  BY <1>6, <1>7, <1>8, <1>9, <1>10 DEF MachineStep

(* A script that is started. *)
LEMMA Starting ==
  ASSUME TypeOK, NEW p \in Programs, NEW package \in BOOLEAN, StartScript(p, package)
  PROVE  /\ UNCHANGED <<exe, machine>>
         /\ proc'[p].at = "off" /\ \A q \in Programs \ {p} : proc'[q] = proc[q]
         /\ \A i \in Scripts : script'[i] = script[i]
                               \/ /\ script'[i].of = p /\ script'[i].package = package
                                  /\ script'[i].at = "wait"
<1>1. FilesType /\ p \in Procs /\ Programs \subseteq Procs /\ RestType
  BY TypeParts DEF Programs, Procs
<1>2. proc' = [proc EXCEPT ![p] = Off] /\ UNCHANGED <<exe, machine>>
  BY DEF StartScript, EndService
<1>3. PICK i \in Scripts :
        script' = [script EXCEPT ![i] = [of |-> p, package |-> package, at |-> "wait"]]
  BY DEF StartScript
<1> QED
  BY <1>1, <1>2, <1>3, OffIsAProcess DEF FilesType, RestType

(* A step of a script. *)
LEMMA Scripting ==
  ASSUME TypeOK, NEW i \in Scripts, ScriptStep(i)
  PROVE  /\ UNCHANGED machine /\ (cause # {} => cause' # {})
         /\ \A p \in Programs : proc'[p].at \in Upgrading => proc[p].at \in Upgrading
         /\ \A j \in Scripts : /\ script'[j].of = script[j].of
                               /\ script'[j].package = script[j].package
                               /\ Pending(j)' => Pending(j)
                               /\ j # i => script'[j] = script[j]
         /\ \A p \in Programs : updates'[p] \in {updates[p], "empty"}
         /\ ScriptAt(i, "copyingPart")' => InCache(i) /\ updates[script[i].of] = "part" /\ Pending(i)
<1>0. FilesType /\ RestType /\ Programs \subseteq Procs /\ "client" \in Procs /\ "service" \in Procs
  BY TypeParts DEF Programs, Procs
<1>1. UNCHANGED machine /\ (cause # {} => cause' # {})
  BY DEF ScriptStep, ScriptStops, EndService, Installs, Moves, Copies, HasCopied, CopyFails,
         ReplaceAgain, GivesUp, StartsService, StartsClient, serviceVars, upgradeVars
<1>2. \A p \in Programs : updates'[p] \in {updates[p], "empty"}
  BY <1>0 DEF ScriptStep, ScriptStops, Installs, Moves, Copies, HasCopied, CopyFails, ReplaceAgain,
         GivesUp, StartsService, StartsClient, upgradeVars, RestType
<1>3. ASSUME NEW place, ScriptGoes(i, place),
             script[i].at \in {"wait", "kill", "replace", "copying", "copyingPart", "start"}
      PROVE  \A j \in Scripts : /\ script'[j].of = script[j].of
                                /\ script'[j].package = script[j].package
                                /\ Pending(j)' => Pending(j)
                                /\ j # i => script'[j] = script[j]
  BY <1>0, <1>3 DEF ScriptGoes, Pending, RestType
<1>4. \/ UNCHANGED script
      \/ \E place : /\ ScriptGoes(i, place)
                    /\ script[i].at \in {"wait", "kill", "replace", "copying", "copyingPart", "start"}
  BY DEF ScriptStep, ScriptStops, Installs, Moves, Copies, HasCopied, CopyFails, ReplaceAgain,
         GivesUp, StartsService, StartsClient, MayReplace, Copying, ScriptAt, upgradeVars
<1>5. \A p \in Programs : proc'[p] = proc[p] \/ proc'[p].at \notin Upgrading
  <2>1. CASE ScriptStops(i) \/ ReplaceAgain(i)
    BY <1>0, <2>1, OffIsAProcess DEF ScriptStops, EndService, ReplaceAgain, FilesType, Upgrading
  <2>2. CASE StartsClient(i)
    <3>1. UNCHANGED configVars \/ Open("client", "user", exe)
      BY <2>2 DEF StartsClient
    <3>2. ASSUME Open("client", "user", exe)
          PROVE  proc'["client"].at \in {"off", "creating", "idle"}
                 /\ \A q \in Procs \ {"client"} : proc'[q] = proc[q]
      BY <1>0, <3>2 DEF Open, Off, FilesType
    <3> QED
      BY <1>0, <3>1, <3>2 DEF Upgrading, configVars
  <2>3. CASE Installs(i) \/ Moves(i) \/ Copies(i) \/ HasCopied(i) \/ CopyFails(i) \/ GivesUp(i)
             \/ StartsService(i)
    BY <2>3 DEF Installs, Moves, Copies, HasCopied, CopyFails, GivesUp, StartsService, configVars
  <2> QED
    BY <2>1, <2>2, <2>3 DEF ScriptStep
<1>6. ASSUME ScriptAt(i, "copyingPart")'
      PROVE  InCache(i) /\ updates[script[i].of] = "part" /\ Pending(i)
  <2>1. ScriptGoes(i, "copyingPart") \/ ReplaceAgain(i)
    BY <1>0, <1>6 DEF ScriptStep, ScriptStops, Installs, Moves, Copies, HasCopied, CopyFails,
       GivesUp, StartsService, StartsClient, ScriptGoes, ScriptAt, RestType
  <2>2. ~ReplaceAgain(i)
    BY <1>6 DEF ReplaceAgain, upgradeVars, ScriptAt
  <2>3. Copies(i)
    BY <1>0, <1>6, <2>1, <2>2 DEF ScriptStep, ScriptStops, Installs, Moves, Copies, HasCopied,
       CopyFails, GivesUp, StartsService, StartsClient, ScriptGoes, ScriptAt, RestType
  <2>4. InCache(i) /\ updates[script[i].of] # "binary" /\ MayReplace(i)
    BY <1>0, <1>6, <2>3 DEF Copies, ScriptGoes, ScriptAt, RestType
  <2> QED
    BY <2>4 DEF InCache, MayReplace, ScriptAt, Pending
<1> QED
  BY <1>1, <1>2, <1>3, <1>4, <1>5, <1>6 DEF Pending

(* Whose scripts are pending, and whose caches hold half a build. *)
LEMMA HalfBuildStep ==
  ASSUME TypeOK, HalfBuildsHaveACause, [Next]_vars
  PROVE  HalfBuildsHaveACause'
<1>0. FilesType /\ RestType /\ Programs \subseteq Procs /\ \A i \in Scripts : script[i].of \in Programs
  BY TypeParts DEF Programs, Procs, RestType
<1> DEFINE Calm(i) == /\ proc[script[i].of].at \in Upgrading => cause # {}
                      /\ ~script[i].package /\ updates[script[i].of] = "part" => cause # {}
                      /\ ScriptAt(i, "copyingPart") => cause # {}
<1>1. \A i \in Scripts : Pending(i) => Calm(i)
  BY DEF HalfBuildsHaveACause, Upgrading
<1>2. SUFFICES ASSUME NEW i \in Scripts, Pending(i)'
               PROVE  Calm(i)'
  BY DEF HalfBuildsHaveACause, Upgrading
<1>3. ASSUME UNCHANGED script PROVE Pending(i) /\ Calm(i)
  BY <1>1, <1>2, <1>3 DEF Pending
<1>4. ASSUME cause' # {} PROVE Calm(i)'
  BY <1>4
<1>5. ASSUME UNCHANGED <<updates, script, cause>>,
             \A p \in Programs : proc'[p].at \in Upgrading => proc[p].at \in Upgrading
      PROVE  Calm(i)'
  BY <1>0, <1>3, <1>5 DEF ScriptAt
<1>6. CASE MachineStep
  BY <1>0, <1>5, <1>6, MachineFrame
<1>7. ASSUME NEW p \in Programs, PerformUpgrade(p) PROVE Calm(i)'
  <2>1. UNCHANGED script /\ proc' = [proc EXCEPT ![p].at = "downloading"]
        /\ updates' = [updates EXCEPT ![p] = "empty"]
    BY <1>7 DEF PerformUpgrade
  <2>2. CASE script[i].of = p
    BY <1>2, <1>3, <1>4, <1>7, <2>1, <2>2 DEF PerformUpgrade
  <2>3. CASE script[i].of # p
    <3>1. /\ proc'[script[i].of] = proc[script[i].of] /\ updates'[script[i].of] = updates[script[i].of]
          /\ cause' = cause \/ cause' # {}
      BY <1>0, <1>7, <2>1, <2>3 DEF PerformUpgrade, FilesType, RestType
    <3> QED
      BY <1>3, <1>4, <2>1, <3>1 DEF ScriptAt
  <2> QED
    BY <2>2, <2>3
<1>8. ASSUME NEW p \in Programs, Downloaded(p) PROVE Calm(i)'
  <2>1. UNCHANGED <<script, cause>> /\ proc[p].at = "downloading"
        /\ proc' = [proc EXCEPT ![p].at = "unpacking"] /\ updates' = [updates EXCEPT ![p] = "part"]
    BY <1>8 DEF Downloaded, At
  <2>2. CASE script[i].of = p
    BY <1>3, <1>4, <2>1, <2>2 DEF Upgrading
  <2>3. CASE script[i].of # p
    BY <1>0, <1>3, <2>1, <2>3 DEF FilesType, RestType, ScriptAt
  <2> QED
    BY <2>2, <2>3
<1>9. ASSUME NEW p \in Programs, NEW package \in BOOLEAN, StartScript(p, package), UNCHANGED cause,
             NEW content \in {"archive", "binary"}, updates' = [updates EXCEPT ![p] = content]
      PROVE  Calm(i)'
  <2>1. /\ proc'[p].at = "off" /\ \A q \in Programs \ {p} : proc'[q] = proc[q]
        /\ updates'[p] # "part" /\ \A q \in Programs \ {p} : updates'[q] = updates[q]
        /\ script'[i] = script[i] \/ (script'[i].of = p /\ script'[i].at = "wait")
    BY <1>0, <1>9, Starting DEF RestType
  <2>0. ScriptAt(i, "copyingPart")' => cause' # {}
    BY <1>1, <1>2, <1>9, <2>1 DEF Pending, ScriptAt
  <2>2. CASE script'[i].of = p
    BY <2>0, <2>1, <2>2 DEF Upgrading
  <2>3. CASE script'[i].of # p
    <3>1. script'[i] = script[i] /\ Calm(i)
      BY <1>1, <1>2, <2>1, <2>3 DEF Pending
    <3> QED
      BY <1>0, <1>9, <2>0, <2>1, <2>3, <3>1
  <2> QED
    BY <2>2, <2>3
<1>10. CASE UpgradeStep
  <2>1. CASE UnpackBrokenOff
    BY <1>4, <2>1 DEF UnpackBrokenOff
  <2>2. ASSUME NEW p \in Programs, DownloadedPackage(p) \/ Unpacked(p)
        PROVE  Calm(i)'
    BY <1>9, <2>2 DEF DownloadedPackage, Unpacked
  <2>3. ASSUME NEW p \in Programs, UpgradeFails(p)
        PROVE  Calm(i)'
    <3>1. proc' = [proc EXCEPT ![p].at = "idle"] /\ UNCHANGED <<updates, script, cause>>
      BY <2>3 DEF UpgradeFails, upgradeVars
    <3> QED
      BY <1>0, <1>5, <3>1 DEF FilesType, Upgrading
  <2> QED
    BY <1>7, <1>8, <1>10, <2>1, <2>2, <2>3 DEF UpgradeStep
<1>11. ASSUME NEW j \in Scripts, ScriptStep(j) PROVE Calm(i)'
  <2>1. /\ (cause # {} => cause' # {})
        /\ script'[i].of = script[i].of /\ script'[i].package = script[i].package
        /\ Calm(i) /\ updates'[script[i].of] \in {updates[script[i].of], "empty"}
        /\ proc'[script[i].of].at \in Upgrading => proc[script[i].of].at \in Upgrading
        /\ i # j => script'[i] = script[i]
    BY <1>0, <1>1, <1>2, <1>11, Scripting
  <2>2. ScriptAt(i, "copyingPart")' => cause' # {}
    BY <1>11, <2>1, Scripting DEF ScriptAt, InCache
  <2> QED
    BY <2>1, <2>2
<1>12. CASE UNCHANGED vars
  BY <1>5, <1>12 DEF vars, upgradeVars, configVars
<1> QED
  BY <1>6, <1>10, <1>11, <1>12 DEF Next

(* What is put in the program's place. *)
LEMMA ProgramStep ==
  ASSUME TypeOK, HalfBuildsHaveACause, ProgramIsSound, [Next]_vars
  PROVE  ProgramIsSound'
<1>0. FilesType /\ RestType
  BY TypeParts
<1>1. ASSUME UNCHANGED exe, cause # {} => cause' # {}, \A i \in Scripts : Copying(i) => Copying(i)'
      PROVE  ProgramIsSound'
  BY <1>1 DEF ProgramIsSound
<1>2. CASE MachineStep
  BY <1>0, <1>1, <1>2, MachineFrame DEF Copying
<1>3. CASE UpgradeStep
  <2>1. ASSUME NEW p \in Programs, NEW package \in BOOLEAN, StartScript(p, package), NEW i \in Scripts,
               Copying(i)
        PROVE  Copying(i)'
    BY <1>0, <2>1 DEF StartScript, Copying, RestType
  <2>2. UNCHANGED exe /\ (cause # {} => cause' # {})
    BY <1>3 DEF UpgradeStep, UnpackBrokenOff, PerformUpgrade, Downloaded, DownloadedPackage,
       Unpacked, UpgradeFails, StartScript, EndService, serviceVars, upgradeVars
  <2>3. UNCHANGED script \/ \E p \in Programs, package \in BOOLEAN : StartScript(p, package)
    BY <1>3 DEF UpgradeStep, UnpackBrokenOff, PerformUpgrade, Downloaded, DownloadedPackage,
       Unpacked, UpgradeFails, upgradeVars, Programs
  <2> QED
    BY <1>1, <2>1, <2>2, <2>3 DEF Copying
<1>4. ASSUME NEW i \in Scripts, ScriptStep(i) PROVE ProgramIsSound'
  <2>1. /\ cause # {} => cause' # {}
        /\ \A j \in Scripts \ {i} : script'[j] = script[j]
    BY <1>4, Scripting
  <2>2. CASE Installs(i)
    BY <2>2 DEF Installs, ProgramIsSound
  <2>3. CASE Moves(i)
    <3>1. exe' = "broken" => ~script[i].package /\ updates[script[i].of] = "part" /\ Pending(i)
      BY <2>3 DEF Moves, MayReplace, InCache, ScriptAt, Pending, Build
    <3> QED
      BY <2>1, <3>1 DEF HalfBuildsHaveACause, ProgramIsSound
  <2>4. CASE Copies(i)
    <3>1. Copying(i)'
      BY <1>0, <2>4 DEF Copies, Copying, ScriptGoes, RestType
    <3> QED
      BY <3>1 DEF ProgramIsSound
  <2>5. CASE HasCopied(i)
    <3>1. CASE ScriptAt(i, "copyingPart")
      <4>1. cause # {}
        BY <3>1 DEF HalfBuildsHaveACause, ScriptAt, Pending
      <4> QED
        BY <2>1, <4>1 DEF ProgramIsSound
    <3>2. CASE \E j \in Scripts \ {i} : Copying(j)
      BY <2>1, <3>2 DEF ProgramIsSound, Copying
    <3>3. CASE ScriptAt(i, "copying") /\ ~\E j \in Scripts \ {i} : Copying(j)
      BY <2>5, <3>3 DEF HasCopied, Build, ProgramIsSound
    <3> QED
      BY <2>5, <3>1, <3>2, <3>3 DEF HasCopied, Copying, ScriptAt
  <2>6. CASE CopyFails(i)
    BY <2>6 DEF CopyFails, ProgramIsSound
  <2>7. CASE \/ ScriptStops(i) \/ ReplaceAgain(i) \/ GivesUp(i) \/ StartsService(i)
             \/ StartsClient(i)
    <3>1. ~Copying(i) \/ UNCHANGED script
      BY <2>7 DEF ScriptStops, ReplaceAgain, GivesUp, StartsService, StartsClient, MayReplace,
         ScriptAt, Copying, upgradeVars
    <3>2. UNCHANGED exe
      BY <2>7 DEF ScriptStops, ReplaceAgain, GivesUp, StartsService, StartsClient, upgradeVars
    <3> QED
      BY <1>1, <2>1, <3>1, <3>2 DEF Copying
  <2> QED
    BY <1>4, <2>2, <2>3, <2>4, <2>5, <2>6, <2>7 DEF ScriptStep
<1>5. CASE UNCHANGED vars
  BY <1>1, <1>5 DEF vars, upgradeVars, Copying
<1> QED
  BY <1>2, <1>3, <1>4, <1>5 DEF Next

(* A program on disk that does not run is being copied by a script, or is    *)
(* what a copy, an unpacking or an overlap of two upgrades left, whatever    *)
(* processes and scripts do and however many scripts there are.              *)
THEOREM ProgramsAreSound == Spec => []ProgramIsSound
<1>1. Init => HalfBuildsHaveACause /\ ProgramIsSound
  BY DEF Init, ServiceInit, HalfBuildsHaveACause, ProgramIsSound, Pending, Unused
<1>2. TypeOK /\ HalfBuildsHaveACause /\ ProgramIsSound /\ [Next]_vars
        => HalfBuildsHaveACause' /\ ProgramIsSound'
  BY HalfBuildStep, ProgramStep
<1> QED
  BY <1>1, <1>2, TypeCorrect, PTL DEF Spec
=============================================================================
