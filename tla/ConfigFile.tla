----------------------------- MODULE ConfigFile -----------------------------
(***************************************************************************)
(* The configuration files of a machine (client/src/config.rs) and the     *)
(* processes that read and write them: a user's client, the system service *)
(* and the administrator's command line (client/src/base.rs).  A process   *)
(* reads a file once, when it starts, and writes all of what it has in     *)
(* memory whenever it changes something.                                   *)
(*                                                                         *)
(* Of what a file holds only the token counts: whether there is one.       *)
(* Options are set the way the token is.  Processes started with           *)
(* --readonly never write and are left out.  Where else a process can be   *)
(* (commands of the service, an upgrade) is said in Service and Upgrade.   *)
(***************************************************************************)
EXTENDS Integers

VARIABLES
  file,       (* path -> absent, torn (truncated, not yet whole), or whole:  *)
              (* with a token (auth) or without (anon)                       *)
  proc,       (* process -> its place, file, token and the version of the    *)
              (* program it executes                                         *)
  damaged     (* paths with bytes that do not stem from whoever truncated    *)
              (* them last: of a writer that died or met another one, or of  *)
              (* a torn file that was copied                                 *)

configVars == <<file, proc, damaged>>

Procs == {"client", "service", "admin"}
Paths == {"user", "system"}
Contents == {"absent", "torn", "anon", "auth"}
Places == {"off", "starting", "creating", "idle", "saving",
           "installing", "copying", "registering", "removing", "reloading",
           "downloading", "unpacking"}

Off == [at |-> "off", path |-> "user", token |-> FALSE, image |-> "none"]

At(p, place) == proc[p].at = place
On(p) == ~At(p, "off")
Whole(token) == IF token THEN "auth" ELSE "anon"

(* The file a process has truncated and not yet written.                     *)
Target(p) == IF At(p, "copying") THEN "system" ELSE proc[p].path
Writing(p, f) == proc[p].at \in {"creating", "saving", "copying"} /\ Target(p) = f

(* A process that dies leaves what it was writing torn.                      *)
DamagedBy(p) == IF \E f \in Paths : Writing(p, f) THEN damaged \cup {Target(p)} ELSE damaged

-----------------------------------------------------------------------------
(* ClientConfig::from_file writes a default file if there is none; a file    *)
(* that does not parse ends the process.                                     *)
Open(p, path, image) ==
  /\ proc' = [proc EXCEPT ![p] =
       IF file[path] = "torn" THEN Off
       ELSE [Off EXCEPT !.path = path, !.token = file[path] = "auth", !.image = image,
                        !.at = IF file[path] = "absent" THEN "creating" ELSE "idle"]]
  /\ IF file[path] = "absent"
     THEN file' = [file EXCEPT ![path] = "torn"] /\ damaged' = damaged \ {path}
     ELSE UNCHANGED <<file, damaged>>

(* ClientConfig::save: File::create, then write_all.                         *)
Save(p, token) ==
  /\ At(p, "idle")
  /\ proc' = [proc EXCEPT ![p].at = "saving", ![p].token = token]
  /\ file' = [file EXCEPT ![proc[p].path] = "torn"]
  /\ damaged' = damaged \ {proc[p].path}

(* What p writes goes over what another process wrote since p truncated, and *)
(* the end of the longer one may remain.                                     *)
Put(p, content, next) ==
  LET f == Target(p) IN
  /\ \E result \in IF f \in damaged THEN {content, "torn"} ELSE {content} :
       /\ file' = [file EXCEPT ![f] = result]
       /\ damaged' = IF result = "torn" \/ \E q \in Procs \ {p} : Writing(q, f)
                     THEN damaged \cup {f} ELSE damaged \ {f}
  /\ proc' = [proc EXCEPT ![p] = next]

(* Commands end when they have saved; the client and the service go on.      *)
WriteOutEmpty(p) ==                                                \* faulty variant
  /\ proc[p].at \in {"creating", "saving"}
  /\ Put(p, "empty", [proc[p] EXCEPT !.at = "idle"])
WriteOutNothing(p) ==                                              \* faulty variant
  /\ proc[p].at \in {"creating", "saving"}
  /\ proc' = [proc EXCEPT ![p].at = "idle"]
  /\ UNCHANGED <<file, damaged>>
WriteOut(p) ==
  \/ At(p, "creating") /\ Put(p, "anon", [proc[p] EXCEPT !.at = "idle"])
  \/ /\ At(p, "saving")
     /\ Put(p, Whole(proc[p].token),
            IF p = "admin" THEN Off ELSE [proc[p] EXCEPT !.at = "idle"])

ConfigInit ==
  /\ file \in {f \in [Paths -> {"absent", "anon", "auth"}] : f["system"] = "absent"}
  /\ proc = [p \in Procs |-> Off]
  /\ damaged = {}

ConfigTypeOK ==
  /\ file \in [Paths -> Contents]
  /\ proc \in [Procs -> [at : Places, path : Paths, token : BOOLEAN,
                     image : {"none", "old", "new"}]]
  /\ damaged \subseteq Paths
=============================================================================
