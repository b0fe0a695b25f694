---------------------------- MODULE Publication ----------------------------
(***************************************************************************)
(* The publications a client serves itself: the PluginHandles that the     *)
(* control loop keeps in plugin_processes (client/src/client.rs), their    *)
(* tasks (plugins/plugin_trait.rs), the server each of them installs       *)
(* (plugins/httpd.rs for webdav and 1C, plugins/minecraft) and runs as a   *)
(* SubProcess (shell.rs), and what the server side is told about them.     *)
(*                                                                         *)
(* External: the programs that are run, the download server, the requests  *)
(* of the CloudPub server.  to_server_tx always has room (FairChannel and  *)
(* Tunnel model it full).  A file is whole or not; progress messages are   *)
(* left out, and so are other processes that take the chosen port or       *)
(* delete the installed files (the purge command).                         *)
(***************************************************************************)
EXTENDS Integers

CONSTANTS
  Guids,        (* endpoints                                                 *)
  Configs,      (* encodings of their ClientEndpoint                         *)
  KindOf,       (* guid -> "httpd" (webdav and 1C) or "jar" (minecraft)      *)
  MaxSpawns     (* bound: handles spawned in a behaviour                     *)

Kinds == {"httpd", "jar"}

ASSUME KindsAreKnown == KindOf \in [Guids -> Kinds]
ASSUME BoundIsPositive == MaxSpawns \in Nat \ {0}
ASSUME SomethingToPublish == Guids # {} /\ Configs # {}

VARIABLES
  table,      (* plugin_processes: guid -> its handle, 0 for none            *)
  fresh,      (* handle the control loop has spawned and not yet inserted    *)
  spawned,    (* handles spawned so far                                      *)
  pub,        (* handle -> its task, subprocess and event forwarder          *)
  disk,       (* kind -> what is whole: archive, unpacked tree, installed.txt*)
  lock,       (* holder of HTTPD_SETUP_LOCK, 0 for none                      *)
  shown       (* guid -> last status sent for it, and the handle that did    *)

vars == <<table, fresh, spawned, pub, disk, lock, shown>>

Handles == 1 .. MaxSpawns

(***************************************************************************)
(* Places of a task: begin (spawned, not polled), enter (setup), fetch and *)
(* fetching (download), unpacking, mark, publish, poll (waits for the      *)
(* port), online (about to say so), ended.                                 *)
(* The SubProcess is nowhere, in a local variable or in handle.server.     *)
(* Its child: failed once it has exited with an error, reported once that  *)
(* is in SubProcess::result; exited with status 0; killed.                 *)
(***************************************************************************)
Places == {"none", "begin", "enter", "fetch", "fetching", "unpacking", "mark",
           "publish", "poll", "online", "ended"}
Children == {"none", "starting", "serving", "failed", "reported", "exited", "killed"}
Files == {"archive", "tree", "marker"}
Statuses == {"none", "waiting", "online", "offline"}

NoHandle == [guid |-> CHOOSE g \in Guids : TRUE, config |-> CHOOSE c \in Configs : TRUE,
             at |-> "none", dropped |-> FALSE, sub |-> "none", child |-> "none",
             forwarder |-> "none"]

At(h, place) == pub[h].at = place
Kind(h) == KindOf[pub[h].guid]
Alive(h) == pub[h].child \in {"starting", "serving"}

(* SubProcess is dropped with the last owner: the task's local variable, or  *)
(* handle.server, which handle and task share.                               *)
Owned(h) == \/ pub[h].sub = "local" /\ At(h, "poll")
            \/ pub[h].sub = "slot" /\ (~pub[h].dropped \/ ~At(h, "ended"))

(* PluginHandle::is_healthy: SubProcess::result is Ok until it is reported.  *)
IsHealthyWhenServed(h) ==                                          \* faulty variant
  pub[h].sub = "slot" /\ pub[h].child # "reported"
IsHealthyWithServer(h) == At(h, "ended") => pub[h].sub = "slot"    \* faulty variant
IsHealthy(h) == \/ pub[h].at # "ended"
                \/ pub[h].sub = "slot" /\ pub[h].child # "reported"

SameConfig(h, c) == pub[h].config = c

-----------------------------------------------------------------------------
(* The control loop.                                                         *)

Say(h, status) == shown' = [shown EXCEPT ![pub[h].guid] = [status |-> status, by |-> h]]

AlreadyRunning(g, c) == table[g] # 0 /\ SameConfig(table[g], c) /\ IsHealthy(table[g])

(* Dropping a handle: the task is aborted.                                   *)
DropHandles(hs) == pub' = [h \in Handles |-> IF h \in hs THEN [pub[h] EXCEPT !.dropped = TRUE]
                                                         ELSE pub[h]]

(* PluginHandle::spawn on an EndpointAck: the task runs before the handle is *)
(* in the table, and before the handle it replaces is dropped.               *)
Spawn(g, c) ==
  /\ spawned' = spawned + 1 /\ fresh' = spawned + 1
  /\ pub' = [pub EXCEPT ![spawned + 1] = [NoHandle EXCEPT !.guid = g, !.config = c, !.at = "begin"]]
  /\ UNCHANGED <<table, disk, lock, shown>>

EndpointAck(g, c) == fresh = 0 /\ spawned < MaxSpawns /\ ~AlreadyRunning(g, c) /\ Spawn(g, c)

Insert ==
  /\ fresh # 0
  /\ table' = [table EXCEPT ![pub[fresh].guid] = fresh]
  /\ DropHandles({table[pub[fresh].guid]})
  /\ fresh' = 0
  /\ UNCHANGED <<spawned, disk, lock, shown>>

(* EndpointStopAck, EndpointRemoveAck, Break of the server or of the program *)
Remove(g) ==
  /\ fresh = 0 /\ table[g] # 0
  /\ table' = [table EXCEPT ![g] = 0]
  /\ DropHandles({table[g]})
  /\ UNCHANGED <<fresh, spawned, disk, lock, shown>>

(* PerformUpgrade, a failed session and the end of run drop every handle.    *)
(* What the tasks of a failed session still say goes to a closed channel;    *)
(* shown keeps it all the same.                                              *)
Clear ==
  /\ fresh = 0
  /\ table' = [g \in Guids |-> 0]
  /\ DropHandles({table[g] : g \in Guids})
  /\ UNCHANGED <<fresh, spawned, disk, lock, shown>>

-----------------------------------------------------------------------------
(* The task of a handle.  An abort takes effect at an await: an aborted task *)
(* may still finish steps, and Cancel may come before any of them.           *)

Go(h, place) == pub' = [pub EXCEPT ![h].at = place]
Unlock(h) == lock' = IF lock = h THEN 0 ELSE lock

(* The forwarder is spawned, and the status sent, before anything else.      *)
Begin(h) ==
  /\ At(h, "begin")
  /\ pub' = [pub EXCEPT ![h].at = "enter", ![h].forwarder = "runs"]
  /\ Say(h, "waiting") /\ UNCHANGED <<lock, disk>>

(* setup: httpd checks the marker under the lock, minecraft without          *)
AlreadyInstalled(h) ==
  /\ At(h, "enter") /\ "marker" \in disk[Kind(h)]
  /\ Kind(h) = "httpd" => lock = 0
  /\ Go(h, "publish") /\ UNCHANGED <<lock, disk, shown>>

InstallUnlocked(h) ==                                              \* faulty variant
  /\ At(h, "enter") /\ "marker" \notin disk[Kind(h)]
  /\ Go(h, "fetch") /\ UNCHANGED <<lock, disk, shown>>
Install(h) ==
  /\ At(h, "enter") /\ "marker" \notin disk[Kind(h)]
  /\ IF Kind(h) = "httpd" THEN lock = 0 /\ lock' = h ELSE UNCHANGED lock
  /\ Go(h, "fetch") /\ UNCHANGED <<disk, shown>>

(* download truncates the archive unless it has the length the server gives  *)
Fetch(h) ==
  /\ At(h, "fetch") /\ "archive" \notin disk[Kind(h)]
  /\ Go(h, "fetching") /\ UNCHANGED <<lock, disk, shown>>

Fetched(h) ==
  /\ At(h, "fetching") \/ (At(h, "fetch") /\ "archive" \in disk[Kind(h)])
  /\ disk' = [disk EXCEPT ![Kind(h)] = (@ \cup {"archive"}) \ {"tree"}]
  /\ Go(h, "unpacking") /\ UNCHANGED <<lock, shown>>

Unpacked(h) ==
  /\ At(h, "unpacking") /\ Go(h, "mark")
  /\ disk' = [disk EXCEPT ![Kind(h)] = @ \cup {"tree"}]
  /\ UNCHANGED <<lock, shown>>

(* execute returns Ok when it kills tar: the Break of Drop may be the last   *)
(* thing an aborted task reads.  unzip, for httpd, reads no commands.        *)
TarIsKilled(h) ==
  /\ At(h, "unpacking") /\ Kind(h) = "jar" /\ pub[h].dropped
  /\ Go(h, "mark") /\ UNCHANGED <<lock, disk, shown>>

Mark(h) ==
  /\ At(h, "mark") /\ Go(h, "publish") /\ Unlock(h)
  /\ disk' = [disk EXCEPT ![Kind(h)] = @ \cup {"marker"}]
  /\ UNCHANGED shown

Setup(h) == \/ AlreadyInstalled(h) \/ Install(h) \/ Fetch(h) \/ Fetched(h)
            \/ Unpacked(h) \/ TarIsKilled(h) \/ Mark(h)

(* start_httpd first kills the process that the guid's pid file names: httpd *)
(* of an older handle, if it still runs and has written the file.            *)
OldServers(h) == {o \in Handles : Alive(o) /\ o # h /\ pub[o].guid = pub[h].guid}

Starts(h, killed, ends) ==
  pub' = [o \in Handles |->
            IF o = h THEN [pub[h] EXCEPT !.at = "poll", !.sub = "local", !.child = "starting"]
            ELSE IF o \in killed THEN [pub[o] EXCEPT !.child = ends] ELSE pub[o]]

StartHttpd(h) ==
  /\ Kind(h) = "httpd"
  /\ \E killed \in SUBSET OldServers(h), ends \in {"exited", "failed"} : Starts(h, killed, ends)

StartMinecraft(h) == Kind(h) = "jar" /\ Starts(h, {}, "none")

Publish(h) ==
  /\ At(h, "publish") /\ (StartHttpd(h) \/ StartMinecraft(h))
  /\ UNCHANGED <<lock, disk, shown>>

(* The port is bound: the SubProcess goes into the handle.                   *)
PortIsBound(h) ==
  /\ At(h, "poll") /\ pub[h].child = "serving"
  /\ pub' = [pub EXCEPT ![h].at = "online", ![h].sub = "slot"]
  /\ UNCHANGED <<lock, disk, shown>>

(* The subprocess has failed before: setup ends with Ok all the same.        *)
FailedBefore(h) ==
  /\ At(h, "poll") /\ pub[h].child = "reported"
  /\ pub' = [pub EXCEPT ![h].at = "online", ![h].sub = "none"]
  /\ UNCHANGED <<lock, disk, shown>>

SayOnline(h) ==
  /\ At(h, "online") /\ Say(h, "online") /\ Go(h, "ended") /\ UNCHANGED <<lock, disk>>

(* Any ? of setup and publish, or 60 seconds without a bound port: the last  *)
(* thing the task sends is an Error, PublishFailed, which has no status.     *)
MayFail == {"enter", "fetch", "fetching", "unpacking", "mark", "publish", "poll"}

Fails(h) ==
  /\ pub[h].at \in MayFail
  /\ pub' = [pub EXCEPT ![h].at = "ended", ![h].sub = "none"]
  /\ Unlock(h) /\ UNCHANGED <<disk, shown>>

Cancel(h) ==
  /\ pub[h].dropped /\ pub[h].at \notin {"none", "ended"}
  /\ Go(h, "ended") /\ Unlock(h) /\ UNCHANGED <<disk, shown>>

-----------------------------------------------------------------------------
(* The subprocess's own task, and the event forwarder.                       *)

ChildIs(h, state) == pub' = [pub EXCEPT ![h].child = state] /\ UNCHANGED <<lock, disk, shown>>

Binds(h) == pub[h].child = "starting" /\ ChildIs(h, "serving")
Exits(h) == Alive(h) /\ \E state \in {"exited", "failed"} : ChildIs(h, state)
Reports(h) == pub[h].child = "failed" /\ ChildIs(h, "reported")

(* SubProcess::drop sends Break and closes the channel: execute kills.       *)
KillOnceBound(h) ==                                                \* faulty variant
  pub[h].child = "serving" /\ ~Owned(h) /\ ChildIs(h, "killed")
Kill(h) == Alive(h) /\ ~Owned(h) /\ ChildIs(h, "killed")

(* All senders of per-process events are gone: the task's and, until it has  *)
(* reported, the subprocess's.                                               *)
ForwarderEndsWithTask(h) ==                                        \* faulty variant
  /\ pub[h].forwarder = "runs" /\ At(h, "ended")
  /\ Say(h, "offline")
  /\ pub' = [pub EXCEPT ![h].forwarder = "done"]
  /\ UNCHANGED <<lock, disk>>
ForwarderEnds(h) ==
  /\ pub[h].forwarder = "runs" /\ At(h, "ended")
  /\ ~Alive(h) /\ pub[h].child # "failed"
  /\ Say(h, "offline")
  /\ pub' = [pub EXCEPT ![h].forwarder = "done"]
  /\ UNCHANGED <<lock, disk>>

-----------------------------------------------------------------------------
Init ==
  /\ table = [g \in Guids |-> 0]
  /\ fresh = 0 /\ spawned = 0 /\ lock = 0
  /\ pub = [h \in Handles |-> NoHandle]
  /\ disk = [k \in Kinds |-> {}]
  /\ shown = [g \in Guids |-> [status |-> "none", by |-> 0]]

Control ==
  \/ \E g \in Guids : Remove(g) \/ \E c \in Configs : EndpointAck(g, c)
  \/ Insert \/ Clear

TaskStep(h) ==
  /\ \/ Begin(h) \/ Setup(h) \/ Publish(h) \/ PortIsBound(h)
     \/ FailedBefore(h) \/ SayOnline(h) \/ Fails(h) \/ Cancel(h)
  /\ UNCHANGED <<table, fresh, spawned>>

ChildStep(h) ==
  /\ Binds(h) \/ Exits(h) \/ Reports(h) \/ Kill(h) \/ ForwarderEnds(h)
  /\ UNCHANGED <<table, fresh, spawned>>

Next == Control \/ \E h \in Handles : TaskStep(h) \/ ChildStep(h)

Spec == Init /\ [][Next]_vars

(* The runtime polls every task: an abort is carried out, a dropped channel  *)
(* is noticed.  Nothing is assumed of downloads, servers and requests.       *)
RuntimeIsFair ==
  /\ WF_vars(Insert)
  /\ \A h \in Handles :
       /\ WF_vars(Cancel(h) /\ UNCHANGED <<table, fresh, spawned>>)
       /\ WF_vars((Reports(h) \/ Kill(h) \/ ForwarderEnds(h))
                  /\ UNCHANGED <<table, fresh, spawned>>)

FairSpec == Spec /\ RuntimeIsFair

-----------------------------------------------------------------------------
(* Type invariant of the table, the handles, the disk and the statuses.      *)
TypeOK ==
  /\ {fresh, spawned, lock} \subseteq 0 .. MaxSpawns
  /\ table \in [Guids -> 0 .. MaxSpawns]
  /\ pub \in [Handles -> [guid : Guids, config : Configs, at : Places, dropped : BOOLEAN,
                          sub : {"none", "local", "slot"}, child : Children,
                          forwarder : {"none", "runs", "done"}]]
  /\ disk \in [Kinds -> SUBSET Files]
  /\ shown \in [Guids -> [status : Statuses, by : 0 .. MaxSpawns]]

(* However setups of httpd overlap, fail and are aborted, the marker stands  *)
(* for a whole tree, and no httpd runs on a tree that is being written       *)
(* (httpd.rs: "unpack over each other and over a running httpd").            *)
InstallationIsWhole ==
  /\ "marker" \in disk["httpd"] => "tree" \in disk["httpd"]
  /\ \A h \in Handles : Kind(h) = "httpd" /\ Alive(h) => "tree" \in disk["httpd"]

(* A publication that is being set up or serves is replaced only by one of   *)
(* another configuration: the duplicates the server sends after every        *)
(* EndpointStartAll never bounce it.                                         *)
DuplicatesNeverBounce ==
  [][\A g \in Guids : LET old == table[g]  new == table'[g] IN
       /\ old # 0 /\ new \notin {0, old}
       /\ ~At(old, "ended") \/ (pub[old].sub = "slot" /\ pub[old].child = "serving")
       => pub[new].config # pub[old].config]_vars

(* A handle that is dropped (stopped, replaced, upgraded, reconnected) has   *)
(* its server killed and its forwarder ended, wherever its task was: a       *)
(* download, the wait for the lock or for the port.                          *)
DroppedHandlesEnd ==
  \A h \in Handles : pub[h].dropped ~> ~Alive(h) /\ pub[h].forwarder # "runs"

Serves(g) == /\ table[g] # 0 /\ At(table[g], "ended")
             /\ pub[table[g]].sub = "slot" /\ pub[table[g]].child = "serving"

(* What serves is shown online, unless another handle of its endpoint spoke  *)
(* last: one that comes after it, or one before it whose server took longer  *)
(* to die than this one took to start (the changelog, 2.4.2: "status out of  *)
(* step between client and server").  A handle takes its own word back only  *)
(* when its server is gone.                                                  *)
OnlyOthersHideIt ==
  \A g \in Guids : Serves(g) => shown[g].status = "online" \/ shown[g].by # table[g]

(* What is said of is_healthy, "The publication is being set up or its       *)
(* subprocess is alive" (plugin_trait.rs:202): whatever a publication failed *)
(* at, it counts as dead in the end, and the next EndpointAck starts it      *)
(* again; only a server that exited with status 0 leaves its result Ok.      *)
FailuresAreNoticed ==
  \A h \in Handles :
    At(h, "ended") /\ ~Alive(h) ~> ~IsHealthy(h) \/ pub[h].child = "exited" \/ pub[h].dropped
=============================================================================
