------------------------- MODULE Publication_proofs -------------------------
(***************************************************************************)
(* Proofs about the publications, for any endpoints, configurations and    *)
(* number of handles: the type of the state, that no httpd runs on a half  *)
(* unpacked installation, that duplicates do not bounce what serves, and   *)
(* that what serves is shown online unless another handle spoke last.      *)
(***************************************************************************)
EXTENDS Publication, TLAPS

(* Handles are spawned in order, and the table holds spawned ones.           *)
SpawnedInOrder ==
  /\ fresh <= spawned
  /\ \A g \in Guids : table[g] <= spawned
  /\ \A h \in Handles : h > spawned => pub[h] = NoHandle

(* The lock is held from the missing marker to the new one; no server is     *)
(* started before, and none runs without.                                    *)
Installing == {"fetch", "fetching", "unpacking", "mark"}

InstalledUnderLock ==
  \A h \in Handles : Kind(h) = "httpd" =>
    /\ pub[h].at \in Installing => lock = h /\ "marker" \notin disk["httpd"]
    /\ At(h, "mark") => "tree" \in disk["httpd"]
    /\ At(h, "publish") \/ Alive(h) => "marker" \in disk["httpd"]

MarkedIsWhole == "marker" \in disk["httpd"] => "tree" \in disk["httpd"]

(* What the control loop has seen before it spawned still holds when it      *)
(* replaces the old handle: a dead one stays dead.                           *)
Dead(h) == At(h, "ended") /\ (pub[h].sub # "slot" \/ pub[h].child = "reported")

FreshIsNoDuplicate ==
  fresh # 0 => LET old == table[pub[fresh].guid] IN
    old # 0 => Dead(old) \/ ~SameConfig(old, pub[fresh].config)

(* The table holds handles of its guids that are not dropped, and the one to *)
(* be inserted is neither dropped nor in the table yet.                      *)
TableIsLive ==
  /\ \A g \in Guids : table[g] # 0 => ~pub[table[g]].dropped /\ pub[table[g]].guid = g
  /\ fresh # 0 => ~pub[fresh].dropped /\ \A g \in Guids : table[g] # fresh

(* Who spoke last for an endpoint said online, or is dropped, or does not    *)
(* serve: a task that is not at its end is not dropped without a word, one   *)
(* that fails drops its server, and its forwarder outlives that.             *)
LastWord ==
  \A g \in Guids : LET h == shown[g].by IN h # 0 =>
    /\ pub[h].guid = g /\ ~At(h, "none")
    /\ \/ shown[g].status = "online" \/ pub[h].dropped
       \/ ~At(h, "ended") \/ pub[h].sub # "slot" \/ ~Alive(h)

IInv == /\ TypeOK /\ SpawnedInOrder /\ InstalledUnderLock /\ MarkedIsWhole
        /\ FreshIsNoDuplicate
-----------------------------------------------------------------------------
Record == [guid : Guids, config : Configs, at : Places, dropped : BOOLEAN,
           sub : {"none", "local", "slot"}, child : Children,
           forwarder : {"none", "runs", "done"}]

(* A handle that has not been spawned. *)
LEMMA NoHandleIsARecord == NoHandle \in Record
<1>1. (CHOOSE g \in Guids : TRUE) \in Guids /\ (CHOOSE c \in Configs : TRUE) \in Configs
  BY SomethingToPublish
<1> QED
  BY <1>1 DEF NoHandle, Record, Places, Children

(* Dropping handles leaves records, and changes nothing but `dropped`. *)
LEMMA Dropping ==
  ASSUME NEW hs, DropHandles(hs), pub \in [Handles -> Record]
  PROVE  /\ pub' \in [Handles -> Record]
         /\ \A h \in Handles :
              /\ pub'[h].guid = pub[h].guid /\ pub'[h].config = pub[h].config
              /\ pub'[h].at = pub[h].at /\ pub'[h].sub = pub[h].sub
              /\ pub'[h].child = pub[h].child /\ pub'[h].forwarder = pub[h].forwarder
<1>1. \A h \in Handles : [pub[h] EXCEPT !.dropped = TRUE] \in Record
  BY DEF Record
<1>2. pub' \in [Handles -> Record]
  BY <1>1 DEF DropHandles
<1> QED
  BY <1>2 DEF DropHandles, Record

(* What the control loop does keeps the type. *)
LEMMA ControlType ==
  ASSUME TypeOK, Control
  PROVE  TypeOK'
<1> USE BoundIsPositive
<1>0. pub \in [Handles -> Record]
  BY DEF TypeOK, Record
<1>1. ASSUME NEW g \in Guids, NEW c \in Configs, EndpointAck(g, c)
      PROVE  TypeOK'
  <2>1. [NoHandle EXCEPT !.guid = g, !.config = c, !.at = "begin"] \in Record
    BY NoHandleIsARecord DEF Record, Places
  <2>2. pub' \in [Handles -> Record]
    BY <1>0, <1>1, <2>1 DEF EndpointAck, Spawn
  <2> QED
    BY <1>1, <2>2 DEF TypeOK, EndpointAck, Spawn, Record
<1>2. ASSUME Insert
      PROVE  TypeOK'
  <2>1. pub' \in [Handles -> Record]
    BY <1>0, <1>2, Dropping DEF Insert
  <2>2. table' \in [Guids -> 0 .. MaxSpawns]
    BY <1>2 DEF TypeOK, Insert
  <2>3. fresh' \in 0 .. MaxSpawns /\ UNCHANGED <<spawned, disk, lock, shown>>
    BY <1>2 DEF Insert
  <2> QED
    BY <2>1, <2>2, <2>3 DEF TypeOK, Record
<1>3. ASSUME NEW g \in Guids, Remove(g)
      PROVE  TypeOK'
  <2>1. pub' \in [Handles -> Record]
    BY <1>0, <1>3, Dropping DEF Remove
  <2> QED
    BY <1>3, <2>1 DEF TypeOK, Remove, Record
<1>4. ASSUME Clear
      PROVE  TypeOK'
  <2>1. pub' \in [Handles -> Record]
    BY <1>0, <1>4, Dropping DEF Clear
  <2> QED
    BY <1>4, <2>1 DEF TypeOK, Clear, Record
<1> QED
  BY <1>1, <1>2, <1>3, <1>4 DEF Control

(* A status that is sent is a status. *)
LEMMA SayType ==
  ASSUME TypeOK, NEW h \in Handles, NEW status \in Statuses, Say(h, status)
  PROVE  shown' \in [Guids -> [status : Statuses, by : 0 .. MaxSpawns]]
BY BoundIsPositive DEF TypeOK, Say, Handles

(* So does a task. *)
LEMMA TaskType ==
  ASSUME TypeOK, NEW h \in Handles, TaskStep(h)
  PROVE  TypeOK'
<1> USE BoundIsPositive
<1>0. /\ pub \in [Handles -> Record] /\ UNCHANGED <<table, fresh, spawned>>
      /\ Kind(h) \in Kinds
  BY KindsAreKnown DEF TypeOK, Record, TaskStep, Kind
<1>1. ASSUME NEW place \in Places, Go(h, place)
      PROVE  pub' \in [Handles -> Record]
  BY <1>0, <1>1 DEF Go, Record
<1>2. CASE Begin(h)
  <2>1. pub' \in [Handles -> Record]
    <3>1. [pub[h] EXCEPT !.at = "enter", !.forwarder = "runs"] \in Record
      BY <1>0 DEF Record, Places
    <3>2. pub' = [pub EXCEPT ![h] = [pub[h] EXCEPT !.at = "enter", !.forwarder = "runs"]]
      BY <1>0, <1>2 DEF Begin
    <3> QED
      BY <1>0, <3>1, <3>2
  <2> QED
    BY <1>0, <1>2, <2>1, SayType DEF TypeOK, Begin, Statuses, Record
<1>3. CASE Setup(h)
  <2>1. pub' \in [Handles -> Record]
    BY <1>1, <1>3 DEF Setup, AlreadyInstalled, Install, Fetch, Fetched, Unpacked, TarIsKilled,
                     Mark, Places
  <2>2. disk' \in [Kinds -> SUBSET Files]
    BY <1>0, <1>3 DEF Setup, AlreadyInstalled, Install, Fetch, Fetched, Unpacked, TarIsKilled,
                     Mark, TypeOK, Files
  <2>3. lock' \in 0 .. MaxSpawns /\ shown' = shown
    <3>1. lock' \in {lock, 0, h} /\ shown' = shown
      BY <1>3 DEF Setup, AlreadyInstalled, Install, Fetch, Fetched, Unpacked, TarIsKilled,
                  Mark, Unlock
    <3> QED
      BY <3>1 DEF TypeOK, Handles
  <2> QED
    BY <1>0, <2>1, <2>2, <2>3 DEF TypeOK, Record
<1>4. CASE Publish(h)
  <2>1. ASSUME NEW killed, NEW ends \in Children, Starts(h, killed, ends)
        PROVE  pub' \in [Handles -> Record]
    <3>1. [pub[h] EXCEPT !.at = "poll", !.sub = "local", !.child = "starting"] \in Record
      <4>1. "poll" \in Places /\ "starting" \in Children
        BY DEF Places, Children
      <4> QED
        BY <1>0, <4>1 DEF Record
    <3>2. \A o \in Handles : [pub[o] EXCEPT !.child = ends] \in Record /\ pub[o] \in Record
      BY <1>0 DEF Record
    <3> QED
      BY <2>1, <3>1, <3>2 DEF Starts
  <2>2. pub' \in [Handles -> Record]
    BY <1>4, <2>1 DEF Publish, StartHttpd, StartMinecraft, Children
  <2> QED
    BY <1>0, <1>4, <2>2 DEF Publish, TypeOK, Record
<1>5. CASE PortIsBound(h) \/ FailedBefore(h)
  <2>1. pub' \in [Handles -> Record]
    BY <1>0, <1>5 DEF PortIsBound, FailedBefore, Record, Places
  <2> QED
    BY <1>0, <1>5, <2>1 DEF TypeOK, PortIsBound, FailedBefore, Record
<1>6. CASE SayOnline(h)
  <2>1. pub' \in [Handles -> Record]
    BY <1>1, <1>6 DEF SayOnline, Places
  <2> QED
    BY <1>0, <1>6, <2>1, SayType DEF TypeOK, SayOnline, Statuses, Record
<1>7. CASE Fails(h)
  <2>1. pub' \in [Handles -> Record]
    <3>1. [pub[h] EXCEPT !.at = "ended", !.sub = "none"] \in Record
      BY <1>0 DEF Record, Places
    <3>2. pub' = [pub EXCEPT ![h] = [pub[h] EXCEPT !.at = "ended", !.sub = "none"]]
      BY <1>0, <1>7 DEF Fails
    <3> QED
      BY <1>0, <3>1, <3>2
  <2> QED
    BY <1>0, <1>7, <2>1 DEF TypeOK, Fails, Unlock, Record
<1>8. CASE Cancel(h)
  <2>1. pub' \in [Handles -> Record]
    BY <1>1, <1>8 DEF Cancel, Places
  <2> QED
    BY <1>0, <1>8, <2>1 DEF TypeOK, Cancel, Unlock, Record
<1> QED
  BY <1>2, <1>3, <1>4, <1>5, <1>6, <1>7, <1>8 DEF TaskStep

(* So does a subprocess, and a forwarder. *)
LEMMA ChildType ==
  ASSUME TypeOK, NEW h \in Handles, ChildStep(h)
  PROVE  TypeOK'
<1> USE BoundIsPositive
<1>0. pub \in [Handles -> Record] /\ UNCHANGED <<table, fresh, spawned>>
  BY DEF ChildStep, TypeOK, Record
<1>1. CASE Binds(h) \/ Exits(h) \/ Reports(h) \/ Kill(h)
  <2>1. ASSUME NEW state \in Children, ChildIs(h, state)
        PROVE  pub' \in [Handles -> Record] /\ UNCHANGED <<lock, disk, shown>>
    BY <1>0, <2>1 DEF ChildIs, Record
  <2> QED
    BY <1>0, <1>1, <2>1 DEF TypeOK, Binds, Exits, Reports, Kill, Children, Record
<1>2. CASE ForwarderEnds(h)
  <2>1. pub' \in [Handles -> Record]
    BY <1>0, <1>2 DEF ForwarderEnds, Record
  <2> QED
    BY <1>0, <1>2, <2>1, SayType DEF TypeOK, ForwarderEnds, Statuses, Record
<1> QED
  BY <1>1, <1>2 DEF ChildStep

LEMMA TypeStep == TypeOK /\ [Next]_vars => TypeOK'
<1> SUFFICES ASSUME TypeOK, [Next]_vars
             PROVE  TypeOK'
  OBVIOUS
<1>1. CASE UNCHANGED vars
  BY <1>1 DEF TypeOK, vars
<1> QED
  BY <1>1, ControlType, TaskType, ChildType DEF Next

LEMMA InitType == Init => TypeOK
BY NoHandleIsARecord, BoundIsPositive DEF Init, TypeOK, Record, Statuses, Files, Handles

(* The table, the handles, the installed files and the statuses always have  *)
(* their types, whatever is spawned, replaced, dropped and aborted.          *)
THEOREM TypeCorrect == Spec => []TypeOK
BY InitType, TypeStep, PTL DEF Spec
-----------------------------------------------------------------------------
(* What the steps change. *)

(* Spawning changes only the new handle. *)
LEMMA Spawning ==
  ASSUME TypeOK, NEW g \in Guids, NEW c \in Configs, EndpointAck(g, c)
  PROVE  /\ spawned + 1 \in Handles
         /\ pub'[spawned + 1].at = "begin" /\ pub'[spawned + 1].child = "none"
         /\ pub'[spawned + 1].forwarder = "none"
         /\ pub'[spawned + 1].guid = g /\ pub'[spawned + 1].config = c
         /\ \A h \in Handles : h # spawned + 1 => pub'[h] = pub[h]
<1>1. spawned + 1 \in Handles
  BY BoundIsPositive DEF TypeOK, EndpointAck, Handles
<1>2. DEFINE new == [NoHandle EXCEPT !.guid = g, !.config = c, !.at = "begin"]
<1>3. new.at = "begin" /\ new.child = "none" /\ new.forwarder = "none"
      /\ new.guid = g /\ new.config = c
  BY DEF NoHandle
<1>4. pub' = [pub EXCEPT ![spawned + 1] = new]
  BY DEF EndpointAck, Spawn
<1> QED
  BY <1>1, <1>3, <1>4 DEF TypeOK

(* A handle's guid, configuration and flag stay; a task changes itself, and of      *)
(* other handles only the child of an old server that it kills.               *)
LEMMA TaskFrame ==
  ASSUME TypeOK, NEW h \in Handles, TaskStep(h)
  PROVE  /\ UNCHANGED <<table, fresh, spawned>>
         /\ pub' \in [Handles -> Record]
         /\ \A o \in Handles : /\ pub'[o].guid = pub[o].guid /\ pub'[o].config = pub[o].config
                              /\ pub'[o].dropped = pub[o].dropped
         /\ \A o \in Handles \ {h} :
              /\ pub'[o].at = pub[o].at /\ pub'[o].sub = pub[o].sub
              /\ pub'[o].forwarder = pub[o].forwarder
              /\ \/ pub'[o] = pub[o]
                 \/ Alive(o) /\ At(h, "publish") /\ pub'[o].child \in {"exited", "failed"}
<1>0. pub \in [Handles -> Record] /\ UNCHANGED <<table, fresh, spawned>>
  BY DEF TypeOK, Record, TaskStep
<1>1. pub' \in [Handles -> Record]
  BY TaskType DEF TypeOK, Record
<1>2. ASSUME NEW place, Go(h, place)
      PROVE  /\ \A o \in Handles \ {h} : pub'[o] = pub[o]
             /\ pub'[h].guid = pub[h].guid /\ pub'[h].config = pub[h].config
             /\ pub'[h].dropped = pub[h].dropped
  BY <1>0, <1>2 DEF Go, Record
<1>3. CASE Begin(h) \/ PortIsBound(h) \/ FailedBefore(h) \/ Fails(h)
  <2>1. /\ \A o \in Handles \ {h} : pub'[o] = pub[o]
        /\ pub'[h].guid = pub[h].guid /\ pub'[h].config = pub[h].config
        /\ pub'[h].dropped = pub[h].dropped
    BY <1>0, <1>3 DEF Begin, PortIsBound, FailedBefore, Fails, Record
  <2> QED
    BY <1>0, <1>1, <2>1
<1>4. CASE Setup(h) \/ SayOnline(h) \/ Cancel(h)
  <2>1. \E place : Go(h, place)
    BY <1>4 DEF Setup, AlreadyInstalled, Install, Fetch, Fetched, Unpacked, TarIsKilled, Mark,
                SayOnline, Cancel
  <2> QED
    BY <1>0, <1>1, <1>2, <2>1
<1>5. CASE Publish(h)
  <2>1. PICK killed, ends : Starts(h, killed, ends)
          /\ (killed = {} \/ (killed \subseteq OldServers(h) /\ ends \in {"exited", "failed"}))
    BY <1>5 DEF Publish, StartHttpd, StartMinecraft
  <2>2. ASSUME NEW o \in Handles \ {h}
        PROVE  \/ pub'[o] = pub[o]
               \/ /\ Alive(o) /\ pub'[o] = [pub[o] EXCEPT !.child = ends]
                  /\ ends \in {"exited", "failed"}
    BY <2>1 DEF Starts, OldServers
  <2>3. ASSUME NEW o \in Handles \ {h}
        PROVE  /\ pub'[o].at = pub[o].at /\ pub'[o].sub = pub[o].sub
               /\ pub'[o].forwarder = pub[o].forwarder
               /\ pub'[o].guid = pub[o].guid /\ pub'[o].config = pub[o].config
              /\ pub'[o].dropped = pub[o].dropped
               /\ pub'[o].dropped = pub[o].dropped
               /\ \/ pub'[o] = pub[o]
                  \/ Alive(o) /\ pub'[o].child \in {"exited", "failed"}
    <3>1. CASE pub'[o] = pub[o]
      BY <3>1
    <3>2. CASE /\ Alive(o) /\ pub'[o] = [pub[o] EXCEPT !.child = ends]
               /\ ends \in {"exited", "failed"}
      <4>1. pub[o] \in Record
        BY <1>0
      <4>2. pub'[o] = [pub[o] EXCEPT !.child = ends]
        BY <3>2
      <4> QED
        BY <3>2, <4>1, <4>2 DEF Record
    <3> QED
      BY <2>2, <3>1, <3>2
  <2>4. /\ pub'[h].guid = pub[h].guid /\ pub'[h].config = pub[h].config
        /\ pub'[h].dropped = pub[h].dropped
    BY <1>0, <2>1 DEF Starts, Record
  <2> QED
    BY <1>0, <1>1, <1>5, <2>3, <2>4 DEF Publish
<1> QED
  BY <1>3, <1>4, <1>5 DEF TaskStep

(* A subprocess and a forwarder change nothing but themselves. *)
LEMMA ChildFrame ==
  ASSUME TypeOK, NEW h \in Handles, ChildStep(h)
  PROVE  /\ UNCHANGED <<table, fresh, spawned, lock, disk>>
         /\ \A o \in Handles :
              /\ pub'[o].guid = pub[o].guid /\ pub'[o].config = pub[o].config
              /\ pub'[o].dropped = pub[o].dropped
              /\ pub'[o].at = pub[o].at /\ pub'[o].sub = pub[o].sub
         /\ \A o \in Handles \ {h} : pub'[o] = pub[o]
         /\ \/ /\ Alive(h) \/ pub[h].child = "failed"
               /\ pub'[h].forwarder = pub[h].forwarder /\ shown' = shown
               /\ pub'[h].child \in {"starting", "serving"} => Alive(h)
            \/ ForwarderEnds(h) /\ pub'[h].child = pub[h].child /\ pub'[h].forwarder = "done"
<1>0. pub \in [Handles -> Record] /\ UNCHANGED <<table, fresh, spawned>>
  BY DEF TypeOK, Record, ChildStep
<1>1. CASE Binds(h) \/ Exits(h) \/ Reports(h) \/ Kill(h)
  BY <1>0, <1>1 DEF Binds, Exits, Reports, Kill, ChildIs, Alive, Record
<1>2. CASE ForwarderEnds(h)
  BY <1>0, <1>2 DEF ForwarderEnds, Record
<1> QED
  BY <1>1, <1>2 DEF ChildStep
-----------------------------------------------------------------------------
(* Installation *)
(* The lock is taken before anything is fetched, and kept until the marker   *)
(* stands for a whole tree.                                                   *)
LEMMA InstallStep ==
  ASSUME TypeOK, InstalledUnderLock, MarkedIsWhole, [Next]_vars
  PROVE  InstalledUnderLock' /\ MarkedIsWhole'
<1> USE DEF InstalledUnderLock, MarkedIsWhole, At, Alive, Kind, Installing
<1>0. pub \in [Handles -> Record]
  BY DEF TypeOK, Record
<1>1. CASE UNCHANGED vars
  BY <1>1 DEF vars
<1>2. ASSUME NEW g \in Guids, NEW c \in Configs, EndpointAck(g, c)
      PROVE  InstalledUnderLock' /\ MarkedIsWhole'
  <2>1. /\ UNCHANGED <<lock, disk>> /\ pub'[spawned + 1].at = "begin"
        /\ pub'[spawned + 1].child = "none"
        /\ \A h \in Handles : h # spawned + 1 => pub'[h] = pub[h]
    BY <1>2, Spawning DEF EndpointAck, Spawn
  <2> QED
    BY <2>1
<1>3. ASSUME NEW hs, DropHandles(hs), UNCHANGED <<lock, disk>>
      PROVE  InstalledUnderLock' /\ MarkedIsWhole'
  BY <1>0, <1>3, Dropping
<1>4. CASE Control
  BY <1>2, <1>3, <1>4 DEF Control, Insert, Remove, Clear
<1>5. ASSUME NEW h \in Handles, TaskStep(h)
      PROVE  InstalledUnderLock' /\ MarkedIsWhole'
  <2>0. /\ pub' \in [Handles -> Record]
        /\ \A o \in Handles : pub'[o].guid = pub[o].guid
        /\ \A o \in Handles \ {h} :
              /\ pub'[o].at = pub[o].at
              /\ pub'[o].child = pub[o].child \/ pub'[o].child \in {"exited", "failed"}
    BY <1>5, TaskFrame
  <2>1. \A o \in Handles \ {h} : lock = o => lock' = o
    <3>1. lock' \in {lock, IF lock = h THEN 0 ELSE lock} \/ lock = 0
      BY <1>5 DEF TaskStep, Begin, Setup, AlreadyInstalled, Install, Fetch, Fetched, Unpacked,
         TarIsKilled, Mark, Unlock, Publish, PortIsBound, FailedBefore, SayOnline, Fails, Cancel
    <3> QED
      BY <3>1 DEF Handles
  <2>2. CASE Begin(h) \/ SayOnline(h) \/ Fails(h) \/ Cancel(h) \/ PortIsBound(h) \/ FailedBefore(h)
    <3>1. pub'[h].at \in {"enter", "ended", "online"} /\ pub'[h].child = pub[h].child
          /\ disk' = disk
      BY <1>0, <2>2 DEF Begin, SayOnline, Fails, Cancel, PortIsBound, FailedBefore, Go, Record
    <3> QED
      BY <2>0, <2>1, <3>1
  <2>3. CASE Setup(h)
    <3>1. pub'[h].child = pub[h].child
      BY <1>0, <2>3 DEF Setup, AlreadyInstalled, Install, Fetch, Fetched, Unpacked, TarIsKilled,
                        Mark, Go, Record
    <3>2. Kind(h) \in {"httpd", "jar"} /\ disk \in [Kinds -> SUBSET Files]
          /\ "httpd" \in Kinds /\ h # 0
      BY <1>0, KindsAreKnown DEF Record, Kinds, TypeOK, Handles
    <3>3. CASE AlreadyInstalled(h)
      <4>1. pub'[h].at = "publish" /\ "marker" \in disk[Kind(h)] /\ UNCHANGED <<lock, disk>>
        BY <1>0, <3>3 DEF AlreadyInstalled, Go, Record
      <4> QED
        BY <2>0, <3>1, <4>1
    <3>4. CASE Install(h)
      <4>1. /\ pub'[h].at = "fetch" /\ "marker" \notin disk[Kind(h)] /\ UNCHANGED disk
            /\ Kind(h) = "httpd" => lock' = h
        BY <1>0, <3>4 DEF Install, Go, Record
      <4> QED
        BY <2>0, <2>1, <3>1, <4>1
    <3>5. CASE Fetch(h)
      <4>1. At(h, "fetch") /\ pub'[h].at = "fetching" /\ UNCHANGED <<lock, disk>>
        BY <1>0, <3>5 DEF Fetch, Go, Record
      <4> QED
        BY <2>0, <3>1, <4>1
    <3>6. CASE Fetched(h)
      <4>1. pub[h].at \in {"fetch", "fetching"} /\ pub'[h].at = "unpacking" /\ UNCHANGED lock
        BY <1>0, <3>6 DEF Fetched, Go, Record
      <4>2. /\ "marker" \in disk'["httpd"] <=> "marker" \in disk["httpd"]
            /\ Kind(h) # "httpd" => disk'["httpd"] = disk["httpd"]
        BY <3>2, <3>6 DEF Fetched, Files
      <4> QED
        BY <2>0, <3>1, <4>1, <4>2
    <3>7. CASE Unpacked(h)
      <4>1. At(h, "unpacking") /\ pub'[h].at = "mark" /\ UNCHANGED lock
        BY <1>0, <3>7 DEF Unpacked, Go, Record
      <4>2. /\ "marker" \in disk'["httpd"] <=> "marker" \in disk["httpd"]
            /\ "tree" \in disk["httpd"] \/ Kind(h) = "httpd" => "tree" \in disk'["httpd"]
        BY <3>2, <3>7 DEF Unpacked, Files
      <4> QED
        BY <2>0, <3>1, <4>1, <4>2
    <3>8. CASE TarIsKilled(h)
      <4>1. Kind(h) = "jar" /\ UNCHANGED <<lock, disk>>
        BY <3>8 DEF TarIsKilled
      <4> QED
        BY <2>0, <3>1, <4>1
    <3>9. CASE Mark(h)
      <4>1. At(h, "mark") /\ pub'[h].at = "publish"
        BY <1>0, <3>9 DEF Mark, Go, Record
      <4>2. /\ "tree" \in disk'["httpd"] <=> "tree" \in disk["httpd"]
            /\ "marker" \in disk["httpd"] \/ Kind(h) = "httpd" => "marker" \in disk'["httpd"]
            /\ Kind(h) # "httpd" => disk'["httpd"] = disk["httpd"]
        BY <3>2, <3>9 DEF Mark, Files
      <4> QED
        BY <2>0, <2>1, <3>1, <4>1, <4>2
    <3> QED
      BY <2>3, <3>3, <3>4, <3>5, <3>6, <3>7, <3>8, <3>9 DEF Setup
  <2>4. CASE Publish(h)
    <3>1. pub'[h].at = "poll" /\ At(h, "publish") /\ UNCHANGED <<lock, disk>>
      BY <1>0, <2>4 DEF Publish, StartHttpd, StartMinecraft, Starts, Record
    <3> QED
      BY <2>0, <2>1, <3>1
  <2> QED
    BY <1>5, <2>2, <2>3, <2>4 DEF TaskStep
<1>6. ASSUME NEW h \in Handles, ChildStep(h)
      PROVE  InstalledUnderLock' /\ MarkedIsWhole'
  BY <1>6, ChildFrame
<1> QED
  BY <1>1, <1>4, <1>5, <1>6 DEF Next

LEMMA InitInstall == Init => InstalledUnderLock /\ MarkedIsWhole
<1> SUFFICES ASSUME Init
             PROVE  InstalledUnderLock /\ MarkedIsWhole
  OBVIOUS
<1>1. NoHandle.at = "none" /\ NoHandle.child = "none"
  BY DEF NoHandle
<1>2. \A h \in Handles : pub[h].at = "none" /\ pub[h].child = "none"
  BY <1>1 DEF Init
<1>3. disk["httpd"] = {}
  BY DEF Init, Kinds
<1> QED
  BY <1>2, <1>3 DEF InstalledUnderLock, MarkedIsWhole, At, Alive, Installing

(* However setups overlap, fail and are aborted, the marker of httpd stands  *)
(* for a whole tree, and no httpd runs without one.                          *)
THEOREM InstallationStaysWhole == Spec => []InstallationIsWhole
<1>1. Init => TypeOK /\ InstalledUnderLock /\ MarkedIsWhole
  BY InitType, InitInstall
<1>2. TypeOK /\ InstalledUnderLock /\ MarkedIsWhole /\ [Next]_vars
        => (TypeOK /\ InstalledUnderLock /\ MarkedIsWhole)'
  BY TypeStep, InstallStep
<1>3. TypeOK /\ InstalledUnderLock /\ MarkedIsWhole => InstallationIsWhole
  BY DEF InstalledUnderLock, MarkedIsWhole, InstallationIsWhole
<1> QED
  BY <1>1, <1>2, <1>3, PTL DEF Spec
-----------------------------------------------------------------------------
(* The order of handles, and duplicates. *)

(* Handles are spawned in order. *)
LEMMA OrderStep ==
  ASSUME TypeOK, SpawnedInOrder, [Next]_vars
  PROVE  SpawnedInOrder'
<1>0. pub \in [Handles -> Record] /\ spawned \in Nat /\ fresh \in Nat
      /\ \A g \in Guids : table[g] \in Nat
  BY BoundIsPositive DEF TypeOK, Record
<1>a. NoHandle.at = "none" /\ NoHandle.child = "none" /\ NoHandle.forwarder = "none"
  BY DEF NoHandle
<1>1. CASE UNCHANGED vars
  BY <1>1 DEF vars, SpawnedInOrder
<1>2. ASSUME NEW g \in Guids, NEW c \in Configs, EndpointAck(g, c)
      PROVE  SpawnedInOrder'
  <2>1. spawned' = spawned + 1 /\ fresh' = spawned + 1 /\ table' = table
    BY <1>2 DEF EndpointAck, Spawn
  <2> QED
    BY <1>0, <1>2, <2>1, Spawning DEF SpawnedInOrder, Handles
<1>3. ASSUME NEW hs, DropHandles(hs), spawned' = spawned,
             \A h \in Handles : h \in hs => h <= spawned
      PROVE  \A h \in Handles : h > spawned' => pub'[h] = NoHandle
  BY <1>0, <1>3 DEF SpawnedInOrder, DropHandles, Handles
<1>4. CASE Insert
  <2>1. \A h \in Handles : h > spawned' => pub'[h] = NoHandle
    <3>1. pub[fresh].guid \in Guids
      BY <1>4 DEF Insert, TypeOK, Handles
    <3>2. \A h \in Handles : h \in {table[pub[fresh].guid]} => h <= spawned
      BY <3>1 DEF SpawnedInOrder
    <3> QED
      BY <1>3, <1>4, <3>2 DEF Insert
  <2> QED
    BY <1>0, <1>4, <2>1 DEF Insert, SpawnedInOrder, TypeOK
<1>5. ASSUME NEW g \in Guids, Remove(g)
      PROVE  SpawnedInOrder'
  <2>1. \A h \in Handles : h > spawned' => pub'[h] = NoHandle
    BY <1>3, <1>5 DEF Remove, SpawnedInOrder
  <2> QED
    BY <1>0, <1>5, <2>1 DEF Remove, SpawnedInOrder, TypeOK
<1>6. CASE Clear
  <2>1. \A h \in Handles : h > spawned' => pub'[h] = NoHandle
    BY <1>3, <1>6 DEF Clear, SpawnedInOrder
  <2> QED
    BY <1>0, <1>6, <2>1 DEF Clear, SpawnedInOrder
<1>7. ASSUME NEW h \in Handles, TaskStep(h)
      PROVE  SpawnedInOrder'
  <2>1. ~At(h, "none")
    BY <1>7 DEF TaskStep, Begin, Setup, AlreadyInstalled, Install, Fetch, Fetched, Unpacked, At,
       TarIsKilled, Mark, Publish, PortIsBound, FailedBefore, SayOnline, Fails, Cancel, MayFail
  <2>2. \A o \in Handles : o > spawned => o # h /\ ~Alive(o)
    BY <1>a, <2>1 DEF SpawnedInOrder, At, Alive
  <2> QED
    BY <1>7, <2>2, TaskFrame DEF SpawnedInOrder
<1>8. ASSUME NEW h \in Handles, ChildStep(h)
      PROVE  SpawnedInOrder'
  <2>1. pub[h].child # "none" \/ pub[h].forwarder # "none"
    BY <1>8 DEF ChildStep, Binds, Exits, Reports, Kill, ForwarderEnds, Alive
  <2>2. \A o \in Handles : o > spawned => o # h
    BY <1>a, <2>1 DEF SpawnedInOrder
  <2> QED
    BY <1>8, <2>2, ChildFrame DEF SpawnedInOrder
<1> QED
  BY <1>1, <1>2, <1>4, <1>5, <1>6, <1>7, <1>8 DEF Next, Control

(* The handle to be inserted is no duplicate of one that serves. *)
LEMMA DuplicateStep ==
  ASSUME TypeOK, SpawnedInOrder, FreshIsNoDuplicate, [Next]_vars
  PROVE  FreshIsNoDuplicate'
<1> USE DEF FreshIsNoDuplicate, Dead, At, SameConfig
<1>0. /\ pub \in [Handles -> Record] /\ spawned \in Nat
      /\ table \in [Guids -> 0 .. MaxSpawns] /\ fresh \in 0 .. MaxSpawns
      /\ \A i \in 0 .. MaxSpawns : i # 0 <=> i \in Handles
  BY BoundIsPositive DEF TypeOK, Record, Handles
<1>1. CASE UNCHANGED vars
  BY <1>1 DEF vars
<1>2. ASSUME NEW g \in Guids, NEW c \in Configs, EndpointAck(g, c)
      PROVE  FreshIsNoDuplicate'
  <2>1. fresh' = spawned + 1 /\ table' = table /\ ~AlreadyRunning(g, c)
    BY <1>2 DEF EndpointAck, Spawn
  <2>2. table[g] # 0 => table[g] \in Handles /\ pub'[table[g]] = pub[table[g]]
    BY <1>0, <1>2, Spawning DEF SpawnedInOrder
  <2>3. pub'[fresh'].guid = g /\ pub'[fresh'].config = c
    BY <1>2, <2>1, Spawning
  <2>4. table[g] # 0 => Dead(table[g]) \/ pub[table[g]].config # c
    BY <2>1 DEF AlreadyRunning, IsHealthy
  <2> QED
    BY <2>1, <2>2, <2>3, <2>4
<1>3. CASE Insert \/ Clear \/ \E g \in Guids : Remove(g)
  BY <1>3 DEF Insert, Clear, Remove
<1>4. ASSUME UNCHANGED <<table, fresh>>,
             \A o \in Handles : pub'[o].guid = pub[o].guid /\ pub'[o].config = pub[o].config,
             \A o \in Handles : Dead(o) => Dead(o)'
      PROVE  FreshIsNoDuplicate'
  <2>1. SUFFICES ASSUME fresh # 0, table[pub[fresh].guid] # 0
                 PROVE  \/ Dead(table[pub[fresh].guid])'
                        \/ pub'[table[pub[fresh].guid]].config # pub'[fresh].config
    BY <1>0, <1>4
  <2>2. fresh \in Handles /\ table[pub[fresh].guid] \in Handles
    BY <1>0, <2>1 DEF Record
  <2> QED
    BY <1>4, <2>1, <2>2
<1>5. ASSUME NEW h \in Handles, TaskStep(h)
      PROVE  FreshIsNoDuplicate'
  <2>1. ~At(h, "ended")
    BY <1>5 DEF TaskStep, Begin, Setup, AlreadyInstalled, Install, Fetch, Fetched, Unpacked,
       TarIsKilled, Mark, Publish, PortIsBound, FailedBefore, SayOnline, Fails, Cancel, MayFail
  <2>2. \A o \in Handles : Dead(o) => Dead(o)'
    BY <1>5, <2>1, TaskFrame DEF Alive
  <2> QED
    BY <1>4, <1>5, <2>2, TaskFrame
<1>6. ASSUME NEW h \in Handles, ChildStep(h)
      PROVE  FreshIsNoDuplicate'
  <2>1. \A o \in Handles : Dead(o) => Dead(o)'
    BY <1>6, ChildFrame DEF Alive
  <2> QED
    BY <1>4, <1>6, <2>1, ChildFrame
<1> QED
  BY <1>1, <1>2, <1>3, <1>5, <1>6 DEF Next, Control
-----------------------------------------------------------------------------
LEMMA InitIInv == Init => IInv
<1> SUFFICES ASSUME Init
             PROVE  IInv
  OBVIOUS
<1>1. SpawnedInOrder
  BY DEF Init, SpawnedInOrder
<1>2. FreshIsNoDuplicate
  BY DEF Init, FreshIsNoDuplicate
<1> QED
  BY <1>1, <1>2, InitType, InitInstall DEF IInv

LEMMA IInvStep == IInv /\ [Next]_vars => IInv'
BY TypeStep, InstallStep, OrderStep, DuplicateStep DEF IInv

(* Whatever the server repeats, a publication that is being set up or serves *)
(* is replaced only by one of another configuration.                         *)
THEOREM DuplicatesAreIgnored == Spec => DuplicatesNeverBounce
<1>1. IInv /\ [Next]_vars =>
        [\A g \in Guids : LET old == table[g]  new == table'[g] IN
           /\ old # 0 /\ new \notin {0, old}
           /\ ~At(old, "ended") \/ (pub[old].sub = "slot" /\ pub[old].child = "serving")
           => pub[new].config # pub[old].config]_vars
  <2> SUFFICES ASSUME IInv, Next, NEW g \in Guids, table[g] # 0, table'[g] \notin {0, table[g]},
                      \/ ~At(table[g], "ended")
                      \/ pub[table[g]].sub = "slot" /\ pub[table[g]].child = "serving"
               PROVE  pub[table'[g]].config # pub[table[g]].config
    OBVIOUS
  <2>1. Insert
    BY TaskFrame, ChildFrame DEF Next, Control, EndpointAck, Spawn, Remove, Clear, IInv, TypeOK
  <2>2. table'[g] = fresh /\ g = pub[fresh].guid /\ fresh # 0
    BY <2>1 DEF Insert, IInv, TypeOK
  <2> QED
    BY <2>2 DEF IInv, FreshIsNoDuplicate, Dead, SameConfig, At
<1> QED
  BY <1>1, InitIInv, IInvStep, PTL DEF Spec, DuplicatesNeverBounce
-----------------------------------------------------------------------------
(* The statuses. *)

(* Only what is not in the table is dropped, and what replaces it is new. *)
LEMMA TableStep ==
  ASSUME TypeOK, SpawnedInOrder, TableIsLive, [Next]_vars
  PROVE  TableIsLive'
<1>0. /\ pub \in [Handles -> Record] /\ spawned \in Nat
      /\ table \in [Guids -> 0 .. MaxSpawns] /\ fresh \in 0 .. MaxSpawns
      /\ \A i \in 0 .. MaxSpawns : i # 0 <=> i \in Handles
      /\ NoHandle.dropped = FALSE
  BY BoundIsPositive DEF TypeOK, Record, Handles, NoHandle
<1>1. CASE UNCHANGED vars
  BY <1>1 DEF vars, TableIsLive
<1>2. ASSUME NEW g \in Guids, NEW c \in Configs, EndpointAck(g, c)
      PROVE  TableIsLive'
  <2>1. fresh' = spawned + 1 /\ table' = table /\ spawned + 1 \in Handles
    BY <1>2, Spawning DEF EndpointAck, Spawn
  <2>2. ~pub'[spawned + 1].dropped
    BY <1>0, <1>2, <2>1 DEF EndpointAck, Spawn, NoHandle
  <2>3. \A i \in Guids : table[i] # spawned + 1
    BY <1>0 DEF SpawnedInOrder
  <2>4. \A h \in Handles : h # spawned + 1 => pub'[h] = pub[h]
    BY <1>2, Spawning
  <2> QED
    BY <1>0, <2>1, <2>2, <2>3, <2>4 DEF TableIsLive
<1>3. CASE Insert
  <2> DEFINE g == pub[fresh].guid
  <2>1. fresh \in Handles /\ g \in Guids
    BY <1>0, <1>3 DEF Insert, Record
  <2>2. fresh' = 0 /\ table' = [table EXCEPT ![g] = fresh] /\ DropHandles({table[g]})
    BY <1>3 DEF Insert
  <2>3. /\ \A h \in Handles : h # table[g] => pub'[h] = pub[h]
        /\ fresh # table[g]
    BY <1>3, <2>1, <2>2 DEF DropHandles, Insert, TableIsLive
  <2>4. ASSUME NEW i \in Guids, i # g, table[i] # 0
        PROVE  table[i] \in Handles /\ table[i] # table[g]
    BY <1>0, <2>1, <2>4 DEF TableIsLive
  <2> QED
    BY <1>0, <1>3, <2>1, <2>2, <2>3, <2>4 DEF TableIsLive, Insert
<1>4. ASSUME NEW g \in Guids, Remove(g)
      PROVE  TableIsLive'
  <2>1. /\ fresh' = 0 /\ table' = [table EXCEPT ![g] = 0]
        /\ \A h \in Handles : h # table[g] => pub'[h] = pub[h]
    BY <1>4 DEF Remove, DropHandles
  <2> QED
    BY <1>0, <1>4, <2>1 DEF TableIsLive
<1>5. CASE Clear
  BY <1>5 DEF Clear, TableIsLive
<1>6. ASSUME NEW h \in Handles, TaskStep(h) \/ ChildStep(h)
      PROVE  TableIsLive'
  <2>1. /\ UNCHANGED <<table, fresh>>
        /\ \A o \in Handles : pub'[o].guid = pub[o].guid /\ pub'[o].dropped = pub[o].dropped
    BY <1>6, TaskFrame, ChildFrame
  <2> QED
    BY <1>0, <2>1 DEF TableIsLive
<1> QED
  BY <1>1, <1>2, <1>3, <1>4, <1>5, <1>6 DEF Next, Control

(* A task says online at its end, or leaves nothing that serves. *)
LEMMA WordStep ==
  ASSUME TypeOK, SpawnedInOrder, LastWord, [Next]_vars
  PROVE  LastWord'
<1> USE DEF At, Alive
<1>0. /\ pub \in [Handles -> Record] /\ spawned \in Nat
      /\ \A g \in Guids : shown[g].by \in 0 .. MaxSpawns
      /\ \A i \in 0 .. MaxSpawns : i # 0 <=> i \in Handles
      /\ shown \in [Guids -> [status : Statuses, by : 0 .. MaxSpawns]]
      /\ NoHandle.at = "none"
  BY BoundIsPositive DEF TypeOK, Record, Handles, NoHandle
<1>1. CASE UNCHANGED vars
  BY <1>1 DEF vars, LastWord
<1>2. ASSUME NEW g \in Guids, NEW c \in Configs, EndpointAck(g, c)
      PROVE  LastWord'
  <2>1. shown' = shown /\ \A h \in Handles : h # spawned + 1 => pub'[h] = pub[h]
    BY <1>2, Spawning DEF EndpointAck, Spawn
  <2>2. \A i \in Guids : shown[i].by # spawned + 1 \/ shown[i].by = 0
    BY <1>0 DEF LastWord, SpawnedInOrder
  <2> QED
    BY <1>0, <2>1, <2>2 DEF LastWord
<1>3. ASSUME NEW hs, DropHandles(hs), UNCHANGED shown
      PROVE  LastWord'
  <2>1. \A h \in Handles : pub[h].dropped => pub'[h].dropped
    BY <1>0, <1>3 DEF DropHandles, Record
  <2> QED
    BY <1>0, <1>3, <2>1, Dropping DEF LastWord
<1>4. CASE Insert \/ Clear \/ \E g \in Guids : Remove(g)
  BY <1>3, <1>4 DEF Insert, Clear, Remove
<1>5. ASSUME NEW h \in Handles, TaskStep(h)
      PROVE  LastWord'
  <2>0. /\ pub' \in [Handles -> Record] /\ ~At(h, "ended") /\ ~At(h, "none")
        /\ \A o \in Handles : pub'[o].guid = pub[o].guid /\ pub'[o].dropped = pub[o].dropped
        /\ \A o \in Handles \ {h} :
             /\ pub'[o].at = pub[o].at /\ pub'[o].sub = pub[o].sub
             /\ pub'[o].child = pub[o].child \/ pub'[o].child \in {"exited", "failed"}
    BY <1>5, TaskFrame DEF TaskStep, Begin, Setup, AlreadyInstalled, Install, Fetch, Fetched,
       Unpacked, TarIsKilled, Mark, Publish, PortIsBound, FailedBefore, SayOnline, Fails, Cancel,
       MayFail
  <2>a. \A place : Go(h, place) => pub'[h].at = place
    BY <1>0 DEF Go
  <2>b. Setup(h) => pub'[h].at \in {"publish", "fetch", "fetching", "unpacking", "mark"}
    BY <2>a DEF Setup, AlreadyInstalled, Install, Fetch, Fetched, Unpacked, TarIsKilled, Mark
  <2>c. Publish(h) => pub'[h].at = "poll"
    <3>1. ASSUME NEW killed, NEW ends, Starts(h, killed, ends)
          PROVE  pub'[h].at = "poll"
      BY <1>0, <3>1 DEF Starts, Record
    <3> QED
      BY <3>1 DEF Publish, StartHttpd, StartMinecraft
  <2>d. PortIsBound(h) \/ FailedBefore(h) => pub'[h].at = "online"
    BY <1>0 DEF PortIsBound, FailedBefore, Record
  <2>1. pub'[h].at # "none"
    <3>1. CASE Begin(h) \/ Fails(h)
      BY <1>0, <3>1 DEF Begin, Fails, Record
    <3>2. CASE SayOnline(h) \/ Cancel(h)
      BY <2>a, <3>2 DEF SayOnline, Cancel
    <3> QED
      BY <1>5, <2>b, <2>c, <2>d, <3>1, <3>2 DEF TaskStep
  <2>2. ASSUME NEW status \in {"waiting", "online"}, Say(h, status),
               status = "online" \/ pub'[h].at # "ended"
        PROVE  LastWord'
    <3>1. pub[h].guid \in Guids
      BY <1>0 DEF Record
    <3>2. /\ shown'[pub[h].guid].status = status /\ shown'[pub[h].guid].by = h
          /\ \A g \in Guids : g # pub[h].guid => shown'[g] = shown[g]
      BY <1>0, <2>2, <3>1 DEF Say
    <3>3. ASSUME NEW g \in Guids, g # pub[h].guid, shown[g].by # 0
          PROVE  shown[g].by \in Handles \ {h}
      BY <1>0, <3>3 DEF LastWord
    <3> QED
      BY <1>0, <2>0, <2>1, <2>2, <3>1, <3>2, <3>3 DEF LastWord
  <2>3. ASSUME shown' = shown,
               \/ pub'[h].at # "ended" \/ pub'[h].sub # "slot" \/ pub'[h].dropped
        PROVE  LastWord'
    BY <1>0, <2>0, <2>1, <2>3 DEF LastWord
  <2>4. CASE Begin(h)
    <3>1. pub'[h].at = "enter"
      BY <1>0, <2>4 DEF Begin, Record
    <3> QED
      BY <2>2, <2>4, <3>1 DEF Begin
  <2>5. CASE SayOnline(h)
    BY <2>2, <2>5 DEF SayOnline
  <2>6. CASE Setup(h) \/ Publish(h) \/ PortIsBound(h) \/ FailedBefore(h)
    <3>1. shown' = shown
      BY <2>6 DEF Setup, AlreadyInstalled, Install, Fetch, Fetched, Unpacked, TarIsKilled,
                  Mark, Publish, PortIsBound, FailedBefore
    <3> QED
      BY <2>3, <2>6, <2>b, <2>c, <2>d, <3>1
  <2>7. CASE Fails(h) \/ Cancel(h)
    <3>1. (pub'[h].sub # "slot" \/ pub[h].dropped) /\ shown' = shown
      BY <1>0, <2>7 DEF Fails, Cancel, Record
    <3> QED
      BY <2>0, <2>3, <3>1
  <2> QED
    BY <1>5, <2>4, <2>5, <2>6, <2>7 DEF TaskStep
<1>6. ASSUME NEW h \in Handles, ChildStep(h)
      PROVE  LastWord'
  <2>1. CASE ForwarderEnds(h)
    <3>1. pub[h].guid \in Guids
      BY <1>0 DEF Record
    <3>2. /\ shown'[pub[h].guid].by = h /\ ~Alive(h) /\ At(h, "ended")
          /\ \A g \in Guids : g # pub[h].guid => shown'[g] = shown[g]
      BY <1>0, <2>1, <3>1 DEF Say, ForwarderEnds
    <3>3. \A o \in Handles :
            /\ pub'[o].guid = pub[o].guid /\ pub'[o].dropped = pub[o].dropped
            /\ pub'[o].at = pub[o].at /\ pub'[o].sub = pub[o].sub
            /\ pub'[o].child = pub[o].child
      BY <1>0, <2>1 DEF ForwarderEnds, Record
    <3> QED
      BY <1>0, <3>1, <3>2, <3>3 DEF LastWord
  <2>2. CASE ~ForwarderEnds(h)
    BY <1>0, <1>6, <2>2, ChildFrame DEF LastWord
  <2> QED
    BY <2>1, <2>2
<1> QED
  BY <1>1, <1>2, <1>4, <1>5, <1>6 DEF Next, Control

(* What serves is shown online, unless another handle of its endpoint spoke  *)
(* last: nobody takes back his own word while his server runs.               *)
THEOREM OwnWordStands == Spec => []OnlyOthersHideIt
<1> DEFINE WInv == TypeOK /\ SpawnedInOrder /\ TableIsLive /\ LastWord
<1>1. Init => WInv
  BY InitIInv DEF Init, IInv, TableIsLive, LastWord
<1>2. WInv /\ [Next]_vars => WInv'
  BY TypeStep, OrderStep, TableStep, WordStep
<1>3. WInv => OnlyOthersHideIt
  BY DEF OnlyOthersHideIt, Serves, TableIsLive, LastWord, Alive
<1> QED
  BY <1>1, <1>2, <1>3, PTL DEF Spec
=============================================================================
