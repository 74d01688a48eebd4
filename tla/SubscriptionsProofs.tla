------------------------- MODULE SubscriptionsProofs -------------------------
(***************************************************************************)
(* Proofs about Subscriptions for any number of subscriptions, DELETE      *)
(* handlers, process ids, crashes and failed writes.  The invariant says   *)
(* where the parts of the manager must be relative to each other: a        *)
(* subscription and its process (SubLink), a DELETE and the process it     *)
(* ends (DeleteLink), the daemon (DaemonLink), and the recovery against    *)
(* the pid file and the orphans on it (RecoveryLink).                      *)
(***************************************************************************)
EXTENDS Subscriptions, TLAPS

\* start() has put the subscription into the registry.
Known == {"registered", "adding", "started", "failed"}

DeletingType ==
    [Deleters -> [at: {"idle", "found", "waiting", "ended", "marked", "removing", "stopped"},
                  sub: Subs \cup {NoSub}]]

SubsTypeOK ==
    /\ starting \in [Subs -> {"unused", "spawned", "lost"} \cup Known]
    /\ pid \in [Subs -> Pids \cup {NoPid}]
    /\ child \in [Subs -> {"none", "running", "exited", "reaped"}]
    /\ reader \in [Subs -> {"none", "reading", "ended", "dead"}]
    /\ deleting \in DeletingType
    /\ registered \subseteq Subs /\ stopped \subseteq Subs /\ tracked \subseteq Subs
    /\ target \in [at: {"none", "inspected", "terminated"}, pid: Pids \cup {NoPid}]
    /\ daemon \in {"up", "down", "recovering"}

SubLink(s) ==
    /\ starting[s] = "unused" <=> child[s] = "none"
    /\ starting[s] = "unused" <=> pid[s] = NoPid
    /\ starting[s] = "unused" => reader[s] = "none"
    /\ s \in registered => starting[s] \in Known
    /\ starting[s] \in Known /\ child[s] = "running" => s \in registered
    /\ s \in stopped => child[s] \in {"exited", "reaped"}
    /\ starting[s] = "adding" <=> lock = s

DeleteLink(d) ==
    /\ deleting[d].at # "idle" => deleting[d].sub \in Subs /\ child[deleting[d].sub] # "none"
    /\ deleting[d].at \in {"ended", "marked", "removing", "stopped"} =>
          child[deleting[d].sub] \in {"exited", "reaped"}
    /\ deleting[d].at = "removing" <=> lock = d

\* Nothing of the manager outlives the daemon, and only a recovery has work to do.
DaemonLink ==
    /\ daemon # "up" =>
          /\ registered = {} /\ stopped = {} /\ lock = Nobody
          /\ \A s \in Subs : starting[s] \in {"unused", "lost"}
          /\ \A d \in Deleters : deleting[d].at = "idle"
    /\ daemon # "recovering" => todo = {} /\ target = NoTarget

\* The orphans a recovery owes an end.
Owed == tracked \cap Recognised

\* An orphan on file when a daemon started, if the check can recognise it, stays
\* on file until one listens, and the recovery deals with no id but those at which
\* its check has found such orphans.
RecoveryLink ==
    /\ \A s \in tracked : starting[s] = "lost"
    /\ daemon = "up" => \A s \in Owed : child[s] # "running"
    /\ daemon # "up" => \A s \in Owed : child[s] = "running" => pid[s] \in file
    /\ daemon = "recovering" =>
          /\ \A s \in Owed : child[s] = "running" => pid[s] \in todo \/ pid[s] = target.pid
          /\ \A s \in Orphans : pid[s] \in todo => s \in tracked
    /\ ours \subseteq tracked
    /\ target.at # "none" => \E s \in ours : pid[s] = target.pid
    /\ harmed \subseteq {pid[s] : s \in ours}

SubsInv ==
    /\ SubsTypeOK
    /\ \A s \in Subs : SubLink(s)
    /\ \A d \in Deleters : DeleteLink(d)
    /\ DaemonLink
    /\ RecoveryLink
    /\ LiveIsOnFile

USE SubsAssumption DEF Known, DeletingType, Owed

-----------------------------------------------------------------------------
LEMMA SubsInitInv == Init => SubsInv
<1> SUFFICES ASSUME Init PROVE SubsInv
  OBVIOUS
<1> USE DEF Init
<1>1. SubsTypeOK
  BY DEF SubsTypeOK, Idle, NoTarget
<1>2. ASSUME NEW s \in Subs PROVE SubLink(s)
  BY DEF SubLink
<1>3. ASSUME NEW d \in Deleters PROVE DeleteLink(d)
  BY DEF DeleteLink, Idle
<1>4. DaemonLink /\ RecoveryLink /\ LiveIsOnFile
  BY DEF DaemonLink, RecoveryLink, LiveIsOnFile, NoTarget
<1> QED BY <1>1, <1>2, <1>3, <1>4 DEF SubsInv

-----------------------------------------------------------------------------
(* The operating system.                                                   *)

LEMMA ExitsInv ==
    ASSUME SubsInv, NEW s \in Subs, Exits(s)
    PROVE  SubsInv'
<1> DEFINE ended == IF starting[s] = "lost" THEN "reaped" ELSE "exited"
<1>1. /\ child[s] = "running" /\ child' = [child EXCEPT ![s] = ended]
      /\ ended \in {"exited", "reaped"}
      /\ UNCHANGED <<starting, pid, reader, registered, stopped, deleting, file, lock,
                     daemon, todo, target, tracked, ours, harmed, spoiled>>
  BY DEF Exits, boot, recovery
<1> HIDE DEF ended
<1>2. SubsTypeOK'
  BY <1>1 DEF SubsInv, SubsTypeOK
<1>3. child'[s] \in {"exited", "reaped"} /\ \A u \in Subs \ {s} : child'[u] = child[u]
  BY <1>1 DEF SubsInv, SubsTypeOK
<1>4. ASSUME NEW u \in Subs PROVE SubLink(u)'
  BY <1>1, <1>3 DEF SubsInv, SubLink
<1>5. ASSUME NEW d \in Deleters PROVE DeleteLink(d)'
  BY <1>1, <1>3 DEF SubsInv, DeleteLink
<1>6. DaemonLink' /\ RecoveryLink' /\ LiveIsOnFile'
  BY <1>1, <1>3 DEF SubsInv, SubsTypeOK, DaemonLink, RecoveryLink, LiveIsOnFile, Orphans
<1> QED BY <1>2, <1>4, <1>5, <1>6 DEF SubsInv

\* Other programs, and the stuttering step.
LEMMA KeptInv ==
    ASSUME SubsInv, UNCHANGED <<manager, file, lock, boot>>
    PROVE  SubsInv'
<1>1. UNCHANGED <<starting, pid, child, reader, registered, stopped, deleting, file, lock,
                  daemon, todo, target, tracked, ours, harmed, spoiled>>
  BY DEF manager, boot, recovery
<1>2. SubsTypeOK' /\ DaemonLink' /\ RecoveryLink' /\ LiveIsOnFile'
  BY <1>1 DEF SubsInv, SubsTypeOK, DaemonLink, RecoveryLink, LiveIsOnFile, Orphans
<1>3. \A s \in Subs : SubLink(s)'
  BY <1>1 DEF SubsInv, SubLink
<1>4. \A d \in Deleters : DeleteLink(d)'
  BY <1>1 DEF SubsInv, DeleteLink
<1> QED BY <1>2, <1>3, <1>4 DEF SubsInv

-----------------------------------------------------------------------------
(* start                                                                   *)

LEMMA SpawnInv ==
    ASSUME SubsInv, NEW s \in Subs, Spawn(s)
    PROVE  SubsInv'
<1>1. PICK p \in Pids : pid' = [pid EXCEPT ![s] = p]
  BY DEF Spawn
<1>2. /\ daemon = "up" /\ starting[s] = "unused"
      /\ child' = [child EXCEPT ![s] = "running"]
      /\ starting' = [starting EXCEPT ![s] = "spawned"]
      /\ reader' = [reader EXCEPT ![s] = "reading"]
      /\ UNCHANGED <<registered, stopped, deleting, file, lock, daemon, todo, target, tracked,
                     ours, harmed, spoiled>>
  BY DEF Spawn, boot, recovery
<1>3. SubsTypeOK'
  BY <1>1, <1>2 DEF SubsInv, SubsTypeOK
<1>4. /\ child'[s] = "running" /\ starting'[s] = "spawned" /\ pid'[s] = p
      /\ \A u \in Subs \ {s} : /\ child'[u] = child[u] /\ starting'[u] = starting[u]
                                /\ pid'[u] = pid[u] /\ reader'[u] = reader[u]
  BY <1>1, <1>2 DEF SubsInv, SubsTypeOK
<1>5. ASSUME NEW u \in Subs PROVE SubLink(u)'
  BY <1>2, <1>4 DEF SubsInv, SubLink
<1>6. ASSUME NEW d \in Deleters PROVE DeleteLink(d)'
  BY <1>2, <1>4 DEF SubsInv, DeleteLink, SubLink
<1>7. DaemonLink' /\ RecoveryLink'
  BY <1>2, <1>4 DEF SubsInv, SubsTypeOK, DaemonLink, RecoveryLink, NoTarget
<1>8. LiveIsOnFile'
  BY <1>2, <1>4 DEF SubsInv, SubLink, LiveIsOnFile
<1> QED BY <1>3, <1>5, <1>6, <1>7, <1>8 DEF SubsInv

LEMMA RegisterInv ==
    ASSUME SubsInv, NEW s \in Subs, Register(s)
    PROVE  SubsInv'
<1>1. /\ daemon = "up" /\ starting[s] = "spawned" /\ registered' = registered \cup {s}
      /\ starting' = [starting EXCEPT ![s] = "registered"]
      /\ UNCHANGED <<pid, child, stopped, deleting, file, lock, reader, daemon, todo, target, tracked,
                     ours, harmed, spoiled>>
  BY DEF Register, boot, recovery
<1>2. SubsTypeOK'
  BY <1>1 DEF SubsInv, SubsTypeOK
<1>3. starting'[s] = "registered" /\ \A u \in Subs \ {s} : starting'[u] = starting[u]
  BY <1>1 DEF SubsInv, SubsTypeOK
<1>4. ASSUME NEW u \in Subs PROVE SubLink(u)'
  BY <1>1, <1>3 DEF SubsInv, SubLink
<1>5. ASSUME NEW d \in Deleters PROVE DeleteLink(d)'
  BY <1>1 DEF SubsInv, DeleteLink
<1>6. DaemonLink' /\ RecoveryLink' /\ LiveIsOnFile'
  BY <1>1, <1>3 DEF SubsInv, SubsTypeOK, DaemonLink, RecoveryLink, LiveIsOnFile, NoTarget
<1> QED BY <1>2, <1>4, <1>5, <1>6 DEF SubsInv

LEMMA BeginPidsAddInv ==
    ASSUME SubsInv, NEW s \in Subs, BeginPidsAdd(s)
    PROVE  SubsInv'
<1>1. /\ daemon = "up" /\ starting[s] = "registered" /\ lock = Nobody /\ lock' = s
      /\ starting' = [starting EXCEPT ![s] = "adding"]
      /\ UNCHANGED <<pid, child, registered, stopped, deleting, file, reader, daemon, todo, target,
                     tracked, ours, harmed, spoiled>>
  BY DEF BeginPidsAdd, BeginSave, boot, recovery
<1>2. SubsTypeOK'
  BY <1>1 DEF SubsInv, SubsTypeOK
<1>3. starting'[s] = "adding" /\ \A u \in Subs \ {s} : starting'[u] = starting[u]
  BY <1>1 DEF SubsInv, SubsTypeOK
<1>4. ASSUME NEW u \in Subs PROVE SubLink(u)'
  BY <1>1, <1>3 DEF SubsInv, SubLink
<1>5. ASSUME NEW d \in Deleters PROVE DeleteLink(d)'
  BY <1>1 DEF SubsInv, DeleteLink
<1>6. DaemonLink' /\ RecoveryLink' /\ LiveIsOnFile'
  BY <1>1, <1>3 DEF SubsInv, SubsTypeOK, DaemonLink, RecoveryLink, LiveIsOnFile, NoTarget
<1> QED BY <1>2, <1>4, <1>5, <1>6 DEF SubsInv

\* The end of the rewrite, and the failed one.
LEMMA PidsAddInv ==
    ASSUME SubsInv, NEW s \in Subs, PidsAdd(s) \/ PidsAddFails(s)
    PROVE  SubsInv'
<1>1. /\ lock = s /\ lock' = Nobody /\ starting[s] = "adding"
      /\ \/ /\ starting' = [starting EXCEPT ![s] = "started"]
            /\ file' = file \cup {pid[s]} /\ spoiled' = spoiled
         \/ starting' = [starting EXCEPT ![s] = "failed"] /\ spoiled' = TRUE
      /\ UNCHANGED <<pid, child, registered, stopped, deleting, reader, daemon, todo, target, tracked,
                     ours, harmed>>
  BY DEF PidsAdd, PidsAddFails, EndSave, WriteFails, WithPid, SubsInv, SubLink, boot, recovery
<1>2. daemon = "up"
  BY <1>1 DEF SubsInv, DaemonLink
<1>3. PICK label \in {"started", "failed"} : starting' = [starting EXCEPT ![s] = label]
  BY <1>1
<1>4. SubsTypeOK'
  BY <1>1, <1>3 DEF SubsInv, SubsTypeOK
<1>5. starting'[s] \in {"started", "failed"} /\ \A u \in Subs \ {s} : starting'[u] = starting[u]
  BY <1>3 DEF SubsInv, SubsTypeOK
<1>6. ASSUME NEW u \in Subs PROVE SubLink(u)'
  BY <1>1, <1>5 DEF SubsInv, SubLink
<1>7. ASSUME NEW d \in Deleters PROVE DeleteLink(d)'
  BY <1>1 DEF SubsInv, DeleteLink
<1>8. DaemonLink' /\ RecoveryLink'
  BY <1>1, <1>2, <1>5 DEF SubsInv, SubsTypeOK, DaemonLink, RecoveryLink, NoTarget
<1>9. LiveIsOnFile'
  BY <1>1, <1>5 DEF SubsInv, LiveIsOnFile
<1> QED BY <1>4, <1>6, <1>7, <1>8, <1>9 DEF SubsInv

-----------------------------------------------------------------------------
(* The reader and the reaper.                                              *)

LEMMA ReaderInv ==
    ASSUME SubsInv, NEW s \in Subs, ReaderEnds(s) \/ ReaderDies(s)
    PROVE  SubsInv'
<1>1. /\ daemon = "up" /\ reader[s] = "reading"
      /\ UNCHANGED <<starting, pid, child, registered, deleting, file, lock, daemon, todo,
                     target, tracked, ours, harmed, spoiled>>
  BY DEF ReaderEnds, ReaderDies, boot, recovery
<1>2. PICK label \in {"ended", "dead"} : reader' = [reader EXCEPT ![s] = label]
  BY DEF ReaderEnds, ReaderDies
<1>3. child[s] # "none"
  BY <1>1 DEF SubsInv, SubLink
<1>4. stopped' = stopped \/ (stopped' = stopped \cup {s} /\ child[s] # "running")
  BY DEF ReaderEnds, ReaderDies
<1>5. SubsTypeOK'
  BY <1>1, <1>2, <1>4 DEF SubsInv, SubsTypeOK
<1>6. reader'[s] # "none" /\ \A u \in Subs \ {s} : reader'[u] = reader[u]
  BY <1>2 DEF SubsInv, SubsTypeOK
<1>7. ASSUME NEW u \in Subs PROVE SubLink(u)'
  <2>1. u \in stopped' => child[u] \in {"exited", "reaped"}
    BY <1>3, <1>4 DEF SubsInv, SubsTypeOK, SubLink
  <2>2. starting[u] = "unused" => reader'[u] = "none"
    BY <1>3, <1>6 DEF SubsInv, SubLink
  <2> QED BY <1>1, <2>1, <2>2 DEF SubsInv, SubLink
<1>8. ASSUME NEW d \in Deleters PROVE DeleteLink(d)'
  BY <1>1 DEF SubsInv, DeleteLink
<1>9. DaemonLink' /\ RecoveryLink' /\ LiveIsOnFile'
  BY <1>1 DEF SubsInv, DaemonLink, RecoveryLink, LiveIsOnFile, Orphans
<1> QED BY <1>5, <1>7, <1>8, <1>9 DEF SubsInv

LEMMA ReapInv ==
    ASSUME SubsInv, NEW s \in Subs, Reap(s)
    PROVE  SubsInv'
<1> DEFINE left == IF child[s] = "exited" THEN "reaped" ELSE child[s]
<1>1. /\ daemon = "up" /\ s \in registered /\ s \in stopped
      /\ registered' = registered \ {s} /\ child' = [child EXCEPT ![s] = left]
      /\ UNCHANGED <<starting, pid, stopped, deleting, file, lock, reader, daemon, todo, target,
                     tracked, ours, harmed, spoiled>>
  BY DEF Reap, Forgettable, boot, recovery
<1>2. child[s] \in {"exited", "reaped"} /\ left = "reaped"
  BY <1>1 DEF SubsInv, SubLink
<1> HIDE DEF left
<1>3. SubsTypeOK'
  BY <1>1, <1>2 DEF SubsInv, SubsTypeOK
<1>4. child'[s] = "reaped" /\ \A u \in Subs \ {s} : child'[u] = child[u]
  BY <1>1, <1>2 DEF SubsInv, SubsTypeOK
<1>5. ASSUME NEW u \in Subs PROVE SubLink(u)'
  BY <1>1, <1>2, <1>4 DEF SubsInv, SubLink
<1>6. ASSUME NEW d \in Deleters PROVE DeleteLink(d)'
  BY <1>1, <1>4 DEF SubsInv, DeleteLink
<1>7. DaemonLink' /\ RecoveryLink' /\ LiveIsOnFile'
  BY <1>1, <1>4 DEF SubsInv, SubsTypeOK, DaemonLink, RecoveryLink, LiveIsOnFile, NoTarget
<1> QED BY <1>3, <1>5, <1>6, <1>7 DEF SubsInv

-----------------------------------------------------------------------------
(* stop                                                                    *)

\* A step of DELETE handler d that changes its own place and no more.
LEMMA DeleteMoves ==
    ASSUME SubsInv, NEW d \in Deleters, deleting' \in DeletingType,
           \A e \in Deleters \ {d} : deleting'[e] = deleting[e], DeleteLink(d)',
           \A e \in Deleters \ {d} : lock' = e <=> lock = e,
           \A s \in Subs : lock' = s <=> lock = s,
           daemon = "up",
           UNCHANGED <<starting, pid, child, registered, stopped, file, reader, daemon, todo, target,
                       tracked, ours, harmed, spoiled>>
    PROVE  SubsInv'
<1>1. SubsTypeOK' /\ DaemonLink' /\ RecoveryLink' /\ LiveIsOnFile'
  BY DEF SubsInv, SubsTypeOK, DaemonLink, RecoveryLink, LiveIsOnFile
<1>2. ASSUME NEW s \in Subs PROVE SubLink(s)'
  BY DEF SubsInv, SubLink
<1>3. ASSUME NEW e \in Deleters PROVE DeleteLink(e)'
  BY DEF SubsInv, DeleteLink
<1> QED BY <1>1, <1>2, <1>3 DEF SubsInv

LEMMA LookupInv ==
    ASSUME SubsInv, NEW d \in Deleters, NEW s \in Subs, Lookup(d, s)
    PROVE  SubsInv'
<1>1. /\ daemon = "up" /\ lock = Nobody /\ s \in registered /\ deleting[d].at = "idle"
      /\ deleting' = [deleting EXCEPT ![d] = [at |-> "found", sub |-> s]]
      /\ UNCHANGED <<starting, pid, child, registered, stopped, file, lock, reader, daemon, todo, target,
                     tracked, ours, harmed, spoiled>>
  BY DEF Lookup, boot, recovery
<1>2. deleting'[d].at = "found" /\ deleting'[d].sub = s
      /\ \A e \in Deleters \ {d} : deleting'[e] = deleting[e]
  BY <1>1 DEF SubsInv, SubsTypeOK
<1>3. child[s] # "none"
  BY <1>1 DEF SubsInv, SubLink
<1>4. DeleteLink(d)'
  BY <1>1, <1>2, <1>3 DEF DeleteLink
<1>5. deleting' \in DeletingType
  BY <1>1 DEF SubsInv, SubsTypeOK
<1> QED BY <1>1, <1>2, <1>4, <1>5, DeleteMoves

\* What the handler does to its own place.
LEMMA AtEffect ==
    ASSUME SubsInv, NEW d \in Deleters, deleting[d].at # "idle",
           NEW label \in {"found", "waiting", "ended", "marked", "removing", "stopped"}, At(d, label)
    PROVE  /\ deleting' \in DeletingType
           /\ deleting'[d].at = label /\ deleting'[d].sub = deleting[d].sub
           /\ deleting[d].sub \in Subs
           /\ \A e \in Deleters \ {d} : deleting'[e] = deleting[e]
           /\ daemon = "up"
<1>1. deleting[d].sub \in Subs
  BY DEF SubsInv, DeleteLink
<1>2. daemon = "up"
  BY DEF SubsInv, DaemonLink
<1> QED BY <1>1, <1>2 DEF SubsInv, SubsTypeOK, At

\* A DELETE that ends, or collects, the process.
LEMMA EndsInv ==
    ASSUME SubsInv, NEW d \in Deleters, Terminate(d) \/ Wait(d)
    PROVE  SubsInv'
<1> DEFINE s == deleting[d].sub
<1>1. /\ deleting[d].at \in {"found", "waiting"}
      /\ UNCHANGED <<starting, pid, registered, stopped, file, lock, reader, daemon, todo, target,
                     tracked, ours, harmed, spoiled>>
  BY DEF Terminate, Wait, boot, recovery
<1>2. CASE At(d, "waiting") /\ UNCHANGED child
  <2>1. DeleteLink(d)'
    BY <1>1, <1>2, AtEffect DEF SubsInv, DeleteLink
  <2> QED BY <1>1, <1>2, <2>1, AtEffect, DeleteMoves
<1>3. ASSUME NEW end \in {"exited", "reaped"}, child' = [child EXCEPT ![s] = end], At(d, "ended"),
             end = "reaped" \/ child[s] = "running"
      PROVE  SubsInv'
  <2>1. /\ deleting'[d].at = "ended" /\ deleting'[d].sub = s /\ s \in Subs /\ daemon = "up"
        /\ \A e \in Deleters \ {d} : deleting'[e] = deleting[e]
        /\ deleting' \in DeletingType
    BY <1>1, <1>3, AtEffect
  <2> HIDE DEF s
  <2>2. child'[s] = end /\ (\A u \in Subs \ {s} : child'[u] = child[u])
    BY <1>3, <2>1 DEF SubsInv, SubsTypeOK
  <2>3. SubsTypeOK'
    BY <1>1, <1>3, <2>1 DEF SubsInv, SubsTypeOK
  <2>4. child[s] # "none"
    BY <1>1 DEF SubsInv, DeleteLink, s
  <2>5. ASSUME NEW u \in Subs PROVE SubLink(u)'
    BY <1>1, <2>2, <2>4 DEF SubsInv, SubLink
  <2>6. ASSUME NEW e \in Deleters PROVE DeleteLink(e)'
    BY <1>1, <2>1, <2>2 DEF SubsInv, DeleteLink
  <2>7. DaemonLink' /\ RecoveryLink' /\ LiveIsOnFile'
    BY <1>1, <2>1, <2>2 DEF SubsInv, SubsTypeOK, DaemonLink, RecoveryLink, LiveIsOnFile, NoTarget
  <2> QED BY <2>3, <2>5, <2>6, <2>7 DEF SubsInv
<1>4. CASE Terminate(d)
  BY <1>2, <1>3, <1>4 DEF Terminate
<1>5. CASE Wait(d)
  BY <1>3, <1>5 DEF Wait, Awaited
<1> QED BY <1>4, <1>5

LEMMA MarkStoppedInv ==
    ASSUME SubsInv, NEW d \in Deleters, MarkStopped(d)
    PROVE  SubsInv'
<1> DEFINE s == deleting[d].sub
<1>1. /\ deleting[d].at = "ended" /\ At(d, "marked") /\ stopped' = stopped \cup {s}
      /\ UNCHANGED <<starting, pid, child, registered, file, lock, reader, daemon, todo, target,
                     tracked, ours, harmed, spoiled>>
  BY DEF MarkStopped, boot, recovery
<1>2. /\ deleting'[d].at = "marked" /\ deleting'[d].sub = s /\ s \in Subs /\ daemon = "up"
      /\ \A e \in Deleters \ {d} : deleting'[e] = deleting[e]
      /\ deleting' \in DeletingType
  BY <1>1, AtEffect
<1>3. child[s] \in {"exited", "reaped"}
  BY <1>1 DEF SubsInv, DeleteLink
<1> HIDE DEF s
<1>4. SubsTypeOK'
  BY <1>1, <1>2 DEF SubsInv, SubsTypeOK
<1>5. ASSUME NEW u \in Subs PROVE SubLink(u)'
  BY <1>1, <1>3 DEF SubsInv, SubLink
<1>6. ASSUME NEW e \in Deleters PROVE DeleteLink(e)'
  BY <1>1, <1>2, <1>3 DEF SubsInv, DeleteLink
<1>7. DaemonLink' /\ RecoveryLink' /\ LiveIsOnFile'
  BY <1>1, <1>2 DEF SubsInv, DaemonLink, RecoveryLink, LiveIsOnFile, Orphans
<1> QED BY <1>4, <1>5, <1>6, <1>7 DEF SubsInv

LEMMA BeginPidsRemoveInv ==
    ASSUME SubsInv, NEW d \in Deleters, BeginPidsRemove(d)
    PROVE  SubsInv'
<1>1. /\ deleting[d].at = "marked" /\ At(d, "removing") /\ lock = Nobody /\ lock' = d
      /\ UNCHANGED <<starting, pid, child, registered, stopped, file, reader, daemon, todo, target,
                     tracked, ours, harmed, spoiled>>
  BY DEF BeginPidsRemove, BeginSave, boot, recovery
<1>2. DeleteLink(d)'
  BY <1>1, AtEffect DEF SubsInv, DeleteLink
<1> QED BY <1>1, <1>2, AtEffect, DeleteMoves

\* The entry goes: of a live subscription only by the number of another one.
LEMMA PidsRemoveInv ==
    ASSUME SubsInv, NEW d \in Deleters, PidsRemove(d)
    PROVE  SubsInv'
<1> DEFINE s == deleting[d].sub
<1>1. /\ deleting[d].at = "removing" /\ At(d, "stopped") /\ lock = d /\ lock' = Nobody
      /\ file' = file \ {pid[s]}
      /\ UNCHANGED <<starting, pid, child, registered, stopped, reader, daemon, todo, target,
                     tracked, ours, harmed, spoiled>>
  BY DEF PidsRemove, EndSave, boot, recovery
<1>2. /\ deleting'[d].at = "stopped" /\ deleting'[d].sub = s /\ s \in Subs /\ daemon = "up"
      /\ \A e \in Deleters \ {d} : deleting'[e] = deleting[e]
      /\ deleting' \in DeletingType
  BY <1>1, AtEffect
<1>3. child[s] \in {"exited", "reaped"}
  BY <1>1 DEF SubsInv, DeleteLink
<1> HIDE DEF s
<1>4. SubsTypeOK'
  BY <1>1, <1>2 DEF SubsInv, SubsTypeOK
<1>5. ASSUME NEW u \in Subs PROVE SubLink(u)'
  BY <1>1 DEF SubsInv, SubLink
<1>6. ASSUME NEW e \in Deleters PROVE DeleteLink(e)'
  BY <1>1, <1>2, <1>3 DEF SubsInv, DeleteLink
<1>7. DaemonLink' /\ RecoveryLink'
  BY <1>1, <1>2 DEF SubsInv, DaemonLink, RecoveryLink
<1>8. LiveIsOnFile'
  BY <1>1, <1>2, <1>3 DEF SubsInv, LiveIsOnFile
<1> QED BY <1>4, <1>5, <1>6, <1>7, <1>8 DEF SubsInv

LEMMA RestEffect ==
    ASSUME SubsInv, NEW d \in Deleters, Rest(d), \/ deleting[d].at # "idle" /\ lock' = lock /\ lock # d
                                                 \/ lock = d /\ lock' = Nobody
    PROVE  /\ deleting' \in DeletingType
           /\ \A e \in Deleters \ {d} : deleting'[e] = deleting[e]
           /\ DeleteLink(d)'
           /\ daemon = "up"
<1>1. deleting' = [deleting EXCEPT ![d] = [at |-> "idle", sub |-> NoSub]]
  BY DEF Rest, Idle
<1>2. deleting[d].at # "idle"
  BY DEF SubsInv, DeleteLink
<1>3. daemon = "up"
  BY <1>2 DEF SubsInv, DaemonLink
<1>4. deleting'[d].at = "idle" /\ lock' # d
  BY <1>1 DEF SubsInv, SubsTypeOK
<1>5. DeleteLink(d)'
  BY <1>4 DEF DeleteLink
<1> QED BY <1>1, <1>3, <1>5 DEF SubsInv, SubsTypeOK

LEMMA LogStoppedInv ==
    ASSUME SubsInv, NEW d \in Deleters, LogStopped(d)
    PROVE  SubsInv'
<1>1. /\ deleting[d].at = "stopped" /\ Rest(d)
      /\ UNCHANGED <<starting, pid, child, registered, stopped, file, lock, reader, daemon, todo, target,
                     tracked, ours, harmed, spoiled>>
  BY DEF LogStopped, boot, recovery
<1>2. lock # d
  BY <1>1 DEF SubsInv, DeleteLink
<1> QED BY <1>1, <1>2, RestEffect, DeleteMoves

LEMMA PidsRemoveFailsInv ==
    ASSUME SubsInv, NEW d \in Deleters, PidsRemoveFails(d)
    PROVE  SubsInv'
<1>1. /\ lock = d /\ lock' = Nobody /\ Rest(d) /\ file' = {} /\ spoiled' = TRUE
      /\ UNCHANGED <<starting, pid, child, registered, stopped, reader, daemon, todo, target,
                     tracked, ours, harmed>>
  BY DEF PidsRemoveFails, WriteFails, recovery
<1>2. /\ deleting' \in DeletingType
      /\ \A e \in Deleters \ {d} : deleting'[e] = deleting[e]
      /\ DeleteLink(d)' /\ daemon = "up"
  BY <1>1, RestEffect
<1>3. SubsTypeOK' /\ DaemonLink' /\ RecoveryLink' /\ LiveIsOnFile'
  BY <1>1, <1>2 DEF SubsInv, SubsTypeOK, DaemonLink, RecoveryLink, LiveIsOnFile
<1>4. ASSUME NEW s \in Subs PROVE SubLink(s)'
  BY <1>1 DEF SubsInv, SubLink
<1>5. ASSUME NEW e \in Deleters PROVE DeleteLink(e)'
  BY <1>1, <1>2 DEF SubsInv, DeleteLink
<1> QED BY <1>3, <1>4, <1>5 DEF SubsInv

-----------------------------------------------------------------------------
(* Crash, and recovery.                                                    *)

LEMMA CrashInv == SubsInv /\ Crash => SubsInv'
<1> SUFFICES ASSUME SubsInv, Crash PROVE SubsInv'
  OBVIOUS
<1>1. /\ daemon' = "down" /\ lock' = Nobody /\ registered' = {} /\ stopped' = {}
      /\ todo' = {} /\ target' = NoTarget /\ ours' = {} /\ harmed' = {}
      /\ UNCHANGED <<pid, tracked>>
      /\ deleting' = [d \in Deleters |-> Idle] /\ reader' = [s \in Subs |-> "none"]
  BY DEF Crash
<1>2. /\ \A s \in Subs : starting'[s] = IF starting[s] = "unused" THEN "unused" ELSE "lost"
      /\ \A s \in Subs : child'[s] = IF child[s] = "exited" THEN "reaped" ELSE child[s]
      /\ \A s \in Subs : reader'[s] = "none"
      /\ \A d \in Deleters : deleting'[d].at = "idle"
  BY DEF Crash, Idle
<1>3. SubsTypeOK'
  BY <1>1 DEF Crash, SubsInv, SubsTypeOK, Idle, NoTarget
<1>4. ASSUME NEW s \in Subs PROVE SubLink(s)'
  BY <1>1, <1>2 DEF SubsInv, SubLink
<1>5. ASSUME NEW d \in Deleters PROVE DeleteLink(d)'
  BY <1>1, <1>2 DEF DeleteLink
<1>6. DaemonLink' /\ LiveIsOnFile'
  BY <1>1, <1>2 DEF DaemonLink, LiveIsOnFile
<1>7. lock = Nobody => file' = file
  BY DEF Crash
<1>8. ASSUME NEW s \in Owed, child'[s] = "running" PROVE pid[s] \in file'
  <2>1. s \in Subs /\ child[s] = "running"
    BY <1>2, <1>8 DEF SubsInv, SubsTypeOK
  <2>2. daemon # "up"
    BY <2>1 DEF SubsInv, RecoveryLink
  <2> QED BY <1>7, <2>1, <2>2 DEF SubsInv, RecoveryLink, DaemonLink
<1>9. RecoveryLink'
  BY <1>1, <1>2, <1>8 DEF SubsInv, SubsTypeOK, RecoveryLink, NoTarget
<1> QED BY <1>3, <1>4, <1>5, <1>6, <1>9 DEF SubsInv

LEMMA BootInv == SubsInv /\ Boot => SubsInv'
<1> SUFFICES ASSUME SubsInv, Boot PROVE SubsInv'
  OBVIOUS
<1>1. /\ daemon = "down" /\ daemon' = "recovering" /\ todo' = file
      /\ tracked' = tracked \cup {s \in Orphans : pid[s] \in file}
      /\ UNCHANGED <<starting, pid, child, reader, registered, stopped, deleting, file, lock,
                     target, ours, harmed, spoiled>>
  BY DEF Boot, manager
<1>2. SubsTypeOK'
  BY <1>1 DEF SubsInv, SubsTypeOK, Orphans
<1>3. ASSUME NEW s \in Subs PROVE SubLink(s)'
  BY <1>1 DEF SubsInv, SubLink
<1>4. ASSUME NEW d \in Deleters PROVE DeleteLink(d)'
  BY <1>1 DEF SubsInv, DeleteLink
<1>5. DaemonLink' /\ LiveIsOnFile'
  BY <1>1 DEF SubsInv, DaemonLink, LiveIsOnFile
<1>6. RecoveryLink'
  <2>1. /\ \A s \in tracked' : starting'[s] = "lost"
        /\ \A s \in Owed' : child'[s] = "running" => pid'[s] \in file
    BY <1>1 DEF SubsInv, RecoveryLink, Orphans
  <2>2. \A s \in Orphans' : pid'[s] \in todo' => s \in tracked'
    BY <1>1 DEF Orphans
  <2>3. target'.at # "none" => \E s \in ours' : pid'[s] = target'.pid
    BY <1>1 DEF SubsInv, RecoveryLink
  <2>4. ours' \subseteq tracked' /\ harmed' \subseteq {pid'[s] : s \in ours'}
    BY <1>1 DEF SubsInv, RecoveryLink
  <2> QED BY <1>1, <2>1, <2>2, <2>3, <2>4 DEF RecoveryLink
<1> QED BY <1>2, <1>3, <1>4, <1>5, <1>6 DEF SubsInv

\* The next entry of the file: an orphan of ours is on the list of the tracked.
LEMMA NextEntryInv ==
    ASSUME SubsInv, NEW p \in Pids, Inspect(p) \/ SkipEntry(p)
    PROVE  SubsInv'
<1>1. /\ daemon = "recovering" /\ target = NoTarget /\ p \in todo /\ todo' = todo \ {p}
      /\ \/ /\ target' = [at |-> "inspected", pid |-> p] /\ IsOurOrphan(p)
            /\ ours' = ours \cup {s \in Orphans : pid[s] = p}
         \/ target' = target /\ ours' = ours /\ ~IsOurOrphan(p)
      /\ UNCHANGED <<starting, pid, child, reader, registered, stopped, deleting, file, lock,
                     daemon, tracked, harmed, spoiled>>
  BY DEF Inspect, SkipEntry, manager
<1>2. SubsTypeOK'
  <2>1. target' \in [at: {"none", "inspected", "terminated"}, pid: Pids \cup {NoPid}]
    BY <1>1 DEF SubsInv, SubsTypeOK
  <2> QED BY <1>1, <2>1 DEF SubsInv, SubsTypeOK
<1>3. ASSUME NEW s \in Subs PROVE SubLink(s)'
  BY <1>1 DEF SubsInv, SubLink
<1>4. ASSUME NEW d \in Deleters PROVE DeleteLink(d)'
  BY <1>1 DEF SubsInv, DeleteLink
<1>5. DaemonLink' /\ LiveIsOnFile'
  BY <1>1 DEF SubsInv, DaemonLink, LiveIsOnFile
<1>6. RecoveryLink'
  <2>1. ASSUME NEW s \in Owed, child[s] = "running"
        PROVE  pid[s] \in todo' \/ pid[s] = target'.pid
    <3>1. s \in Subs /\ starting[s] = "lost" /\ pid[s] # NoPid
      BY DEF SubsInv, SubsTypeOK, RecoveryLink, SubLink
    <3>2. pid[s] \in todo
      BY <1>1, <2>1, <3>1 DEF SubsInv, RecoveryLink, NoTarget
    <3>3. pid[s] = p => IsOurOrphan(p)
      BY <2>1, <3>1 DEF IsOurOrphan, Orphans
    <3> QED BY <1>1, <3>2, <3>3
  <2>2. \A s \in Orphans : pid[s] \in todo => s \in tracked
    BY <1>1 DEF SubsInv, RecoveryLink
  <2>3. target'.at # "none" => \E s \in ours' : pid[s] = target'.pid
    <3>1. CASE /\ target' = [at |-> "inspected", pid |-> p] /\ IsOurOrphan(p)
               /\ ours' = ours \cup {s \in Orphans : pid[s] = p}
      BY <3>1 DEF IsOurOrphan
    <3>2. CASE target' = target
      BY <1>1, <3>2 DEF NoTarget
    <3> QED BY <1>1, <3>1, <3>2
  <2>5. ours' \subseteq tracked /\ harmed' \subseteq {pid[s] : s \in ours'}
    BY <1>1, <2>2 DEF SubsInv, RecoveryLink
  <2>4. Orphans' = Orphans
    BY <1>1 DEF Orphans
  <2> QED BY <1>1, <2>1, <2>2, <2>3, <2>4, <2>5 DEF SubsInv, RecoveryLink
<1> QED BY <1>2, <1>3, <1>4, <1>5, <1>6 DEF SubsInv

\* A signal ends orphans, and can hit no id but the target's.
LEMMA SignalInv ==
    ASSUME SubsInv, SendTerm \/ SendKill
    PROVE  SubsInv'
<1>1. PICK dying \in SUBSET Targeted : Signal(dying) /\ (SendKill => dying = Targeted)
  BY DEF SendTerm, SendKill
<1>2. /\ target.at # "none"
      /\ \/ target' = [target EXCEPT !.at = "terminated"]
         \/ target' = NoTarget /\ SendKill
      /\ UNCHANGED <<starting, pid, reader, registered, stopped, deleting, file, lock,
                     daemon, todo, tracked, ours, spoiled>>
      /\ harmed' = harmed \cup ({target.pid} \cap foreign)
      /\ child' = [s \in Subs |-> IF s \in dying THEN "reaped" ELSE child[s]]
  BY <1>1 DEF SendTerm, SendKill, Signal
<1>3. /\ dying \subseteq {s \in Subs : starting[s] = "lost" /\ child[s] = "running" /\ pid[s] = target.pid}
      /\ \A s \in Subs : child'[s] = IF s \in dying THEN "reaped" ELSE child[s]
  BY <1>1, <1>2 DEF Targeted, Orphans
<1>4. daemon = "recovering"
  BY <1>2 DEF SubsInv, SubsTypeOK, DaemonLink, NoTarget
<1>5. SubsTypeOK'
  <2>1. target' \in [at: {"none", "inspected", "terminated"}, pid: Pids \cup {NoPid}]
    BY <1>2 DEF SubsInv, SubsTypeOK, NoTarget
  <2>2. child' \in [Subs -> {"none", "running", "exited", "reaped"}]
    BY <1>2 DEF SubsInv, SubsTypeOK
  <2> QED BY <1>2, <2>1, <2>2 DEF SubsInv, SubsTypeOK
<1>6. ASSUME NEW s \in Subs PROVE SubLink(s)'
  BY <1>2, <1>3 DEF SubsInv, SubLink
<1>7. ASSUME NEW d \in Deleters PROVE DeleteLink(d)'
  BY <1>2, <1>3, <1>4 DEF SubsInv, DaemonLink, DeleteLink
<1>8. DaemonLink' /\ LiveIsOnFile'
  BY <1>2, <1>3, <1>4 DEF SubsInv, DaemonLink, LiveIsOnFile
<1>9. RecoveryLink'
  <2>1. \A s \in tracked : s \in Subs /\ starting[s] = "lost"
    BY DEF SubsInv, SubsTypeOK, RecoveryLink
  <2>2. ASSUME NEW s \in Owed, child'[s] = "running"
        PROVE  pid[s] \in file /\ (pid[s] \in todo \/ pid[s] = target'.pid)
    <3>1. child[s] = "running" /\ s \notin dying
      BY <1>3, <2>1, <2>2
    <3>2. pid[s] \in file /\ (pid[s] \in todo \/ pid[s] = target.pid)
      BY <1>4, <3>1 DEF SubsInv, RecoveryLink
    <3>3. CASE target' = [target EXCEPT !.at = "terminated"]
      BY <3>2, <3>3 DEF SubsInv, SubsTypeOK
    <3>4. CASE SendKill
      <4>1. pid[s] # target.pid
        BY <1>1, <2>1, <3>1, <3>4 DEF Targeted, Orphans
      <4> QED BY <3>2, <4>1
    <3> QED BY <1>2, <3>3, <3>4
  <2>3. \A s \in Orphans' : s \in Orphans
    BY <1>2, <1>3 DEF Orphans
  <2>4. \A s \in Orphans' : pid[s] \in todo => s \in tracked
    BY <1>4, <2>3 DEF SubsInv, RecoveryLink
  <2>5. \E s \in ours : pid[s] = target.pid
    BY <1>2 DEF SubsInv, RecoveryLink
  <2>6. target'.at # "none" => \E s \in ours : pid[s] = target'.pid
    BY <1>2, <2>5 DEF SubsInv, SubsTypeOK, NoTarget
  <2>7. ours \subseteq tracked /\ harmed' \subseteq {pid[s] : s \in ours}
    BY <1>2, <2>5 DEF SubsInv, RecoveryLink
  <2> QED BY <1>2, <1>4, <2>1, <2>2, <2>4, <2>6, <2>7 DEF RecoveryLink
<1> QED BY <1>5, <1>6, <1>7, <1>8, <1>9 DEF SubsInv

LEMMA RecoverDoneInv == SubsInv /\ RecoverDone => SubsInv'
<1> SUFFICES ASSUME SubsInv, RecoverDone PROVE SubsInv'
  OBVIOUS
<1>1. /\ daemon = "recovering" /\ daemon' = "up" /\ target = NoTarget /\ todo = {} /\ file' = {}
      /\ UNCHANGED <<starting, pid, child, reader, registered, stopped, deleting, lock, todo,
                     target, tracked, ours, harmed, spoiled>>
  BY DEF RecoverDone, manager
<1>2. SubsTypeOK'
  BY <1>1 DEF SubsInv, SubsTypeOK
<1>3. ASSUME NEW s \in Subs PROVE SubLink(s)'
  BY <1>1 DEF SubsInv, SubLink
<1>4. ASSUME NEW d \in Deleters PROVE DeleteLink(d)'
  BY <1>1 DEF SubsInv, DeleteLink
<1>5. DaemonLink' /\ LiveIsOnFile'
  BY <1>1 DEF SubsInv, DaemonLink, LiveIsOnFile
<1>6. ASSUME NEW s \in Owed PROVE child[s] # "running"
  <2>1. s \in Subs /\ starting[s] = "lost" /\ pid[s] # NoPid
    BY DEF SubsInv, SubsTypeOK, RecoveryLink, SubLink
  <2> QED BY <1>1, <2>1 DEF SubsInv, RecoveryLink, NoTarget
<1>7. RecoveryLink'
  BY <1>1, <1>6 DEF SubsInv, RecoveryLink
<1> QED BY <1>2, <1>3, <1>4, <1>5, <1>7 DEF SubsInv

-----------------------------------------------------------------------------
(* The theorems.                                                           *)

LEMMA SubsNextInv == SubsInv /\ [Next]_vars => SubsInv'
<1> SUFFICES ASSUME SubsInv, [Next]_vars PROVE SubsInv'
  OBVIOUS
<1>1. ASSUME NEW s \in Subs, Start(s) PROVE SubsInv'
  BY <1>1, SpawnInv, RegisterInv, BeginPidsAddInv, PidsAddInv DEF Start
<1>2. ASSUME NEW s \in Subs, ReaderEnds(s) \/ ReaderDies(s) \/ Reap(s) \/ Exits(s) PROVE SubsInv'
  BY <1>2, ReaderInv, ReapInv, ExitsInv
<1>3. ASSUME NEW d \in Deleters, Stop(d) PROVE SubsInv'
  BY <1>3, LookupInv, EndsInv, MarkStoppedInv, BeginPidsRemoveInv, PidsRemoveInv,
     PidsRemoveFailsInv, LogStoppedInv DEF Stop
<1>4. ASSUME NEW p \in Pids, ForeignStarts(p) \/ ForeignEnds(p) PROVE SubsInv'
  BY <1>4, KeptInv DEF ForeignStarts, ForeignEnds
<1>5. ASSUME NEW p \in Pids, Inspect(p) \/ SkipEntry(p) PROVE SubsInv'
  BY <1>5, NextEntryInv
<1>6. CASE UNCHANGED vars
  BY <1>6, KeptInv DEF vars
<1> QED BY <1>1, <1>2, <1>3, <1>4, <1>5, <1>6, CrashInv, BootInv, RecoverDoneInv, SignalInv DEF Next

\* The inductive invariant of the subscription manager.
THEOREM SubsInvariant == Spec => []SubsInv
BY SubsInitInv, SubsNextInv, PTL DEF Spec

\* "stopped", from a poll or in the log, is said of dead processes only.
THEOREM SubsStopped == Spec => []StoppedIsDead
<1>1. ASSUME SubsInv, NEW s \in stopped PROVE child[s] # "running"
  BY <1>1 DEF SubsInv, SubsTypeOK, SubLink
<1>2. ASSUME SubsInv, NEW d \in Deleters, deleting[d].at = "stopped"
      PROVE  child[deleting[d].sub] # "running"
  BY <1>2 DEF SubsInv, DeleteLink
<1>3. SubsInv => StoppedIsDead
  BY <1>1, <1>2 DEF StoppedIsDead
<1> QED BY <1>3, SubsInvariant, PTL

\* A process the daemon started is in its registry as long as it runs.
THEOREM SubsMonitored == Spec => []RunningIsMonitored
<1>1. SubsInv => RunningIsMonitored
  BY DEF SubsInv, SubLink, RunningIsMonitored
<1> QED BY <1>1, SubsInvariant, PTL

\* A live subscription is on file, unless a write failed or its id was another's.
THEOREM SubsOnFile == Spec => []LiveIsOnFile
<1>1. SubsInv => LiveIsOnFile
  BY DEF SubsInv
<1> QED BY <1>1, SubsInvariant, PTL

\* No orphan on file that the check recognises outlives the recovery (tier_b.py
\* recover_orphans), through any number of crashes in it.
THEOREM SubsOrphansEnd == Spec => []TrackedOrphansEnd
<1>1. SubsInv => TrackedOrphansEnd
  BY DEF SubsInv, RecoveryLink, TrackedOrphansEnd
<1> QED BY <1>1, SubsInvariant, PTL

\* A stranger is hit only under an id at which this recovery's check had found a
\* live orphan of ours (tier_b.py _is_our_orphan).
THEOREM SubsSpares == Spec => []SparesRecycled
<1>1. SubsInv => SparesRecycled
  BY DEF SubsInv, RecoveryLink, SparesRecycled
<1> QED BY <1>1, SubsInvariant, PTL

=============================================================================
