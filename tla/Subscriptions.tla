---------------------------- MODULE Subscriptions ----------------------------
(***************************************************************************)
(* The life of Tier B subscriptions (dispatch/tier_b.py): the registry of  *)
(* SubscriptionManager, the child processes, the pid file that survives a  *)
(* crash, and recover_orphans, which daemon.main runs before it listens.   *)
(*                                                                         *)
(* Actors: a handler thread inside start for each subscription, the reader *)
(* thread of each subscription, DELETE handlers inside stop, the reaper    *)
(* thread, and the operating system, which ends processes and hands out    *)
(* process ids again.  SubscriptionManager._lock guards the registry and   *)
(* each rewrite of the pid file, not the sequences made of them.           *)
(*                                                                         *)
(* The pid file is a list, but its readers only ask which ids are in it: a *)
(* set.  What a subscription streams is in StreamQueue.                    *)
(***************************************************************************)
EXTENDS Naturals, FiniteSets

CONSTANTS Subs,       \* subscriptions: uuids, so each is used once
          Deleters,   \* handler threads of DELETE /watch/<id>
          Pids,       \* process ids of the system
          Recognised, \* the subscriptions whose process shows a command line that
                      \* can be read and begins with the name of a termux-* program
          NoPid, NoSub, Nobody,
          MaxFaults   \* bound: crashes and failed writes of the pid file

ASSUME SubsAssumption ==
    /\ NoPid \notin Pids
    /\ NoSub \notin Subs
    /\ Nobody \notin Subs \cup Deleters
    /\ Subs \cap Deleters = {}
    /\ Recognised \subseteq Subs
    /\ MaxFaults \in Nat

VARIABLES starting,   \* where start() of a subscription is
          pid,        \* the id of its process
          child,      \* its process, as the system sees it
          reader,     \* its reader thread
          registered, \* the keys of SubscriptionManager._subs
          stopped,    \* the subscriptions whose .stopped is set
          deleting,   \* where a DELETE handler is, and of what
          file,       \* logs/subscriptions.pids
          lock,       \* who is rewriting the pid file under _lock
          foreign,    \* ids of processes that are not ours
          daemon,     \* "up", "down", or "recovering"
          todo,       \* the ids recover_orphans has still to look at
          tracked,    \* history: the orphans on file when a daemon started
          target,     \* the id recover_orphans deals with
          ours,       \* history: the orphans its check has found, since the last crash
          harmed,     \* history: the ids of other programs it sent a signal to, likewise
          spoiled,    \* history: a write of the pid file failed in this run of the daemon
          faults

manager == <<starting, pid, child, reader, registered, stopped, deleting>>
recovery == <<daemon, todo, target, tracked, ours, harmed>>
boot == <<recovery, spoiled, faults>>
vars == <<manager, file, lock, foreign, boot>>

NoTarget == [at |-> "none", pid |-> NoPid]

-----------------------------------------------------------------------------
(* The operating system.                                                   *)

\* A process that has exited keeps its id until its parent has waited for it.
InUse == foreign \cup {pid[s] : s \in {x \in Subs : child[x] \in {"running", "exited"}}}

\* A child ends by itself.
Exits(s) ==
    /\ child[s] = "running"
    /\ child' = [child EXCEPT ![s] = IF starting[s] = "lost" THEN "reaped" ELSE "exited"]
    /\ UNCHANGED <<starting, pid, reader, registered, stopped, deleting, file, lock, foreign, boot>>

\* Another program of the phone gets a free id, and ends.  It is not a termux-*
\* program (what _is_our_orphan relies on).
ForeignStarts(p) ==
    /\ p \notin InUse
    /\ foreign' = foreign \cup {p}
    /\ UNCHANGED <<manager, file, lock, boot>>

ForeignEnds(p) ==
    /\ p \in foreign
    /\ foreign' = foreign \ {p}
    /\ UNCHANGED <<manager, file, lock, boot>>

-----------------------------------------------------------------------------
(* _pids_add and _pids_remove: under _lock the file is read, emptied by    *)
(* write_text and written.  Between the last two the process may die, or   *)
(* the write may fail; the list is then gone.                              *)

BeginSave(who) ==
    /\ daemon = "up" /\ lock = Nobody
    /\ lock' = who

\* The new contents; the file was read under the same lock.
EndSave(who, contents) ==
    /\ lock = who
    /\ file' = contents
    /\ lock' = Nobody

WriteFails(who) ==
    /\ lock = who
    /\ faults < MaxFaults
    /\ faults' = faults + 1
    /\ spoiled' = TRUE
    /\ file' = {}
    /\ lock' = Nobody

-----------------------------------------------------------------------------
(* start                                                                   *)

\* Popen, and the reader thread.
Spawn(s) ==
    /\ daemon = "up"
    /\ starting[s] = "unused"
    /\ \E p \in Pids \ InUse : pid' = [pid EXCEPT ![s] = p]
    /\ child' = [child EXCEPT ![s] = "running"]
    /\ reader' = [reader EXCEPT ![s] = "reading"]
    /\ starting' = [starting EXCEPT ![s] = "spawned"]
    /\ UNCHANGED <<registered, stopped, deleting, file, lock, foreign, boot>>

Register(s) ==
    /\ daemon = "up" /\ lock = Nobody
    /\ starting[s] = "spawned"
    /\ registered' = registered \cup {s}
    /\ starting' = [starting EXCEPT ![s] = "registered"]
    /\ UNCHANGED <<pid, child, reader, stopped, deleting, file, lock, foreign, boot>>

BeginPidsAdd(s) ==
    /\ starting[s] = "registered"
    /\ BeginSave(s)
    /\ starting' = [starting EXCEPT ![s] = "adding"]
    /\ UNCHANGED <<pid, child, reader, registered, stopped, deleting, file, foreign, boot>>

\* Mistake: the file is written without having been read.
PidAlone(s) == {pid[s]}

WithPid(s) == file \cup {pid[s]}

PidsAdd(s) ==
    /\ starting[s] = "adding"
    /\ EndSave(s, WithPid(s))
    /\ starting' = [starting EXCEPT ![s] = "started"]
    /\ UNCHANGED <<pid, child, reader, registered, stopped, deleting, foreign, boot>>

\* The OSError of the write reaches do_POST, which answers 500; the process
\* and the registry entry stay.
PidsAddFails(s) ==
    /\ WriteFails(s)
    /\ starting' = [starting EXCEPT ![s] = "failed"]
    /\ UNCHANGED <<pid, child, reader, registered, stopped, deleting, foreign, recovery>>

-----------------------------------------------------------------------------
(* The reader thread, up to _mark_stopped, and the reaper.                 *)

\* End of output.  The children are taken to keep their stdout until they end.
ReaderEnds(s) ==
    /\ daemon = "up"
    /\ reader[s] = "reading"
    /\ child[s] # "running"
    /\ reader' = [reader EXCEPT ![s] = "ended"]
    /\ stopped' = stopped \cup {s}
    /\ UNCHANGED <<starting, pid, child, registered, deleting, file, lock, foreign, boot>>

\* A line that is not UTF-8 ends the thread; nothing marks the subscription.
ReaderDies(s) ==
    /\ daemon = "up"
    /\ reader[s] = "reading"
    /\ reader' = [reader EXCEPT ![s] = "dead"]
    /\ UNCHANGED <<starting, pid, child, registered, stopped, deleting, file, lock, foreign, boot>>

\* Mistake: old subscriptions go, stopped or not.
Old(s) == TRUE

Forgettable(s) == s \in stopped

\* A stopped subscription leaves the registry some time later; with it goes the
\* Popen object, which collects a child that has exited.
Reap(s) ==
    /\ daemon = "up" /\ lock = Nobody
    /\ s \in registered /\ Forgettable(s)
    /\ registered' = registered \ {s}
    /\ child' = [child EXCEPT ![s] = IF @ = "exited" THEN "reaped" ELSE @]
    /\ UNCHANGED <<starting, pid, reader, stopped, deleting, file, lock, foreign, boot>>

-----------------------------------------------------------------------------
(* stop, and what do_DELETE does after it                                  *)

At(d, label) == deleting' = [deleting EXCEPT ![d].at = label]

Idle == [at |-> "idle", sub |-> NoSub]

Rest(d) == deleting' = [deleting EXCEPT ![d] = Idle]

\* The lookup; an unknown id is a KeyError, a 404 and no step.
Lookup(d, s) ==
    /\ daemon = "up" /\ lock = Nobody
    /\ deleting[d].at = "idle"
    /\ s \in registered
    /\ deleting' = [deleting EXCEPT ![d] = [at |-> "found", sub |-> s]]
    /\ UNCHANGED <<starting, pid, child, reader, registered, stopped, file, lock, foreign, boot>>

\* process.poll() collects a child that has exited; a running one gets SIGTERM.
Terminate(d) ==
    LET s == deleting[d].sub IN
    /\ deleting[d].at = "found"
    /\ \/ /\ child[s] = "running"
          /\ At(d, "waiting")
          /\ UNCHANGED child
       \/ /\ child[s] # "running"
          /\ At(d, "ended")
          /\ child' = [child EXCEPT ![s] = "reaped"]
    /\ UNCHANGED <<starting, pid, reader, registered, stopped, file, lock, foreign, boot>>

\* Mistake: no SIGKILL after the five seconds.
AwaitedOnly(s) == IF child[s] = "running" THEN "running" ELSE "reaped"

\* process.wait(timeout=5): the child has ended and is collected, or SIGKILL
\* ends it and nobody collects it.
Awaited(s) == IF child[s] = "running" THEN "exited" ELSE "reaped"

Wait(d) ==
    LET s == deleting[d].sub IN
    /\ deleting[d].at = "waiting"
    /\ child' = [child EXCEPT ![s] = Awaited(s)]
    /\ At(d, "ended")
    /\ UNCHANGED <<starting, pid, reader, registered, stopped, file, lock, foreign, boot>>

MarkStopped(d) ==
    /\ deleting[d].at = "ended"
    /\ stopped' = stopped \cup {deleting[d].sub}
    /\ At(d, "marked")
    /\ UNCHANGED <<starting, pid, child, reader, registered, file, lock, foreign, boot>>

BeginPidsRemove(d) ==
    /\ deleting[d].at = "marked"
    /\ BeginSave(d)
    /\ At(d, "removing")
    /\ UNCHANGED <<starting, pid, child, reader, registered, stopped, file, foreign, boot>>

\* Every entry with that number goes, whoever it was added for.
PidsRemove(d) ==
    /\ deleting[d].at = "removing"
    /\ EndSave(d, file \ {pid[deleting[d].sub]})
    /\ At(d, "stopped")
    /\ UNCHANGED <<starting, pid, child, reader, registered, stopped, foreign, boot>>

\* The audit line "stopped", which no one counts, and the answer.
LogStopped(d) ==
    /\ deleting[d].at = "stopped"
    /\ Rest(d)
    /\ UNCHANGED <<starting, pid, child, reader, registered, stopped, file, lock, foreign, boot>>

\* The OSError ends the handler: no line, no answer.
PidsRemoveFails(d) ==
    /\ WriteFails(d)
    /\ Rest(d)
    /\ UNCHANGED <<starting, pid, child, reader, registered, stopped, foreign, recovery>>

-----------------------------------------------------------------------------
(* Crash, and recover_orphans at the next start.                           *)

\* The process dies anywhere, also inside a rewrite of the pid file.  Children
\* that run go on as orphans; those that have exited are collected by init.
Crash ==
    /\ daemon # "down"
    /\ faults < MaxFaults
    /\ faults' = faults + 1
    /\ daemon' = "down"
    /\ file' \in IF lock = Nobody THEN {file} ELSE {file, {}}
    /\ lock' = Nobody
    /\ starting' = [s \in Subs |-> IF starting[s] = "unused" THEN "unused" ELSE "lost"]
    /\ child' = [s \in Subs |-> IF child[s] = "exited" THEN "reaped" ELSE child[s]]
    /\ reader' = [s \in Subs |-> "none"]
    /\ registered' = {}
    /\ stopped' = {}
    /\ deleting' = [d \in Deleters |-> Idle]
    /\ todo' = {}
    /\ target' = NoTarget
    /\ ours' = {}
    /\ harmed' = {}
    /\ spoiled' = FALSE
    /\ UNCHANGED <<pid, foreign, tracked>>

Orphans == {s \in Subs : starting[s] = "lost" /\ child[s] = "running"}

Boot ==
    /\ daemon = "down"
    /\ daemon' = "recovering"
    /\ todo' = file
    /\ tracked' = tracked \cup {s \in Orphans : pid[s] \in file}
    /\ UNCHANGED <<manager, file, lock, foreign, target, ours, harmed, spoiled, faults>>

\* Mistake: any process under the id will do.
IsAlive(p) == p \in InUse

\* _is_our_orphan: under the id runs something that shows itself as a termux-*
\* program.  A script of ours shows its interpreter, and is not recognised.
IsOurOrphan(p) == \E s \in Orphans \cap Recognised : pid[s] = p

\* os.kill(pid, 0) finds a process, and it is ours.
Inspect(p) ==
    /\ daemon = "recovering" /\ target = NoTarget
    /\ p \in todo /\ IsOurOrphan(p)
    /\ todo' = todo \ {p}
    /\ target' = [at |-> "inspected", pid |-> p]
    /\ ours' = ours \cup {s \in Orphans : pid[s] = p}
    /\ UNCHANGED <<manager, file, lock, foreign, daemon, tracked, harmed, spoiled, faults>>

\* A signal goes to whoever has the id by now; the orphans it ends are `dying`.
Signal(dying) ==
    /\ child' = [s \in Subs |-> IF s \in dying THEN "reaped" ELSE child[s]]
    /\ harmed' = harmed \cup ({target.pid} \cap foreign)
    /\ UNCHANGED <<starting, pid, reader, registered, stopped, deleting, file, lock,
                   foreign, daemon, todo, tracked, ours, spoiled, faults>>

Targeted == {s \in Orphans : pid[s] = target.pid}

\* SIGTERM, which an orphan may take its time over; half a second of sleep.
SendTerm ==
    /\ target.at = "inspected"
    /\ target' = [target EXCEPT !.at = "terminated"]
    /\ \E dying \in SUBSET Targeted : Signal(dying)

\* Mistake: an orphan that does not heed SIGTERM is left.
SendNothing ==
    /\ target.at = "terminated"
    /\ target' = NoTarget
    /\ Signal({})

\* If the id is in use still, SIGKILL; what runs under it is not looked at again.
SendKill ==
    /\ target.at = "terminated"
    /\ target' = NoTarget
    /\ Signal(Targeted)

\* No such process any more, or one whose command line is not termux-*: the entry
\* goes with the others at the end, although an orphan of ours may run under it.
SkipEntry(p) ==
    /\ daemon = "recovering" /\ target = NoTarget
    /\ p \in todo /\ ~IsOurOrphan(p)
    /\ todo' = todo \ {p}
    /\ UNCHANGED <<manager, file, lock, foreign, daemon, target, tracked, ours, harmed, spoiled, faults>>

\* _pids_save([]), and the daemon listens.
RecoverDone ==
    /\ daemon = "recovering" /\ target = NoTarget
    /\ todo = {}
    /\ file' = {}
    /\ daemon' = "up"
    /\ UNCHANGED <<manager, lock, foreign, todo, target, tracked, ours, harmed, spoiled, faults>>

-----------------------------------------------------------------------------
Init ==
    /\ starting = [s \in Subs |-> "unused"]
    /\ pid = [s \in Subs |-> NoPid]
    /\ child = [s \in Subs |-> "none"]
    /\ reader = [s \in Subs |-> "none"]
    /\ registered = {}
    /\ stopped = {}
    /\ deleting = [d \in Deleters |-> Idle]
    /\ file = {}
    /\ lock = Nobody
    /\ foreign = {}
    /\ daemon = "up"
    /\ todo = {}
    /\ tracked = {}
    /\ target = NoTarget
    /\ ours = {}
    /\ harmed = {}
    /\ spoiled = FALSE
    /\ faults = 0

Start(s) == Spawn(s) \/ Register(s) \/ BeginPidsAdd(s) \/ PidsAdd(s) \/ PidsAddFails(s)

Stop(d) ==
    \/ \E s \in Subs : Lookup(d, s)
    \/ Terminate(d) \/ Wait(d) \/ MarkStopped(d)
    \/ BeginPidsRemove(d) \/ PidsRemove(d) \/ PidsRemoveFails(d)
    \/ LogStopped(d)

Next ==
    \/ \E s \in Subs : Start(s) \/ ReaderEnds(s) \/ ReaderDies(s) \/ Reap(s) \/ Exits(s)
    \/ \E d \in Deleters : Stop(d)
    \/ \E p \in Pids : ForeignStarts(p) \/ ForeignEnds(p)
    \/ Crash \/ Boot \/ RecoverDone
    \/ \E p \in Pids : Inspect(p) \/ SkipEntry(p)
    \/ SendTerm \/ SendKill

Spec == Init /\ [][Next]_vars

-----------------------------------------------------------------------------
(* Properties.                                                             *)

\* stop() marks a subscription only once its process has ended, and so does
\* the reader; the "stopped" a poll reports can be relied upon, with any number
\* of DELETEs of one subscription at once, slow deaths and SIGKILLs, and so can
\* the "stopped" of the audit log.
StoppedIsDead ==
    \A s \in stopped \cup {deleting[d].sub : d \in {x \in Deleters : deleting[x].at = "stopped"}} :
        child[s] # "running"

\* tier_b.py:4 "so the daemon doesn't leave termux-sensor running unmonitored
\* forever": while the daemon is up, a process it started and still runs is in
\* the registry, from where GET /watch shows it and DELETE ends it; the reaper
\* never forgets one that runs.
RunningIsMonitored ==
    \A s \in Subs : starting[s] \in {"registered", "adding", "started", "failed"}
                    /\ child[s] = "running" => s \in registered

\* The pid file tells the next daemon about every subscription that a client
\* was given: concurrent starts, stops and restarts do not lose an entry while
\* the writes of the file succeed.  Only the DELETE of another subscription that
\* had the same id can (_pids_remove goes by the number).
LiveIsOnFile ==
    ~spoiled => \A s \in Subs :
        starting[s] = "started" /\ child[s] = "running" =>
            pid[s] \in file \/ \E older \in Subs \ {s} : pid[older] = pid[s]

\* An orphan that was on file when a daemon started, and that _is_our_orphan can
\* recognise, is dead when a daemon listens, even if the recovery itself crashed
\* half way and another one took over.  One that it cannot recognise goes on, and
\* is off the file from then on.
TrackedOrphansEnd ==
    daemon = "up" => \A s \in tracked \cap Recognised : child[s] # "running"

\* tier_b.py:208 "Pidfile entries can be stale (pid reuse)": a recovery sends a
\* signal to another program only under an id at which its own check had found an
\* orphan of ours that was alive; an id that had passed on before the check is left
\* alone.  This is less than the comment says: the orphan may end and its id pass
\* on between the check and SIGKILL, half a second later.
SparesRecycled == harmed \subseteq {pid[s] : s \in ours}

=============================================================================
