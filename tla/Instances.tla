----------------------------- MODULE Instances -----------------------------
(***************************************************************************)
(* The runs of daemon.py on one device, from the import of the module to   *)
(* the end of main: the token file, the wake lock, the port, and the       *)
(* subscriptions one run leaves to the next in the pid file.               *)
(*                                                                         *)
(*   token -> creating -> locking -> recovering -> emptying -> binding     *)
(*     -> listening -> unlocking -> over                                   *)
(*                                                                         *)
(* A run is killed anywhere ("over" without unlocking), or stopped by an   *)
(* exception inside the try of main, whose finally releases the lock.      *)
(* Nothing keeps two runs apart but the port: one may start while another  *)
(* is alive.  The operator may delete the token file at any time, and a    *)
(* client may call the verbs wake.lock and wake.unlock, which are ungated: *)
(* a command of theirs is taken to end before its run does.  AGENT_TOKEN   *)
(* is taken to be unset.  What a run does with its subscriptions is in     *)
(* Subscriptions; here it has at most one child.                           *)
(***************************************************************************)
CONSTANTS Runs,   \* the runs of the daemon; each makes up its own token
          NoRun

ASSUME InstancesAssumption == NoRun \notin Runs

VARIABLES at,         \* where each run is
          tokenFile,  \* whose token .agent-token holds, NoRun if it is absent or empty
          token,      \* AUTH_TOKEN of a run, by the run that made it up
          wakeLock,   \* does the device hold the wake lock?
          refused,    \* history: the runs whose termux-wake-lock failed
          released,   \* history: the runs a client had release the lock
          child,      \* the runs whose child process is alive
          pidFile,    \* the runs whose child is in logs/subscriptions.pids
          handed,     \* history: the tokens a client read since the last deletion
          revoked,    \* history: the tokens whose file was deleted
          outdated,   \* history: the runs that had their token when one was deleted
          apart       \* history: no run has started while another was alive

tokens == <<tokenFile, token, handed, revoked, outdated>>
lock == <<wakeLock, refused, released>>
children == <<child, pidFile>>
vars == <<at, tokens, lock, children, apart>>

Places == {"unused", "token", "creating", "locking", "recovering", "emptying",
           "binding", "listening", "unlocking", "over"}

Alive(i) == at[i] \notin {"unused", "over"}

Goto(i, place) == at' = [at EXCEPT ![i] = place]

InstancesTypeOK ==
    /\ at \in [Runs -> Places]
    /\ tokenFile \in Runs \cup {NoRun}
    /\ token \in [Runs -> Runs \cup {NoRun}]
    /\ wakeLock \in BOOLEAN
    /\ refused \subseteq Runs
    /\ released \subseteq Runs
    /\ child \subseteq Runs
    /\ pidFile \subseteq Runs
    /\ handed \subseteq Runs \cup {NoRun}
    /\ revoked \subseteq Runs
    /\ outdated \subseteq Runs
    /\ apart \in BOOLEAN

-----------------------------------------------------------------------------
(* _load_or_create_token                                                   *)

Start(i) ==
    /\ at[i] = "unused"
    /\ Goto(i, "token")
    /\ apart' = (apart /\ \A j \in Runs : ~Alive(j))
    /\ UNCHANGED <<tokens, lock, children>>

\* Mistake: a file that is there is taken, with or without a token in it.
ReadAnyToken(i) ==
    /\ at[i] = "token"
    /\ token' = [token EXCEPT ![i] = tokenFile]
    /\ Goto(i, "locking")
    /\ UNCHANGED <<tokenFile, handed, revoked, outdated, lock, children, apart>>

\* A token is on file.
ReadToken(i) ==
    /\ at[i] = "token"
    /\ tokenFile # NoRun
    /\ token' = [token EXCEPT ![i] = tokenFile]
    /\ Goto(i, "locking")
    /\ UNCHANGED <<tokenFile, handed, revoked, outdated, lock, children, apart>>

\* No file, or an empty one: token_hex, and write_text empties the file.
MakeToken(i) ==
    /\ at[i] = "token"
    /\ tokenFile = NoRun
    /\ token' = [token EXCEPT ![i] = i]
    /\ tokenFile' = NoRun
    /\ Goto(i, "creating")
    /\ UNCHANGED <<handed, revoked, outdated, lock, children, apart>>

\* The token is in the file, in one write.
WriteToken(i) ==
    /\ at[i] = "creating"
    /\ tokenFile' = token[i]
    /\ Goto(i, "locking")
    /\ UNCHANGED <<token, handed, revoked, outdated, lock, children, apart>>

\* The operator rotates the token by deleting its file: a run that has read it goes
\* on with it.  A run that finds its file gone while it reads or makes it ends by an
\* exception, which is Die.
DeleteToken ==
    /\ tokenFile # NoRun
    /\ \A i \in Runs : at[i] # "creating"
    /\ tokenFile' = NoRun
    /\ revoked' = revoked \cup {tokenFile}
    /\ outdated' = outdated \cup {i \in Runs : Alive(i) /\ at[i] # "token"}
    /\ handed' = {}
    /\ UNCHANGED <<at, token, lock, children, apart>>

-----------------------------------------------------------------------------
(* main                                                                    *)

\* Mistake: the lock is taken when the daemon listens for the first time only.
TakeWakeLockOnce(i) ==
    /\ at[i] = "locking"
    /\ IF handed = {} THEN wakeLock' = TRUE ELSE UNCHANGED wakeLock
    /\ Goto(i, "recovering")
    /\ UNCHANGED <<tokens, refused, released, children, apart>>

\* termux-wake-lock; with check=False its exit code is not looked at.
TakeWakeLock(i) ==
    /\ at[i] = "locking"
    /\ \/ wakeLock' = TRUE /\ UNCHANGED refused
       \/ refused' = refused \cup {i} /\ UNCHANGED wakeLock
    /\ Goto(i, "recovering")
    /\ UNCHANGED <<tokens, released, children, apart>>

\* recover_orphans kills what it finds in the pid file.
Recover(i) ==
    /\ at[i] = "recovering"
    /\ child' = child \ pidFile
    /\ Goto(i, "emptying")
    /\ UNCHANGED <<tokens, lock, pidFile, apart>>

\* _pids_save([]), whatever was added meanwhile.
EmptyPidFile(i) ==
    /\ at[i] = "emptying"
    /\ pidFile' = {}
    /\ Goto(i, "binding")
    /\ UNCHANGED <<tokens, lock, child, apart>>

PortFree == \A j \in Runs : at[j] # "listening"

\* From here on a client has what it reads in the file.
Listen(i) ==
    /\ at[i] = "binding"
    /\ PortFree
    /\ handed' = handed \cup ({tokenFile} \ {NoRun})
    /\ Goto(i, "listening")
    /\ UNCHANGED <<tokenFile, token, revoked, outdated, lock, children, apart>>

\* "Address already in use", inside the try.
BindFails(i) ==
    /\ at[i] = "binding"
    /\ ~PortFree
    /\ Goto(i, "unlocking")
    /\ UNCHANGED <<tokens, lock, children, apart>>

\* POST /watch: SubscriptionManager.start, to the end.
StartChild(i) ==
    /\ at[i] = "listening" /\ i \notin child
    /\ child' = child \cup {i}
    /\ pidFile' = pidFile \cup {i}
    /\ UNCHANGED <<at, tokens, lock, apart>>

\* The verb wake.lock; one whose command fails changes nothing.
WakeLockVerb(i) ==
    /\ at[i] \in {"listening", "unlocking"}
    /\ wakeLock' = TRUE
    /\ refused' = refused \ {i}
    /\ released' = released \ {i}
    /\ UNCHANGED <<at, tokens, children, apart>>

\* The verb wake.unlock: it takes the lock from the daemon itself.
WakeUnlockVerb(i) ==
    /\ at[i] \in {"listening", "unlocking"}
    /\ wakeLock' = FALSE
    /\ released' = released \cup {i}
    /\ UNCHANGED <<at, tokens, refused, children, apart>>

\* serve_forever ends by an exception, Ctrl-C for one.
Interrupt(i) ==
    /\ at[i] = "listening"
    /\ Goto(i, "unlocking")
    /\ UNCHANGED <<tokens, lock, children, apart>>

Unlock(i) ==
    /\ at[i] = "unlocking"
    /\ wakeLock' = FALSE
    /\ Goto(i, "over")
    /\ UNCHANGED <<tokens, refused, released, children, apart>>

\* Killed by the system, or ended by an exception before the try.  A file that was
\* being written keeps what it had by then.
Die(i) ==
    /\ Alive(i)
    /\ Goto(i, "over")
    /\ UNCHANGED <<tokens, lock, children, apart>>

-----------------------------------------------------------------------------
Init ==
    /\ at = [i \in Runs |-> "unused"]
    /\ tokenFile = NoRun
    /\ token = [i \in Runs |-> NoRun]
    /\ wakeLock = FALSE
    /\ refused = {}
    /\ released = {}
    /\ child = {}
    /\ pidFile = {}
    /\ handed = {}
    /\ revoked = {}
    /\ outdated = {}
    /\ apart = TRUE

Run(i) ==
    \/ Start(i) \/ ReadToken(i) \/ MakeToken(i) \/ WriteToken(i)
    \/ TakeWakeLock(i) \/ Recover(i) \/ EmptyPidFile(i)
    \/ Listen(i) \/ BindFails(i) \/ StartChild(i)
    \/ WakeLockVerb(i) \/ WakeUnlockVerb(i)
    \/ Interrupt(i) \/ Unlock(i) \/ Die(i)

Next == DeleteToken \/ \E i \in Runs : Run(i)

Spec == Init /\ [][Next]_vars

-----------------------------------------------------------------------------
(* Properties.                                                             *)

\* README.md:30-34 "generated once into .agent-token ... rotate by deleting the file
\* and restarting the daemon", as long as runs do not overlap.  The file never
\* holds a token that the run that listens refuses, and a token a client read while
\* any run listened keeps working through restarts and crashes until the file is
\* deleted.  A run that got its token after the last deletion has it on file, and
\* accepts no token that was ever deleted.
KnownTokenWorks ==
    apart => \A i \in Runs : at[i] = "listening" =>
        /\ tokenFile \in {token[i], NoRun}
        /\ handed \subseteq {token[i]}
        /\ i \notin outdated => tokenFile # NoRun /\ token[i] \notin revoked

\* daemon.py:3 "Holds a wake-lock so Doze doesn't kill it": whatever became of
\* earlier runs and whatever their clients did, the lock is held while one listens,
\* unless its termux-wake-lock failed or a client had it released by wake.unlock
\* (and no wake.lock came after), and as long as the runs do not overlap.
WakeLockHeld ==
    apart => \A i \in Runs \ (refused \cup released) : at[i] = "listening" => wakeLock

-----------------------------------------------------------------------------
(* What the documents say and the code does not do.                        *)

\* daemon.py:365 "Kill any termux-sensor ... left running by a previous crash": a
\* run ends no process of a run that is alive.
RecoveryEndsLeftovers == [][\A i \in child \ child' : ~Alive(i)]_vars

=============================================================================
