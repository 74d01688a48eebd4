--------------------------- MODULE InstancesProofs ---------------------------
(***************************************************************************)
(* Proofs about Instances, for any number of runs of the daemon.           *)
(*                                                                         *)
(* Both properties rest on one argument: as long as runs do not overlap at *)
(* most one is alive, so between two of its steps only the operator, who   *)
(* deletes the token file, and its own clients, who call the wake verbs,   *)
(* touch the file or the lock.  What is on file is one token, which was    *)
(* never deleted and which every client has, or none, and then no client   *)
(* has one; and the run that made up a token that is or was on file is     *)
(* past its making, so no token is made up twice.                          *)
(***************************************************************************)
EXTENDS Instances, TLAPS

\* A run that knows its token, and has not given up yet.
HasToken(i) ==
    at[i] \in {"locking", "recovering", "emptying", "binding", "listening", "unlocking"}

HasLock(i) == at[i] \in {"recovering", "emptying", "binding", "listening"}

\* A run that is still to make up its token.
Fresh(i) == at[i] \in {"unused", "token", "creating"}

\* What holds of the token file between the steps of runs that do not overlap.
TokenOnFile ==
    /\ \A i \in Runs : HasToken(i) =>
          IF i \in outdated THEN tokenFile = NoRun
          ELSE tokenFile # NoRun /\ token[i] = tokenFile
    /\ \A i \in Runs : at[i] = "creating" => tokenFile = NoRun /\ token[i] = i
    /\ \A i \in Runs : Fresh(i) => i \notin outdated /\ i \notin revoked /\ i # tokenFile
    /\ handed \subseteq {tokenFile} \ {NoRun}
    /\ tokenFile \notin revoked

\* What holds between the steps of runs that do not overlap.
OneAtATime ==
    /\ \A i, j \in Runs : Alive(i) /\ Alive(j) => i = j
    /\ TokenOnFile
    /\ \A i \in Runs : HasLock(i) /\ i \notin refused \cup released => wakeLock

InstancesInv == InstancesTypeOK /\ (apart => OneAtATime)

-----------------------------------------------------------------------------
\* The types are kept by every step.
LEMMA TypesStep ==
    ASSUME InstancesTypeOK, [Next]_vars
    PROVE  InstancesTypeOK'
<1> USE DEF InstancesTypeOK, Places, Goto, tokens, lock, children
<1>1. CASE UNCHANGED vars
  BY <1>1 DEF vars
<1>2. CASE DeleteToken
  BY <1>2 DEF DeleteToken, Alive
<1>3. ASSUME NEW i \in Runs, Run(i)
      PROVE  InstancesTypeOK'
  <2>1. CASE Start(i)
    BY <2>1 DEF Start
  <2>2. CASE ReadToken(i)
    BY <2>2 DEF ReadToken
  <2>3. CASE MakeToken(i)
    BY <2>3 DEF MakeToken
  <2>4. CASE WriteToken(i)
    BY <2>4 DEF WriteToken
  <2>5. CASE TakeWakeLock(i)
    BY <2>5 DEF TakeWakeLock
  <2>6. CASE Recover(i)
    BY <2>6 DEF Recover
  <2>7. CASE EmptyPidFile(i)
    BY <2>7 DEF EmptyPidFile
  <2>8. CASE Listen(i)
    BY <2>8 DEF Listen
  <2>9. CASE BindFails(i) \/ Interrupt(i) \/ Unlock(i) \/ Die(i)
    BY <2>9 DEF BindFails, Interrupt, Unlock, Die
  <2>10. CASE StartChild(i)
    BY <2>10 DEF StartChild
  <2>11. CASE WakeLockVerb(i) \/ WakeUnlockVerb(i)
    BY <2>11 DEF WakeLockVerb, WakeUnlockVerb
  <2> QED
    BY <1>3, <2>1, <2>2, <2>3, <2>4, <2>5, <2>6, <2>7, <2>8, <2>9, <2>10, <2>11 DEF Run
<1> QED
  BY <1>1, <1>2, <1>3 DEF Next

\* Steps of runs that do not overlap keep their invariant.
LEMMA OneAtATimeStep ==
    ASSUME InstancesTypeOK, apart => OneAtATime, [Next]_vars, apart'
    PROVE  OneAtATime'
<1> USE InstancesAssumption
    DEF InstancesTypeOK, Places, Goto, tokens, lock, children, OneAtATime, TokenOnFile,
        HasToken, Fresh, HasLock, Alive
<1>1. CASE UNCHANGED vars
  BY <1>1 DEF vars
<1>2. CASE DeleteToken
  BY <1>2 DEF DeleteToken, Alive
<1>3. ASSUME NEW i \in Runs, Run(i)
      PROVE  OneAtATime'
  <2>1. CASE Start(i)
    BY <2>1 DEF Start
  <2>2. CASE ReadToken(i)
    BY <2>2 DEF ReadToken
  <2>3. CASE MakeToken(i)
    BY <2>3 DEF MakeToken
  <2>4. CASE WriteToken(i)
    BY <2>4 DEF WriteToken
  <2>5. CASE TakeWakeLock(i)
    BY <2>5 DEF TakeWakeLock
  <2>6. CASE Recover(i)
    BY <2>6 DEF Recover
  <2>7. CASE EmptyPidFile(i)
    BY <2>7 DEF EmptyPidFile
  <2>8. CASE Listen(i)
    BY <2>8 DEF Listen
  <2>9. CASE BindFails(i)
    BY <2>9 DEF BindFails
  <2>10. CASE Interrupt(i)
    BY <2>10 DEF Interrupt
  <2>11. CASE StartChild(i)
    BY <2>11 DEF StartChild
  <2>12. CASE Unlock(i)
    BY <2>12 DEF Unlock
  <2>13. CASE Die(i)
    BY <2>13 DEF Die
  <2>14. CASE WakeLockVerb(i)
    BY <2>14 DEF WakeLockVerb
  <2>15. CASE WakeUnlockVerb(i)
    BY <2>15 DEF WakeUnlockVerb
  <2> QED
    BY <1>3, <2>1, <2>2, <2>3, <2>4, <2>5, <2>6, <2>7, <2>8, <2>9, <2>10, <2>11, <2>12,
       <2>13, <2>14, <2>15
       DEF Run
<1> QED
  BY <1>1, <1>2, <1>3 DEF Next

\* The state of the runs keeps its types, and the invariant holds throughout.
THEOREM InstancesInvariant == Spec => []InstancesInv
<1>1. Init => InstancesInv
  BY InstancesAssumption
     DEF Init, InstancesInv, InstancesTypeOK, Places, OneAtATime, TokenOnFile, Alive,
         HasToken, Fresh, HasLock
<1>2. InstancesInv /\ [Next]_vars => InstancesInv'
  BY TypesStep, OneAtATimeStep DEF InstancesInv
<1> QED
  BY <1>1, <1>2, PTL DEF Spec

\* Through restarts, crashes and rotations of the token (daemon.py
\* _load_or_create_token), for any number of runs that do not overlap: every token a
\* client read since the file was last deleted opens the run that listens, and a run
\* that got its token after that accepts no token ever deleted.
THEOREM InstancesTokens == Spec => []KnownTokenWorks
<1>1. InstancesInv => KnownTokenWorks
  BY DEF InstancesInv, OneAtATime, TokenOnFile, HasToken, KnownTokenWorks
<1> QED
  BY <1>1, InstancesInvariant, PTL

\* The wake lock is held while a run listens whose own command took it (daemon.main)
\* and whose clients did not have it released, whatever earlier runs and their clients
\* did, for any number of runs that do not overlap.
THEOREM InstancesWakeLock == Spec => []WakeLockHeld
<1>1. InstancesInv => WakeLockHeld
  BY DEF InstancesInv, OneAtATime, HasLock, WakeLockHeld
<1> QED
  BY <1>1, InstancesInvariant, PTL

=============================================================================
