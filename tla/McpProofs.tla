------------------------------ MODULE McpProofs ------------------------------
(***************************************************************************)
(* Proofs about a call from its POST to the end of its job, for any number *)
(* of calls, keys, verbs, faults and restarts, and whether or not the      *)
(* daemon recovers its jobs: ConfirmJobs, Engine and Mcp together.         *)
(*                                                                         *)
(* The invariant ties the thread of a job to its row (JobLink), the call   *)
(* to its job (CallLink), an idempotency row and the copy of it a call     *)
(* replays to the call that wrote it (Backed), and an answer to an         *)
(* execution of the same request (DoneLink).                               *)
(***************************************************************************)
EXTENDS Mcp, WellFoundedInduction, TLAPS

\* What the thread of a job has done so far is what the row and the history say.
JobLink(c) ==
    /\ /\ status[c] = "absent" <=> code[c] = 0
       /\ status[c] = "pending" => code[c] = 202
       /\ status[c] = "executed" => code[c] = 200
       /\ status[c] = "failed" => code[c] \in {400, 500}
       /\ status[c] = "denied" => code[c] = 403
    /\ /\ status[c] = "absent" => worker[c] = "none"
       /\ worker[c] \in {"asking", "answered", "denying", "executing", "storing"} =>
             status[c] = "pending"
       /\ worker[c] = "notifying" => status[c] \in Terminal
       /\ worker[c] = "excusing" => status[c] = "failed"
       /\ daemon = "starting" => worker[c] \in {"none", "dead"}
    /\ /\ worker[c] \in {"none", "asking"} => answer[c] = "none"
       /\ worker[c] = "answered" => answer[c] \in {"yes", "no"}
       /\ worker[c] = "denying" => answer[c] = "no"
       /\ worker[c] \in {"executing", "storing"} => answer[c] = "yes"
    /\ /\ worker[c] \in {"asking", "answered", "denying", "executing"} => ran[c] = "no"
       /\ worker[c] = "storing" => result[c] # 0 /\ (result[c] = 200 <=> ran[c] = "ok")
       /\ worker[c] = "failing" /\ faults = 0 => ran[c] # "ok"
       /\ status[c] # "absent" /\ ran[c] # "no" => answer[c] = "yes"
       /\ status[c] = "executed" => ran[c] = "ok" /\ answer[c] = "yes"
       /\ status[c] = "denied" => ran[c] = "no" /\ answer[c] = "no"
       /\ status[c] = "failed" /\ faults = 0 => ran[c] # "ok"
    /\ posted[c] # <<>> =>
          /\ worker[c] \in {"ended", "dead"}
          /\ status[c] \in Terminal
          /\ posted[c] = <<status[c]>>

\* Only a call of a gated verb has a job, and only from its submission on.
CallLink(c) ==
    /\ /\ at[c] \in {"idle", "looking", "replaying", "checking", "submitting", "executing"} =>
             status[c] = "absent" /\ ran[c] = "no"
       /\ at[c] = "starting" => status[c] = "pending" /\ worker[c] = "none" /\ ran[c] = "no"
       /\ at[c] = "reading" => status[c] # "absent"
       /\ daemon = "starting" => at[c] \in {"idle", "done", "dead"}
    /\ /\ at[c] \notin {"idle", "done", "dead"} => req[c].early = 0
       /\ at[c] \in {"looking", "replaying", "recording"} => req[c].key \in Keys
       /\ at[c] \in {"submitting", "starting", "reading"} => req[c].verb \in Gated
       /\ at[c] = "executing" => req[c].verb \notin Gated
       /\ status[c] # "absent" => req[c].verb \in Gated
       /\ req[c].verb \in Gated /\ ran[c] # "no" => status[c] # "absent"
    /\ at[c] = "recording" =>
          /\ reply[c] \in {200, 202, 400, 500}
          /\ IF req[c].verb \in Gated THEN reply[c] = 202 /\ status[c] # "absent"
             ELSE reply[c] # 202 /\ (reply[c] = 200 => ran[c] = "ok")
    /\ at[c] = "done" => reply[c] # 0
    /\ late[c] =>
          /\ at[c] \in {"looking", "replaying", "done", "dead"}
          /\ status[c] = "absent" /\ ran[c] = "no"
          /\ at[c] = "looking" => Recorded(req[c]) # NoRecord

\* r is the row that its call wrote, or would write, for key k of verb v.
Backed(r, v, k) ==
    /\ at[r.by] # "idle"
    /\ req[r.by].early = 0 /\ req[r.by].verb = v /\ req[r.by].key = k
    /\ req[r.by].payload = r.payload
    /\ IF r.job THEN status[r.by] # "absent" /\ r.status = 202
       ELSE r.status # 202 /\ (r.status = 200 => ran[r.by] = "ok")

PriorLink(c) ==
    at[c] = "replaying" =>
        /\ prior[c] # NoRecord
        /\ prior[c].job /\ prior[c].payload = req[c].payload
        /\ Backed(prior[c], req[c].verb, req[c].key)

\* "Done", said of a request, is true of it: some call of it ran the command well.
DoneLink(c) ==
    at[c] = "done" /\ req[c].early = 0 /\ reply[c] = 200 =>
        \E d \in Calls : ran[d] = "ok" /\ req[d] = req[c]

RecordsLink ==
    \A v \in Verbs, k \in Keys : record[v][k] # NoRecord => Backed(record[v][k], v, k)

EngineInv ==
    /\ JobsTypeOK /\ EngineTypeOK
    /\ daemon = "starting" => faults # 0
    /\ \A c \in Calls : JobLink(c) /\ CallLink(c) /\ PriorLink(c) /\ DoneLink(c)
    /\ RecordsLink

McpInv == EngineInv /\ McpTypeOK

-----------------------------------------------------------------------------
(* What a step of one call leaves alone.                                   *)

\* Nothing of call d changes.
JobSame(d) ==
    /\ status'[d] = status[d] /\ code'[d] = code[d] /\ worker'[d] = worker[d]
    /\ result'[d] = result[d] /\ answer'[d] = answer[d] /\ ran'[d] = ran[d]
    /\ posted'[d] = posted[d]

Same(d) ==
    /\ JobSame(d)
    /\ at'[d] = at[d] /\ req'[d] = req[d] /\ prior'[d] = prior[d]
    /\ reply'[d] = reply[d] /\ late'[d] = late[d]

\* What a step takes back of no call: its request, its job, its success.
Advances(d) ==
    /\ at[d] # "idle" => at'[d] # "idle" /\ req'[d] = req[d]
    /\ status[d] # "absent" => status'[d] # "absent"
    /\ ran[d] = "ok" => ran'[d] = "ok"

\* A row stays backed by its call while the calls advance.
LEMMA BackedStays ==
    ASSUME NEW r \in Records, NEW v, NEW k, Backed(r, v, k), \A d \in Calls : Advances(d)
    PROVE  Backed(r, v, k)'
<1>1. r.by \in Calls
  BY DEF Records
<1>2. Advances(r.by)
  BY <1>1
<1> QED BY <1>2 DEF Backed, Advances

\* And so are all rows, when a new one is.
LEMMA RecordsStay ==
    ASSUME RecordsLink, EngineTypeOK, \A d \in Calls : Advances(d),
           \A v \in Verbs, k \in Keys :
              \/ record'[v][k] = record[v][k]
              \/ Backed(record[v][k], v, k)'
    PROVE  RecordsLink'
<1>1. SUFFICES ASSUME NEW v \in Verbs, NEW k \in Keys, record'[v][k] # NoRecord,
                      record'[v][k] = record[v][k]
               PROVE  Backed(record[v][k], v, k)'
  BY DEF RecordsLink
<1>2. PICK r \in Records : r = record[v][k]
  BY <1>1 DEF EngineTypeOK
<1>3. Backed(r, v, k)'
  BY <1>1, <1>2, BackedStays DEF RecordsLink
<1> QED BY <1>1, <1>2, <1>3 DEF Backed

\* A call that replays goes on having its row to replay.
LEMMA PriorStays ==
    ASSUME NEW c \in Calls, PriorLink(c), EngineTypeOK, \A d \in Calls : Advances(d),
           at[c] = "replaying", prior'[c] = prior[c]
    PROVE  PriorLink(c)'
<1>1. PICK r \in Records : r = prior[c]
  BY DEF PriorLink, EngineTypeOK
<1>2. req'[c] = req[c]
  BY DEF Advances
<1>3. Backed(r, req[c].verb, req[c].key)
  BY <1>1 DEF PriorLink
<1>4. r # NoRecord /\ r.job /\ r.payload = req[c].payload
  BY <1>1 DEF PriorLink
<1>5. PICK v, k : v = req[c].verb /\ k = req[c].key
  OBVIOUS
<1>6. Backed(r, v, k)'
  BY <1>3, <1>5, BackedStays
<1> QED BY <1>1, <1>2, <1>4, <1>5, <1>6 DEF PriorLink, Backed

\* A call that was told "done" was told the truth for good.
LEMMA DoneStays ==
    ASSUME NEW c \in Calls, DoneLink(c), \A d \in Calls : CallLink(d) /\ Advances(d),
           EngineTypeOK, at[c] = "done", reply'[c] = reply[c]
    PROVE  DoneLink(c)'
<1>1. req'[c] = req[c]
  BY DEF Advances
<1>2. SUFFICES ASSUME NEW d \in Calls, ran[d] = "ok", req[d] = req[c]
               PROVE  ran'[d] = "ok" /\ req'[d] = req[c]
  BY <1>1 DEF DoneLink
<1>3. at[d] # "idle"
  BY <1>2 DEF CallLink
<1> QED BY <1>2, <1>3 DEF Advances

\* A call that does not take the step is where it was.
LEMMA OthersStay ==
    ASSUME NEW d \in Calls, EngineInv, EngineTypeOK', Same(d), \A e \in Calls : Advances(e),
           daemon' = daemon, faults' \in Nat, faults' >= faults,
           \A v \in Verbs, k \in Keys : record[v][k] # NoRecord => record'[v][k] # NoRecord
    PROVE  (JobLink(d) /\ CallLink(d) /\ PriorLink(d) /\ DoneLink(d))'
<1>1. JobLink(d) /\ CallLink(d) /\ PriorLink(d) /\ DoneLink(d) /\ JobsTypeOK /\ EngineTypeOK
  BY DEF EngineInv
<1>2. faults' = 0 => faults = 0
  BY <1>1 DEF JobsTypeOK
<1>3. JobLink(d)'
  BY <1>1, <1>2 DEF JobLink, Same, JobSame
<1>4. req[d] \in RequestType /\ (Recorded(req[d]) # NoRecord => Recorded(req[d])' # NoRecord)
  BY <1>1 DEF Recorded, EngineTypeOK, RequestType, Same
<1>5. CallLink(d)'
  BY <1>1, <1>4 DEF CallLink, Same, JobSame
<1>6. PriorLink(d)'
  BY <1>1, PriorStays DEF Same, PriorLink
<1>7. DoneLink(d)'
  <2>1. \A e \in Calls : CallLink(e)
    BY DEF EngineInv
  <2>2. CASE at[d] = "done"
    BY <1>1, <2>1, <2>2, DoneStays DEF Same
  <2>3. CASE at[d] # "done"
    BY <2>3 DEF Same, DoneLink
  <2> QED BY <2>2, <2>3
<1> QED BY <1>3, <1>5, <1>6, <1>7

\* A step of one call: what is left to show about it.
LEMMA OneCall ==
    ASSUME NEW c \in Calls, EngineInv, (JobsTypeOK /\ EngineTypeOK)',
           \A d \in Calls \ {c} : Same(d), Advances(c),
           daemon' = daemon, faults' >= faults,
           \A v \in Verbs, k \in Keys :
              \/ record'[v][k] = record[v][k]
              \/ record'[v][k] # NoRecord /\ Backed(record[v][k], v, k)',
           (JobLink(c) /\ CallLink(c))',
           \/ at'[c] # "replaying"
           \/ at[c] = "replaying" /\ prior'[c] = prior[c]
           \/ PriorLink(c)',
           \/ at'[c] # "done"
           \/ at[c] = "done" /\ reply'[c] = reply[c]
           \/ DoneLink(c)'
    PROVE  EngineInv'
<1>1. \A d \in Calls : Advances(d)
  BY DEF Same, JobSame, Advances
<1>2. RecordsLink'
  BY <1>1, RecordsStay DEF EngineInv
<1>3. (daemon = "starting" => faults # 0)'
  BY DEF EngineInv, JobsTypeOK
<1>4. ASSUME NEW d \in Calls \ {c}
      PROVE  (JobLink(d) /\ CallLink(d) /\ PriorLink(d) /\ DoneLink(d))'
  <2>1. Same(d) /\ faults' \in Nat
    BY DEF JobsTypeOK
  <2>2. \A v \in Verbs, k \in Keys : record[v][k] # NoRecord => record'[v][k] # NoRecord
    OBVIOUS
  <2> QED BY <1>1, <2>1, <2>2, OthersStay
<1>5. EngineTypeOK /\ PriorLink(c) /\ DoneLink(c) /\ \A d \in Calls : CallLink(d)
  BY DEF EngineInv
<1>6. PriorLink(c)'
  <2>1. CASE at'[c] # "replaying"
    BY <2>1 DEF PriorLink
  <2>2. CASE at[c] = "replaying" /\ prior'[c] = prior[c]
    BY <1>1, <1>5, <2>2, PriorStays
  <2> QED BY <2>1, <2>2
<1>7. DoneLink(c)'
  <2>1. CASE at'[c] # "done"
    BY <2>1 DEF DoneLink
  <2>2. CASE at[c] = "done" /\ reply'[c] = reply[c]
    BY <1>1, <1>5, <2>2, DoneStays
  <2> QED BY <2>1, <2>2
<1> QED BY <1>2, <1>3, <1>4, <1>6, <1>7 DEF EngineInv

\* A step of the thread of a job, and fail_orphans on its row.
LEMMA OneJob ==
    ASSUME NEW c \in Calls, EngineInv, JobsTypeOK', UNCHANGED engineVars,
           \A d \in Calls \ {c} : JobSame(d),
           daemon' = daemon, faults' >= faults,
           status[c] # "absent", status'[c] # "absent", at[c] # "starting",
           ran[c] = "ok" => ran'[c] = "ok",
           JobLink(c)'
    PROVE  EngineInv'
<1>1. EngineTypeOK /\ JobLink(c) /\ CallLink(c)
  BY DEF EngineInv
<1>2. EngineTypeOK'
  BY <1>1 DEF EngineTypeOK, engineVars
<1>3. \A d \in Calls \ {c} : Same(d)
  BY DEF Same, engineVars
<1>4. Advances(c)
  BY DEF Advances, engineVars
<1>5. CallLink(c)'
  BY <1>1 DEF CallLink, Recorded, engineVars
<1>6. at'[c] # "replaying"
  BY <1>1 DEF CallLink, engineVars
<1> QED BY <1>2, <1>3, <1>4, <1>5, <1>6, OneCall DEF engineVars

-----------------------------------------------------------------------------
(* The steps of the thread of a job.                                       *)

Stages == {"none", "asking", "answered", "denying", "executing", "storing", "notifying",
           "failing", "excusing", "ended", "dead"}

LEMMA WorkMoves ==
    ASSUME NEW c \in Calls, JobsTypeOK, NEW from, NEW to \in Stages,
           Work(c, from, to)
    PROVE  /\ worker[c] = from /\ worker'[c] = to
           /\ \A d \in Calls \ {c} : worker'[d] = worker[d]
           /\ worker' \in [Calls -> Stages]
BY DEF Work, JobsTypeOK, Stages

LEMMA PutMoves ==
    ASSUME NEW c \in Calls, JobsTypeOK,
           NEW s \in {"pending"} \cup Terminal, NEW h \in {202, 200, 400, 403, 500},
           PutJob(c, s, h)
    PROVE  /\ status'[c] = s /\ code'[c] = h
           /\ \A d \in Calls \ {c} : status'[d] = status[d] /\ code'[d] = code[d]
           /\ status' \in [Calls -> {"absent", "pending"} \cup Terminal]
           /\ code' \in [Calls -> {0, 200, 202, 400, 403, 500}]
BY DEF PutJob, JobsTypeOK

LEMMA PostMoves ==
    ASSUME NEW c \in Calls, JobsTypeOK, Post(c), status[c] \in Terminal
    PROVE  /\ posted'[c] \in {posted[c], Append(posted[c], status[c])}
           /\ \A d \in Calls \ {c} : posted'[d] = posted[d]
           /\ posted' \in [Calls -> Seq(Terminal \cup {"pending"})]
<1>1. posted \in [Calls -> Seq(Terminal \cup {"pending"})]
  BY DEF JobsTypeOK
<1>2. Append(posted[c], status[c]) \in Seq(Terminal \cup {"pending"})
  BY <1>1
<1>3. CASE posted' = [posted EXCEPT ![c] = Append(posted[c], status[c])]
  BY <1>1, <1>2, <1>3
<1>4. CASE posted' = posted
  BY <1>1, <1>4
<1> QED BY <1>3, <1>4 DEF Post

\* An action of the thread, or an error in it, keeps the invariant.
LEMMA JobStepKeeps ==
    ASSUME NEW c \in Calls, EngineInv, JobStep(c)
    PROVE  EngineInv'
<1>1. JobsTypeOK /\ EngineTypeOK /\ JobLink(c) /\ CallLink(c) /\ faults \in Nat /\ MaxFaults \in Nat
  BY JobsAssumption DEF EngineInv, JobsTypeOK
<1>2. UNCHANGED engineVars
  BY DEF JobStep
<1>3. CASE Ask(c)
  <2>0. PICK a \in {"yes", "no"} : answer' = [answer EXCEPT ![c] = a]
    BY <1>3 DEF Ask
  <2>8. answer'[c] = a /\ (\A d \in Calls \ {c} : answer'[d] = answer[d])
        /\ Work(c, "asking", "answered") /\ UNCHANGED <<status, code, result, ran, posted, daemon, faults>>
    BY <1>1, <1>3, <2>0 DEF Ask, env, JobsTypeOK
  <2>1. worker[c] = "asking" /\ worker'[c] = "answered" /\ (\A d \in Calls \ {c} : worker'[d] = worker[d]) /\ JobsTypeOK'
    <3>1. Work(c, "asking", "answered")
      BY <2>0, <2>8
    <3>2. worker[c] = "asking" /\ worker'[c] = "answered" /\ (\A d \in Calls \ {c} : worker'[d] = worker[d]) /\ worker' \in [Calls -> Stages]
      BY <1>1, <3>1, WorkMoves DEF Stages
    <3> QED BY <1>1, <2>0, <2>8, <3>2 DEF JobsTypeOK, Stages
  <2>2. JobLink(c)'
    BY <1>1, <2>0, <2>8, <2>1 DEF JobLink
  <2>3. status[c] # "absent" /\ status'[c] # "absent" /\ at[c] # "starting"
        /\ (ran[c] = "ok" => ran'[c] = "ok")
    BY <1>1, <2>0, <2>8, <2>1 DEF JobLink, CallLink
  <2> QED BY <1>1, <1>2, <2>0, <2>8, <2>1, <2>2, <2>3, OneJob DEF JobSame
<1>4. CASE AskRaises(c)
  <2>1. worker[c] = "asking" /\ worker'[c] = "failing" /\ (\A d \in Calls \ {c} : worker'[d] = worker[d]) /\ JobsTypeOK'
    <3>1. Work(c, "asking", "failing")
      BY <1>4 DEF AskRaises, env
    <3>2. worker[c] = "asking" /\ worker'[c] = "failing" /\ (\A d \in Calls \ {c} : worker'[d] = worker[d]) /\ worker' \in [Calls -> Stages]
      BY <1>1, <3>1, WorkMoves DEF Stages
    <3> QED BY <1>1, <1>4, <3>2 DEF JobsTypeOK, Stages, AskRaises, env
  <2>2. JobLink(c)'
    BY <1>1, <1>4, <2>1 DEF JobLink, AskRaises, env
  <2>3. status[c] # "absent" /\ status'[c] # "absent" /\ at[c] # "starting"
        /\ (ran[c] = "ok" => ran'[c] = "ok")
    BY <1>1, <1>4, <2>1 DEF JobLink, CallLink, AskRaises, env
  <2> QED BY <1>1, <1>2, <1>4, <2>1, <2>2, <2>3, OneJob DEF JobSame, AskRaises, env
<1>5. CASE RecordDecision(c) /\ answer[c] = "yes"
  <2>1. worker[c] = "answered" /\ worker'[c] = "executing" /\ (\A d \in Calls \ {c} : worker'[d] = worker[d]) /\ JobsTypeOK'
    <3>1. Work(c, "answered", "executing")
      BY <1>5 DEF RecordDecision, Decided, env
    <3>2. worker[c] = "answered" /\ worker'[c] = "executing" /\ (\A d \in Calls \ {c} : worker'[d] = worker[d]) /\ worker' \in [Calls -> Stages]
      BY <1>1, <3>1, WorkMoves DEF Stages
    <3> QED BY <1>1, <1>5, <3>2 DEF JobsTypeOK, Stages, RecordDecision, env
  <2>2. JobLink(c)'
    BY <1>1, <1>5, <2>1 DEF JobLink, RecordDecision, env
  <2>3. status[c] # "absent" /\ status'[c] # "absent" /\ at[c] # "starting"
        /\ (ran[c] = "ok" => ran'[c] = "ok")
    BY <1>1, <1>5, <2>1 DEF JobLink, CallLink, RecordDecision, Decided, env
  <2> QED BY <1>1, <1>2, <1>5, <2>1, <2>2, <2>3, OneJob DEF JobSame, RecordDecision, Decided, env
<1>6. CASE RecordDecision(c) /\ answer[c] # "yes"
  <2>1. worker[c] = "answered" /\ worker'[c] = "denying" /\ (\A d \in Calls \ {c} : worker'[d] = worker[d]) /\ JobsTypeOK'
    <3>1. Work(c, "answered", "denying")
      BY <1>6 DEF RecordDecision, Decided, env
    <3>2. worker[c] = "answered" /\ worker'[c] = "denying" /\ (\A d \in Calls \ {c} : worker'[d] = worker[d]) /\ worker' \in [Calls -> Stages]
      BY <1>1, <3>1, WorkMoves DEF Stages
    <3> QED BY <1>1, <1>6, <3>2 DEF JobsTypeOK, Stages, RecordDecision, env
  <2>2. JobLink(c)'
    BY <1>1, <1>6, <2>1 DEF JobLink, RecordDecision, env
  <2>3. status[c] # "absent" /\ status'[c] # "absent" /\ at[c] # "starting"
        /\ (ran[c] = "ok" => ran'[c] = "ok")
    BY <1>1, <1>6, <2>1 DEF JobLink, CallLink, RecordDecision, Decided, env
  <2> QED BY <1>1, <1>2, <1>6, <2>1, <2>2, <2>3, OneJob DEF JobSame, RecordDecision, Decided, env
<1>7. CASE StoreDenied(c)
  <2>1. worker[c] = "denying" /\ worker'[c] = "notifying" /\ (\A d \in Calls \ {c} : worker'[d] = worker[d]) /\ worker' \in [Calls -> Stages]
    <3>1. Work(c, "denying", "notifying")
      BY <1>7 DEF StoreDenied
    <3> QED BY <1>1, <3>1, WorkMoves DEF Stages
  <2>2. /\ status'[c] = "denied" /\ code'[c] = 403
        /\ \A d \in Calls \ {c} : status'[d] = status[d] /\ code'[d] = code[d]
        /\ JobsTypeOK'
    <3>1. PutJob(c, "denied", 403)
      BY <1>7 DEF StoreDenied
    <3>2. "denied" \in {"pending"} \cup Terminal /\ 403 \in {202, 200, 400, 403, 500}
      BY DEF Terminal
    <3>3. /\ status'[c] = "denied" /\ code'[c] = 403
          /\ \A d \in Calls \ {c} : status'[d] = status[d] /\ code'[d] = code[d]
          /\ status' \in [Calls -> {"absent", "pending"} \cup Terminal]
          /\ code' \in [Calls -> {0, 200, 202, 400, 403, 500}]
      BY <1>1, <3>1, <3>2, PutMoves
    <3> QED BY <1>1, <1>7, <2>1, <3>3 DEF JobsTypeOK, Stages, StoreDenied, env
  <2>3. JobLink(c)'
    BY <1>1, <1>7, <2>1, <2>2 DEF JobLink, Terminal, StoreDenied, env
  <2>4. status[c] # "absent" /\ status'[c] # "absent" /\ at[c] # "starting"
    BY <1>1, <2>1, <2>2 DEF JobLink, CallLink
  <2> QED BY <1>1, <1>2, <1>7, <2>1, <2>2, <2>3, <2>4, OneJob DEF JobSame, StoreDenied, env
<1>8. CASE Execute(c)
  <2>0. PICK e \in Executions : /\ ran' = [ran EXCEPT ![c] = e[1]]
                               /\ result' = [result EXCEPT ![c] = e[2]]
                               /\ Work(c, "executing", IF e[2] = 0 THEN "failing" ELSE "storing")
    BY <1>8 DEF Execute
  <2>4. /\ ran'[c] = e[1] /\ result'[c] = e[2]
        /\ \A d \in Calls \ {c} : ran'[d] = ran[d] /\ result'[d] = result[d]
        /\ ran' \in [Calls -> Outcomes] /\ result' \in [Calls -> {0, 200, 400, 500}]
        /\ e[1] \in Outcomes /\ e[2] \in {0, 200, 400, 500}
        /\ (e[2] = 200 <=> e[1] = "ok") /\ (e[2] = 0 => e[1] = "no")
    BY <1>1, <2>0 DEF Executions, Outcomes, JobsTypeOK
  <2>8. UNCHANGED <<status, code, answer, posted, daemon, faults>>
    BY <1>8 DEF Execute, env
  <2>5. CASE e[2] = 0
    <3>1. worker[c] = "executing" /\ worker'[c] = "failing" /\ (\A d \in Calls \ {c} : worker'[d] = worker[d]) /\ JobsTypeOK'
      <4>1. Work(c, "executing", "failing")
        BY <2>0, <2>4, <2>8, <2>5
      <4>2. worker[c] = "executing" /\ worker'[c] = "failing" /\ (\A d \in Calls \ {c} : worker'[d] = worker[d]) /\ worker' \in [Calls -> Stages]
        BY <1>1, <4>1, WorkMoves DEF Stages
      <4> QED BY <1>1, <2>0, <2>4, <2>8, <2>5, <4>2 DEF JobsTypeOK, Stages
    <3>2. JobLink(c)'
      BY <1>1, <2>0, <2>4, <2>8, <2>5, <3>1 DEF JobLink
    <3>3. status[c] # "absent" /\ status'[c] # "absent" /\ at[c] # "starting"
          /\ (ran[c] = "ok" => ran'[c] = "ok")
      BY <1>1, <2>0, <2>4, <2>8, <2>5, <3>1 DEF JobLink, CallLink
    <3> QED BY <1>1, <1>2, <2>0, <2>4, <2>8, <2>5, <3>1, <3>2, <3>3, OneJob DEF JobSame
  <2>6. CASE e[2] # 0
    <3>1. worker[c] = "executing" /\ worker'[c] = "storing" /\ (\A d \in Calls \ {c} : worker'[d] = worker[d]) /\ JobsTypeOK'
      <4>1. Work(c, "executing", "storing")
        BY <2>0, <2>4, <2>8, <2>6
      <4>2. worker[c] = "executing" /\ worker'[c] = "storing" /\ (\A d \in Calls \ {c} : worker'[d] = worker[d]) /\ worker' \in [Calls -> Stages]
        BY <1>1, <4>1, WorkMoves DEF Stages
      <4> QED BY <1>1, <2>0, <2>4, <2>8, <2>6, <4>2 DEF JobsTypeOK, Stages
    <3>2. JobLink(c)'
      BY <1>1, <2>0, <2>4, <2>8, <2>6, <3>1 DEF JobLink
    <3>3. status[c] # "absent" /\ status'[c] # "absent" /\ at[c] # "starting"
          /\ (ran[c] = "ok" => ran'[c] = "ok")
      BY <1>1, <2>0, <2>4, <2>8, <2>6, <3>1 DEF JobLink, CallLink
    <3> QED BY <1>1, <1>2, <2>0, <2>4, <2>8, <2>6, <3>1, <3>2, <3>3, OneJob DEF JobSame
  <2> QED BY <2>5, <2>6
<1>9. CASE StoreResult(c)
  <2>1. worker[c] = "storing" /\ worker'[c] = "notifying" /\ (\A d \in Calls \ {c} : worker'[d] = worker[d]) /\ worker' \in [Calls -> Stages]
    <3>1. Work(c, "storing", "notifying")
      BY <1>9 DEF StoreResult
    <3> QED BY <1>1, <3>1, WorkMoves DEF Stages
  <2>0. result[c] \in {200, 400, 500}
    BY <1>1, <2>1 DEF JobLink, JobsTypeOK
  <2>2. /\ status'[c] = (IF result[c] >= 400 THEN "failed" ELSE "executed") /\ code'[c] = result[c]
        /\ \A d \in Calls \ {c} : status'[d] = status[d] /\ code'[d] = code[d]
        /\ JobsTypeOK'
    <3>1. PutJob(c, (IF result[c] >= 400 THEN "failed" ELSE "executed"), result[c])
      BY <1>9, <2>0 DEF StoreResult
    <3>2. (IF result[c] >= 400 THEN "failed" ELSE "executed") \in {"pending"} \cup Terminal /\ result[c] \in {202, 200, 400, 403, 500}
      BY <2>0 DEF Terminal
    <3>3. /\ status'[c] = (IF result[c] >= 400 THEN "failed" ELSE "executed") /\ code'[c] = result[c]
          /\ \A d \in Calls \ {c} : status'[d] = status[d] /\ code'[d] = code[d]
          /\ status' \in [Calls -> {"absent", "pending"} \cup Terminal]
          /\ code' \in [Calls -> {0, 200, 202, 400, 403, 500}]
      BY <1>1, <3>1, <3>2, PutMoves
    <3> QED BY <1>1, <1>9, <2>1, <3>3 DEF JobsTypeOK, Stages, StoreResult, env
  <2>3. JobLink(c)'
    BY <1>1, <1>9, <2>0, <2>1, <2>2 DEF JobLink, Terminal, StoreResult, env
  <2>4. status[c] # "absent" /\ status'[c] # "absent" /\ at[c] # "starting"
    BY <1>1, <2>1, <2>2 DEF JobLink, CallLink
  <2> QED BY <1>1, <1>2, <1>9, <2>1, <2>2, <2>3, <2>4, OneJob DEF JobSame, StoreResult, env
<1>10. CASE Notify(c)
  <2>1. worker[c] = "notifying" /\ worker'[c] = "ended" /\ (\A d \in Calls \ {c} : worker'[d] = worker[d]) /\ worker' \in [Calls -> Stages]
    <3>1. Work(c, "notifying", "ended")
      BY <1>10 DEF Notify
    <3> QED BY <1>1, <3>1, WorkMoves DEF Stages
  <2>2. status[c] \in Terminal /\ posted[c] = <<>>
    BY <1>1, <2>1 DEF JobLink, Terminal
  <2>3. posted'[c] \in {<<>>, <<status[c]>>} /\ JobsTypeOK'
        /\ (\A d \in Calls \ {c} : posted'[d] = posted[d])
    <3>1. Post(c)
      BY <1>10 DEF Notify
    <3>2. Append(posted[c], status[c]) = <<status[c]>>
      BY <2>2
    <3>3. /\ posted'[c] \in {posted[c], Append(posted[c], status[c])}
          /\ \A d \in Calls \ {c} : posted'[d] = posted[d]
          /\ posted' \in [Calls -> Seq(Terminal \cup {"pending"})]
      BY <1>1, <2>2, <3>1, PostMoves
    <3> QED BY <1>1, <1>10, <2>1, <2>2, <3>2, <3>3 DEF JobsTypeOK, Stages, Notify, env
  <2>4. JobLink(c)'
    BY <1>1, <1>10, <2>1, <2>2, <2>3 DEF JobLink, Notify, env
  <2>5. status'[c] # "absent" /\ status[c] # "absent" /\ at[c] # "starting"
    BY <1>1, <1>10, <2>1, <2>2 DEF JobLink, CallLink, Terminal, Notify
  <2> QED BY <1>1, <1>2, <1>10, <2>1, <2>3, <2>4, <2>5, OneJob DEF JobSame, Notify, env
<1>11. CASE StoreFailed(c)
  <2>1. worker[c] = "failing" /\ worker'[c] = "excusing" /\ (\A d \in Calls \ {c} : worker'[d] = worker[d]) /\ worker' \in [Calls -> Stages]
    <3>1. Work(c, "failing", "excusing")
      BY <1>11 DEF StoreFailed
    <3> QED BY <1>1, <3>1, WorkMoves DEF Stages
  <2>2. /\ status'[c] = "failed" /\ code'[c] = 500
        /\ \A d \in Calls \ {c} : status'[d] = status[d] /\ code'[d] = code[d]
        /\ JobsTypeOK'
    <3>1. PutJob(c, "failed", 500)
      BY <1>11 DEF StoreFailed
    <3>2. "failed" \in {"pending"} \cup Terminal /\ 500 \in {202, 200, 400, 403, 500}
      BY DEF Terminal
    <3>3. /\ status'[c] = "failed" /\ code'[c] = 500
          /\ \A d \in Calls \ {c} : status'[d] = status[d] /\ code'[d] = code[d]
          /\ status' \in [Calls -> {"absent", "pending"} \cup Terminal]
          /\ code' \in [Calls -> {0, 200, 202, 400, 403, 500}]
      BY <1>1, <3>1, <3>2, PutMoves
    <3> QED BY <1>1, <1>11, <2>1, <3>3 DEF JobsTypeOK, Stages, StoreFailed, env
  <2>3. JobLink(c)'
    BY <1>1, <1>11, <2>1, <2>2 DEF JobLink, Terminal, StoreFailed, env
  <2>4. status[c] # "absent" /\ status'[c] # "absent" /\ at[c] # "starting"
    BY <1>1, <2>1, <2>2 DEF JobLink, CallLink
  <2> QED BY <1>1, <1>2, <1>11, <2>1, <2>2, <2>3, <2>4, OneJob DEF JobSame, StoreFailed, env
<1>12. CASE NotifyFailed(c)
  <2>1. worker[c] = "excusing" /\ worker'[c] = "ended" /\ (\A d \in Calls \ {c} : worker'[d] = worker[d]) /\ worker' \in [Calls -> Stages]
    <3>1. Work(c, "excusing", "ended")
      BY <1>12 DEF NotifyFailed
    <3> QED BY <1>1, <3>1, WorkMoves DEF Stages
  <2>2. status[c] \in Terminal /\ posted[c] = <<>>
    BY <1>1, <2>1 DEF JobLink, Terminal
  <2>3. posted'[c] \in {<<>>, <<status[c]>>} /\ JobsTypeOK'
        /\ (\A d \in Calls \ {c} : posted'[d] = posted[d])
    <3>1. Post(c)
      BY <1>12 DEF NotifyFailed
    <3>2. Append(posted[c], status[c]) = <<status[c]>>
      BY <2>2
    <3>3. /\ posted'[c] \in {posted[c], Append(posted[c], status[c])}
          /\ \A d \in Calls \ {c} : posted'[d] = posted[d]
          /\ posted' \in [Calls -> Seq(Terminal \cup {"pending"})]
      BY <1>1, <2>2, <3>1, PostMoves
    <3> QED BY <1>1, <1>12, <2>1, <2>2, <3>2, <3>3 DEF JobsTypeOK, Stages, NotifyFailed, env
  <2>4. JobLink(c)'
    BY <1>1, <1>12, <2>1, <2>2, <2>3 DEF JobLink, NotifyFailed, env
  <2>5. status'[c] # "absent" /\ status[c] # "absent" /\ at[c] # "starting"
    BY <1>1, <1>12, <2>1, <2>2 DEF JobLink, CallLink, Terminal, NotifyFailed
  <2> QED BY <1>1, <1>2, <1>12, <2>1, <2>3, <2>4, <2>5, OneJob DEF JobSame, NotifyFailed, env
<1>13. CASE TryRaises(c)
  <2>0. faults' \in Nat /\ faults' >= faults /\ faults' # 0
    BY <1>1, <1>13 DEF TryRaises, Fault
  <2>7. PICK from \in {"answered", "denying", "storing", "notifying"} : Work(c, from, "failing")
    BY <1>13 DEF TryRaises
  <2>1. worker[c] = from /\ worker'[c] = "failing" /\ JobsTypeOK'
        /\ (\A d \in Calls \ {c} : worker'[d] = worker[d])
    <3>1. worker[c] = from /\ worker'[c] = "failing" /\ worker' \in [Calls -> Stages]
          /\ (\A d \in Calls \ {c} : worker'[d] = worker[d])
      BY <1>1, <2>7, WorkMoves DEF Stages
    <3> QED BY <1>1, <1>13, <2>0, <3>1 DEF JobsTypeOK, Stages, TryRaises
  <2>2. JobLink(c)'
    BY <1>1, <1>13, <2>0, <2>1 DEF JobLink, TryRaises
  <2>3. status[c] # "absent" /\ status'[c] # "absent" /\ at[c] # "starting"
    BY <1>1, <1>13, <2>1 DEF JobLink, CallLink, TryRaises
  <2> QED BY <1>1, <1>2, <1>13, <2>0, <2>1, <2>2, <2>3, OneJob DEF JobSame, TryRaises
<1>14. CASE ExecuteRaises(c)
  <2>0. faults' \in Nat /\ faults' >= faults /\ faults' # 0
    BY <1>1, <1>14 DEF ExecuteRaises, Fault
  <2>7. PICK how \in Outcomes \ {"no"} : ran' = [ran EXCEPT ![c] = how]
    BY <1>14 DEF ExecuteRaises
  <2>8. /\ ran'[c] = how /\ \A d \in Calls \ {c} : ran'[d] = ran[d]
        /\ Work(c, "executing", "failing")
        /\ UNCHANGED <<status, code, result, answer, posted, daemon>>
    BY <1>1, <1>14, <2>7 DEF ExecuteRaises, JobsTypeOK
  <2>1. worker[c] = "executing" /\ worker'[c] = "failing" /\ (\A d \in Calls \ {c} : worker'[d] = worker[d]) /\ JobsTypeOK'
    <3>1. Work(c, "executing", "failing")
      BY <2>0, <2>7, <2>8
    <3>2. worker[c] = "executing" /\ worker'[c] = "failing" /\ (\A d \in Calls \ {c} : worker'[d] = worker[d]) /\ worker' \in [Calls -> Stages]
      BY <1>1, <3>1, WorkMoves DEF Stages
    <3> QED BY <1>1, <2>0, <2>7, <2>8, <3>2 DEF JobsTypeOK, Stages
  <2>2. JobLink(c)'
    BY <1>1, <2>0, <2>7, <2>8, <2>1 DEF JobLink
  <2>3. status[c] # "absent" /\ status'[c] # "absent" /\ at[c] # "starting"
        /\ (ran[c] = "ok" => ran'[c] = "ok")
    BY <1>1, <2>0, <2>7, <2>8, <2>1 DEF JobLink, CallLink
  <2> QED BY <1>1, <1>2, <2>0, <2>7, <2>8, <2>1, <2>2, <2>3, OneJob DEF JobSame
<1>15. CASE ExceptRaises(c)
  <2>0. faults' \in Nat /\ faults' >= faults /\ faults' # 0
    BY <1>1, <1>15 DEF ExceptRaises, Fault
  <2>7. PICK from \in {"failing", "excusing"} : Work(c, from, "dead")
    BY <1>15 DEF ExceptRaises
  <2>1. worker[c] = from /\ worker'[c] = "dead" /\ JobsTypeOK'
        /\ (\A d \in Calls \ {c} : worker'[d] = worker[d])
    <3>1. worker[c] = from /\ worker'[c] = "dead" /\ worker' \in [Calls -> Stages]
          /\ (\A d \in Calls \ {c} : worker'[d] = worker[d])
      BY <1>1, <2>7, WorkMoves DEF Stages
    <3> QED BY <1>1, <1>15, <2>0, <3>1 DEF JobsTypeOK, Stages, ExceptRaises
  <2>2. JobLink(c)'
    BY <1>1, <1>15, <2>0, <2>1 DEF JobLink, ExceptRaises
  <2>3. status[c] # "absent" /\ status'[c] # "absent" /\ at[c] # "starting"
    BY <1>1, <1>15, <2>1 DEF JobLink, CallLink, ExceptRaises
  <2> QED BY <1>1, <1>2, <1>15, <2>0, <2>1, <2>2, <2>3, OneJob DEF JobSame, ExceptRaises
<1> QED BY <1>3, <1>4, <1>5, <1>6, <1>7, <1>8, <1>9, <1>10, <1>11, <1>12, <1>13, <1>14, <1>15
        DEF JobStep, Worker, Errors

-----------------------------------------------------------------------------
(* The steps of dispatch.                                                  *)

Places == {"idle", "looking", "replaying", "checking", "submitting", "starting", "reading",
           "executing", "recording", "done", "dead"}

Replies == {0, 200, 202, 400, 403, 404, 409, 500}

LEMMA GotoMoves ==
    ASSUME NEW c \in Calls, EngineTypeOK, NEW label \in Places, Goto(c, label)
    PROVE  /\ at'[c] = label /\ at' \in [Calls -> Places]
           /\ \A d \in Calls \ {c} : at'[d] = at[d]
BY DEF Goto, EngineTypeOK, Places

LEMMA ReplyMoves ==
    ASSUME NEW c \in Calls, EngineTypeOK, NEW h \in Replies, reply' = [reply EXCEPT ![c] = h]
    PROVE  /\ reply'[c] = h /\ reply' \in [Calls -> Replies]
           /\ \A d \in Calls \ {c} : reply'[d] = reply[d]
BY DEF EngineTypeOK, Replies

LEMMA ReturnMoves ==
    ASSUME NEW c \in Calls, EngineTypeOK, NEW h \in Replies, Return(c, h)
    PROVE  /\ at'[c] = "done" /\ at' \in [Calls -> Places]
           /\ reply'[c] = h /\ reply' \in [Calls -> Replies]
           /\ \A d \in Calls \ {c} : at'[d] = at[d] /\ reply'[d] = reply[d]
<1>1. Goto(c, "done") /\ reply' = [reply EXCEPT ![c] = h]
  BY DEF Return
<1> QED BY <1>1, GotoMoves, ReplyMoves DEF Places

LEMMA ConcludeMoves ==
    ASSUME NEW c \in Calls, EngineTypeOK, NEW h \in Replies, Conclude(c, h)
    PROVE  /\ at'[c] = IF req[c].key = NoKey THEN "done" ELSE "recording"
           /\ at' \in [Calls -> Places]
           /\ reply'[c] = h /\ reply' \in [Calls -> Replies]
           /\ \A d \in Calls \ {c} : at'[d] = at[d] /\ reply'[d] = reply[d]
<1>1. reply' = [reply EXCEPT ![c] = h]
  BY DEF Conclude
<1>2. CASE req[c].key = NoKey
  <2>1. Goto(c, "done")
    BY <1>2 DEF Conclude
  <2> QED BY <1>1, <1>2, <2>1, GotoMoves, ReplyMoves DEF Places
<1>3. CASE req[c].key # NoKey
  <2>1. Goto(c, "recording")
    BY <1>3 DEF Conclude
  <2> QED BY <1>1, <1>3, <2>1, GotoMoves, ReplyMoves DEF Places
<1> QED BY <1>2, <1>3

\* A step of dispatch that touches no job.
LEMMA OneDispatch ==
    ASSUME NEW c \in Calls, EngineInv, EngineTypeOK', UNCHANGED jobVars,
           \A d \in Calls \ {c} : at'[d] = at[d] /\ req'[d] = req[d] /\ prior'[d] = prior[d]
                                  /\ reply'[d] = reply[d] /\ late'[d] = late[d],
           at'[c] # "idle", at[c] # "idle" => req'[c] = req[c],
           \A v \in Verbs, k \in Keys :
              \/ record'[v][k] = record[v][k]
              \/ record'[v][k] # NoRecord /\ Backed(record[v][k], v, k)',
           CallLink(c)',
           at'[c] # "replaying" \/ PriorLink(c)',
           at'[c] # "done" \/ DoneLink(c)'
    PROVE  EngineInv'
<1>1. JobsTypeOK /\ JobLink(c) /\ faults \in Nat
  BY DEF EngineInv, JobsTypeOK
<1>2. JobsTypeOK'
  BY <1>1 DEF JobsTypeOK, jobVars
<1>3. \A d \in Calls \ {c} : Same(d)
  BY DEF Same, JobSame, jobVars
<1>4. Advances(c)
  BY DEF Advances, jobVars
<1>5. JobLink(c)'
  BY <1>1 DEF JobLink, jobVars
<1>6. daemon' = daemon /\ faults' >= faults
  BY <1>1 DEF jobVars
<1> QED BY <1>2, <1>3, <1>4, <1>5, <1>6, OneCall

LEMMA ReceiveKeeps ==
    ASSUME NEW c \in Calls, NEW q \in RequestType, EngineInv, Receive(c, q)
    PROVE  EngineInv'
<1>1. EngineTypeOK /\ JobLink(c) /\ CallLink(c)
  BY DEF EngineInv
<1>2. /\ at[c] = "idle" /\ daemon = "up" /\ UNCHANGED jobVars /\ UNCHANGED <<record, prior>>
      /\ status[c] = "absent" /\ ran[c] = "no"
  BY <1>1 DEF Receive, CallLink
<1>3. /\ req'[c] = q /\ req' \in [Calls -> RequestType]
      /\ late'[c] = (Recorded(q) # NoRecord) /\ late' \in [Calls -> BOOLEAN]
      /\ \A d \in Calls \ {c} : req'[d] = req[d] /\ late'[d] = late[d]
  BY <1>1 DEF Receive, EngineTypeOK
<1>4. q.key = NoKey => late'[c] = FALSE
  BY <1>3 DEF Recorded
<1>5. q.early \in {0, 200, 400, 404} /\ q.key \in Keys \cup {NoKey}
  BY DEF RequestType
<1>6. CASE at'[c] = "done" /\ reply'[c] \in {200, 400, 404} /\ (req'[c].early = 0 => reply'[c] = 400 /\ q.key = NoKey)
           /\ at' \in [Calls -> Places] /\ reply' \in [Calls -> Replies]
           /\ \A d \in Calls \ {c} : at'[d] = at[d] /\ reply'[d] = reply[d]
  <2>1. EngineTypeOK'
    BY <1>1, <1>2, <1>3, <1>6 DEF EngineTypeOK, Places, Replies
  <2>2. CallLink(c)'
    BY <1>1, <1>2, <1>3, <1>6 DEF CallLink, jobVars
  <2>3. DoneLink(c)'
    BY <1>3, <1>6 DEF DoneLink
  <2> QED BY <1>2, <1>3, <1>6, <2>1, <2>2, <2>3, OneDispatch
<1>7. CASE /\ q.early = 0 /\ at' \in [Calls -> Places] /\ reply' = reply
           /\ \A d \in Calls \ {c} : at'[d] = at[d]
           /\ \/ q.key = NoKey /\ at'[c] = "checking"
              \/ q.key # NoKey /\ at'[c] = "looking"
  <2>1. EngineTypeOK'
    BY <1>1, <1>2, <1>3, <1>7 DEF EngineTypeOK, Places
  <2>2. Recorded(q)' = Recorded(q)
    BY <1>2 DEF Recorded
  <2>3. late'[c] /\ at'[c] = "looking" => Recorded(req[c])' # NoRecord
    BY <1>2, <1>3 DEF Recorded
  <2>4. CallLink(c)'
    BY <1>1, <1>2, <1>3, <1>4, <1>5, <1>7, <2>3 DEF CallLink, jobVars
  <2> QED BY <1>2, <1>3, <1>7, <2>1, <2>4, OneDispatch
<1>8. CASE q.early # 0 /\ Return(c, q.early)
  BY <1>1, <1>3, <1>5, <1>6, <1>8, ReturnMoves DEF Replies
<1>9. CASE q.early = 0 /\ q.key = NoKey /\ Return(c, 400)
  BY <1>1, <1>3, <1>6, <1>9, ReturnMoves DEF Replies
<1>10. CASE q.early = 0 /\ q.key = NoKey /\ Goto(c, "checking") /\ UNCHANGED reply
  BY <1>1, <1>7, <1>10, GotoMoves DEF Places
<1>11. CASE q.early = 0 /\ q.key # NoKey /\ Goto(c, "looking") /\ UNCHANGED reply
  BY <1>1, <1>7, <1>11, GotoMoves DEF Places
<1> QED BY <1>8, <1>9, <1>10, <1>11 DEF Receive

\* Two requests are one when their fields are.
LEMMA SameRequest ==
    ASSUME NEW p \in RequestType, NEW q \in RequestType,
           p.early = q.early, p.verb = q.verb, p.key = q.key, p.payload = q.payload
    PROVE  p = q
BY DEF RequestType

LEMMA LookUpKeeps ==
    ASSUME NEW c \in Calls, EngineInv, LookUp(c)
    PROVE  EngineInv'
<1>1. EngineTypeOK /\ JobLink(c) /\ CallLink(c)
  BY DEF EngineInv
<1>2. /\ at[c] = "looking" /\ UNCHANGED jobVars /\ UNCHANGED <<req, record, late>>
      /\ status[c] = "absent" /\ ran[c] = "no"
      /\ req[c] \in RequestType /\ req[c].early = 0 /\ req[c].verb \in Verbs /\ req[c].key \in Keys
  BY <1>1 DEF LookUp, CallLink, EngineTypeOK, RequestType
<1>3. PICK r \in Records \cup {NoRecord} : r = Prior(c)
  BY <1>1, <1>2, EngineAssumption DEF Prior, Recorded, EngineTypeOK
<1>4. r = record[req[c].verb][req[c].key]
  BY <1>2, <1>3, EngineAssumption DEF Prior, Recorded
<1>5. r # NoRecord => /\ r \in Records /\ r.by \in Calls
                      /\ Backed(r, req[c].verb, req[c].key)
  BY <1>2, <1>3, <1>4 DEF EngineInv, RecordsLink, Records
<1>6. late[c] => r # NoRecord
  BY <1>1, <1>2, <1>3 DEF CallLink, Prior
<1>7. CASE /\ r # NoRecord /\ r.payload = req[c].payload /\ r.job
           /\ prior' = [prior EXCEPT ![c] = r]
           /\ Goto(c, "replaying") /\ UNCHANGED reply
  <2>1. /\ at'[c] = "replaying" /\ at' \in [Calls -> Places]
        /\ \A d \in Calls \ {c} : at'[d] = at[d]
    BY <1>1, <1>7, GotoMoves DEF Places
  <2>2. /\ prior'[c] = r /\ prior' \in [Calls -> Records \cup {NoRecord}]
        /\ \A d \in Calls \ {c} : prior'[d] = prior[d]
    BY <1>1, <1>7 DEF EngineTypeOK
  <2>3. EngineTypeOK'
    BY <1>1, <1>2, <1>7, <2>1, <2>2 DEF EngineTypeOK, Places
  <2>4. CallLink(c)'
    BY <1>1, <1>2, <1>7, <2>1 DEF CallLink, jobVars
  <2>5. PriorLink(c)'
    <3>1. req'[r.by] = req[r.by] /\ status'[r.by] = status[r.by] /\ ran'[r.by] = ran[r.by]
          /\ at'[r.by] # "idle"
      BY <1>2, <1>5, <1>7, <2>1 DEF Backed, jobVars
    <3>2. req'[c] = req[c] /\ prior'[c] = r
      BY <1>2, <2>2
    <3> QED BY <1>5, <1>7, <3>1, <3>2 DEF PriorLink, Backed
  <2> QED BY <1>2, <1>7, <2>1, <2>2, <2>3, <2>4, <2>5, OneDispatch
<1>8. CASE Goto(c, "checking") /\ UNCHANGED <<reply, prior>> /\ r = NoRecord
  <2>1. /\ at'[c] = "checking" /\ at' \in [Calls -> Places]
        /\ \A d \in Calls \ {c} : at'[d] = at[d]
    BY <1>1, <1>8, GotoMoves DEF Places
  <2>2. EngineTypeOK'
    BY <1>1, <1>2, <1>8, <2>1 DEF EngineTypeOK, Places
  <2>3. CallLink(c)'
    BY <1>1, <1>2, <1>6, <1>8, <2>1 DEF CallLink, jobVars
  <2> QED BY <1>2, <1>8, <2>1, <2>2, <2>3, OneDispatch
<1>9. ASSUME NEW h \in Replies, Return(c, h), UNCHANGED prior, h # 0,
             h = 200 => r # NoRecord /\ ~r.job /\ r.payload = req[c].payload /\ r.status = 200
      PROVE  EngineInv'
  <2>1. /\ at'[c] = "done" /\ at' \in [Calls -> Places]
        /\ reply'[c] = h /\ reply' \in [Calls -> Replies]
        /\ \A d \in Calls \ {c} : at'[d] = at[d] /\ reply'[d] = reply[d]
    BY <1>1, <1>9, ReturnMoves
  <2>2. EngineTypeOK'
    BY <1>1, <1>2, <1>9, <2>1 DEF EngineTypeOK, Places, Replies
  <2>3. CallLink(c)'
    BY <1>1, <1>2, <1>9, <2>1 DEF CallLink, jobVars
  <2>4. DoneLink(c)'
    <3>1. SUFFICES ASSUME h = 200 PROVE ran'[r.by] = "ok" /\ req'[r.by] = req'[c]
      BY <1>5, <1>9, <2>1 DEF DoneLink
    <3>2. ran[r.by] = "ok" /\ req[r.by].early = 0 /\ req[r.by].payload = req[c].payload
          /\ req[r.by].verb = req[c].verb /\ req[r.by].key = req[c].key
      BY <1>5, <1>9, <3>1 DEF Backed
    <3>3. req[r.by] = req[c]
      BY <1>1, <1>2, <1>5, <1>9, <3>1, <3>2, SameRequest DEF EngineTypeOK
    <3> QED BY <1>2, <3>2, <3>3 DEF jobVars
  <2> QED BY <1>2, <1>9, <2>1, <2>2, <2>3, <2>4, OneDispatch
<1>10. CASE Return(c, 409) /\ UNCHANGED prior
  BY <1>9, <1>10 DEF Replies
<1>11. CASE /\ r # NoRecord /\ r.payload = req[c].payload /\ ~r.job
            /\ Return(c, r.status) /\ UNCHANGED prior
  <2>1. r.status \in Replies /\ r.status # 0
    BY <1>3, <1>11 DEF Records, Replies
  <2> QED BY <1>9, <1>11, <2>1
<1> QED BY <1>3, <1>7, <1>8, <1>10, <1>11 DEF LookUp

LEMMA ReplayKeeps ==
    ASSUME NEW c \in Calls, EngineInv, Replay(c)
    PROVE  EngineInv'
<1>1. JobsTypeOK /\ EngineTypeOK /\ CallLink(c) /\ PriorLink(c)
  BY DEF EngineInv
<1>2. /\ at[c] = "replaying" /\ UNCHANGED jobVars /\ UNCHANGED <<req, record, prior, late>>
      /\ req[c] \in RequestType /\ req[c].early = 0
  BY <1>1 DEF Replay, CallLink, EngineTypeOK
<1>3. PICK r \in Records : r = prior[c]
  BY <1>1, <1>2 DEF PriorLink, EngineTypeOK
<1>4. /\ r.by \in Calls /\ r.job /\ r.payload = req[c].payload
      /\ Backed(r, req[c].verb, req[c].key)
  BY <1>1, <1>2, <1>3 DEF PriorLink, Records
<1>5. JobLink(r.by) /\ status[r.by] # "absent"
  BY <1>4 DEF EngineInv, Backed
<1>6. PICK h \in Replies : h = code[r.by]
  BY <1>1, <1>4 DEF JobsTypeOK, Replies
<1>7. h # 0 /\ (h = 200 => ran[r.by] = "ok")
  BY <1>1, <1>4, <1>5, <1>6 DEF JobLink, JobsTypeOK, Terminal
<1>8. Return(c, h)
  BY <1>3, <1>5, <1>6 DEF Replay
<1>9. /\ at'[c] = "done" /\ at' \in [Calls -> Places]
      /\ reply'[c] = h /\ reply' \in [Calls -> Replies]
      /\ \A d \in Calls \ {c} : at'[d] = at[d] /\ reply'[d] = reply[d]
  BY <1>1, <1>8, ReturnMoves
<1>10. EngineTypeOK'
  BY <1>1, <1>2, <1>9 DEF EngineTypeOK, Places, Replies
<1>11. CallLink(c)'
  BY <1>1, <1>2, <1>7, <1>9 DEF CallLink, jobVars
<1>12. DoneLink(c)'
  <2>1. SUFFICES ASSUME h = 200 PROVE ran'[r.by] = "ok" /\ req'[r.by] = req'[c]
    BY <1>4, <1>9 DEF DoneLink
  <2>2. req[r.by] = req[c]
    BY <1>1, <1>2, <1>4, SameRequest DEF EngineTypeOK, Backed
  <2> QED BY <1>2, <1>7, <2>1, <2>2 DEF jobVars
<1> QED BY <1>2, <1>9, <1>10, <1>11, <1>12, OneDispatch

LEMMA PrecheckKeeps ==
    ASSUME NEW c \in Calls, EngineInv, Precheck(c)
    PROVE  EngineInv'
<1>1. EngineTypeOK /\ CallLink(c)
  BY DEF EngineInv
<1>2. /\ at[c] = "checking" /\ UNCHANGED jobVars /\ UNCHANGED <<req, record, prior, late>>
      /\ ~late[c]
  BY <1>1 DEF Precheck, CallLink
<1>3. CASE Return(c, 500)
  <2>1. /\ at'[c] = "done" /\ at' \in [Calls -> Places]
        /\ reply'[c] = 500 /\ reply' \in [Calls -> Replies]
        /\ \A d \in Calls \ {c} : at'[d] = at[d] /\ reply'[d] = reply[d]
    BY <1>1, <1>3, ReturnMoves DEF Replies
  <2>2. EngineTypeOK'
    BY <1>1, <1>2, <2>1 DEF EngineTypeOK, Places, Replies
  <2>3. CallLink(c)' /\ DoneLink(c)'
    BY <1>1, <1>2, <2>1 DEF CallLink, DoneLink, jobVars
  <2> QED BY <1>2, <2>1, <2>2, <2>3, OneDispatch
<1>4. ASSUME NEW label \in {"submitting", "executing"}, Goto(c, label), UNCHANGED reply,
             label = "submitting" <=> req[c].verb \in Gated
      PROVE  EngineInv'
  <2>1. /\ at'[c] = label /\ at' \in [Calls -> Places]
        /\ \A d \in Calls \ {c} : at'[d] = at[d]
    BY <1>1, <1>4, GotoMoves DEF Places
  <2>2. EngineTypeOK'
    BY <1>1, <1>2, <1>4, <2>1 DEF EngineTypeOK, Places
  <2>3. CallLink(c)'
    BY <1>1, <1>2, <1>4, <2>1 DEF CallLink, jobVars
  <2> QED BY <1>2, <1>4, <2>1, <2>2, <2>3, OneDispatch
<1>5. CASE req[c].verb \in Gated /\ Goto(c, "submitting") /\ UNCHANGED reply
  BY <1>4, <1>5
<1>6. CASE req[c].verb \notin Gated /\ Goto(c, "executing") /\ UNCHANGED reply
  BY <1>4, <1>6
<1> QED BY <1>3, <1>5, <1>6 DEF Precheck

LEMMA SubmitJobKeeps ==
    ASSUME NEW c \in Calls, EngineInv, SubmitJob(c)
    PROVE  EngineInv'
<1>1. JobsTypeOK /\ EngineTypeOK /\ JobLink(c) /\ CallLink(c) /\ faults \in Nat
  BY DEF EngineInv, JobsTypeOK
<1>2. /\ at[c] = "submitting" /\ daemon = "up" /\ req[c].verb \in Gated /\ req[c].early = 0
      /\ UNCHANGED <<worker, result, answer, ran, posted, daemon, faults>>
      /\ UNCHANGED <<req, record, prior, reply, late>>
      /\ PutJob(c, "pending", 202) /\ Goto(c, "starting")
  BY <1>1 DEF SubmitJob, PutPending, CallLink, env
<1>3. /\ status'[c] = "pending" /\ code'[c] = 202
      /\ \A d \in Calls \ {c} : status'[d] = status[d] /\ code'[d] = code[d]
      /\ status' \in [Calls -> {"absent", "pending"} \cup Terminal]
      /\ code' \in [Calls -> {0, 200, 202, 400, 403, 500}]
  BY <1>1, <1>2, PutMoves
<1>4. /\ at'[c] = "starting" /\ at' \in [Calls -> Places]
      /\ \A d \in Calls \ {c} : at'[d] = at[d]
  BY <1>1, <1>2, GotoMoves DEF Places
<1>5. /\ status[c] = "absent" /\ worker[c] = "none" /\ answer[c] = "none" /\ ran[c] = "no"
      /\ posted[c] = <<>> /\ ~late[c]
  BY <1>1, <1>2 DEF JobLink, CallLink
<1>6. JobsTypeOK' /\ EngineTypeOK'
  BY <1>1, <1>2, <1>3, <1>4 DEF JobsTypeOK, EngineTypeOK, Places
<1>7. JobLink(c)'
  BY <1>1, <1>2, <1>3, <1>5 DEF JobLink
<1>8. CallLink(c)'
  BY <1>1, <1>2, <1>3, <1>4, <1>5 DEF CallLink
<1>9. (\A d \in Calls \ {c} : Same(d)) /\ Advances(c)
  BY <1>2, <1>3, <1>4, <1>5 DEF Same, JobSame, Advances
<1> QED BY <1>1, <1>2, <1>4, <1>6, <1>7, <1>8, <1>9, OneCall

LEMMA StartThreadKeeps ==
    ASSUME NEW c \in Calls, EngineInv, StartThread(c)
    PROVE  EngineInv'
<1>1. JobsTypeOK /\ EngineTypeOK /\ JobLink(c) /\ CallLink(c) /\ faults \in Nat
  BY DEF EngineInv, JobsTypeOK
<1>2. /\ at[c] = "starting" /\ status[c] = "pending" /\ ran[c] = "no" /\ worker[c] = "none"
      /\ ~late[c] /\ answer[c] = "none" /\ posted[c] = <<>> /\ daemon # "starting"
      /\ UNCHANGED <<status, code, result, answer, ran, posted, daemon, faults>>
      /\ UNCHANGED <<req, record, prior, reply, late>>
      /\ Work(c, "none", "asking") /\ Goto(c, "reading")
  BY <1>1 DEF StartThread, StartWorker, JobLink, CallLink, env
<1>3. /\ worker'[c] = "asking" /\ \A d \in Calls \ {c} : worker'[d] = worker[d]
      /\ worker' \in [Calls -> Stages]
  BY <1>1, <1>2 DEF Work, JobsTypeOK, Stages
<1>4. /\ at'[c] = "reading" /\ at' \in [Calls -> Places]
      /\ \A d \in Calls \ {c} : at'[d] = at[d]
  BY <1>1, <1>2, GotoMoves DEF Places
<1>5. JobsTypeOK' /\ EngineTypeOK'
  BY <1>1, <1>2, <1>3, <1>4 DEF JobsTypeOK, EngineTypeOK, Places, Stages
<1>6. JobLink(c)'
  BY <1>1, <1>2, <1>3 DEF JobLink
<1>7. CallLink(c)'
  BY <1>1, <1>2, <1>4 DEF CallLink
<1>8. (\A d \in Calls \ {c} : Same(d)) /\ Advances(c)
  BY <1>2, <1>3, <1>4 DEF Same, JobSame, Advances
<1> QED BY <1>1, <1>2, <1>4, <1>5, <1>6, <1>7, <1>8, OneCall

LEMMA ReadBackKeeps ==
    ASSUME NEW c \in Calls, EngineInv, ReadBack(c)
    PROVE  EngineInv'
<1>1. EngineTypeOK /\ CallLink(c)
  BY DEF EngineInv
<1>2. /\ at[c] = "reading" /\ UNCHANGED jobVars /\ UNCHANGED <<req, record, prior, late>>
      /\ ~late[c] /\ status[c] # "absent" /\ req[c].verb \in Gated /\ Conclude(c, 202)
      /\ req[c].key \in Keys \cup {NoKey} /\ req[c].early = 0 /\ daemon # "starting"
  BY <1>1 DEF ReadBack, CallLink, EngineTypeOK, RequestType
<1>3. /\ at'[c] = IF req[c].key = NoKey THEN "done" ELSE "recording"
      /\ at' \in [Calls -> Places]
      /\ reply'[c] = 202 /\ reply' \in [Calls -> Replies]
      /\ \A d \in Calls \ {c} : at'[d] = at[d] /\ reply'[d] = reply[d]
  BY <1>1, <1>2, ConcludeMoves DEF Replies
<1>4. EngineTypeOK'
  BY <1>1, <1>2, <1>3 DEF EngineTypeOK, Places, Replies
<1>5. CallLink(c)' /\ DoneLink(c)'
  BY <1>1, <1>2, <1>3 DEF CallLink, DoneLink, jobVars
<1> QED BY <1>2, <1>3, <1>4, <1>5, OneDispatch

LEMMA ExecuteNowKeeps ==
    ASSUME NEW c \in Calls, EngineInv, ExecuteNow(c)
    PROVE  EngineInv'
<1>1. JobsTypeOK /\ EngineTypeOK /\ JobLink(c) /\ CallLink(c) /\ faults \in Nat
  BY DEF EngineInv, JobsTypeOK
<1>2. /\ at[c] = "executing" /\ status[c] = "absent" /\ ran[c] = "no" /\ ~late[c]
      /\ req[c].verb \notin Gated /\ req[c].early = 0 /\ daemon # "starting"
      /\ req[c].key \in Keys \cup {NoKey} /\ worker[c] = "none" /\ posted[c] = <<>>
      /\ UNCHANGED <<status, code, worker, result, answer, posted, daemon, faults>>
      /\ UNCHANGED <<req, record, prior, late>>
  BY <1>1 DEF ExecuteNow, JobLink, CallLink, EngineTypeOK, RequestType, env
<1>3. PICK e \in Executions :
          /\ ran' = [ran EXCEPT ![c] = e[1]]
          /\ \/ e[2] # 0 /\ Conclude(c, e[2])
             \/ e[2] = 0 /\ Goto(c, "dead") /\ UNCHANGED reply
  BY DEF ExecuteNow
<1>4. /\ ran'[c] = e[1] /\ ran' \in [Calls -> Outcomes]
      /\ \A d \in Calls \ {c} : ran'[d] = ran[d]
      /\ e[2] \in {0, 200, 400, 500} /\ (e[2] = 200 <=> e[1] = "ok")
  BY <1>1, <1>3 DEF Executions, Outcomes, JobsTypeOK
<1>5. JobsTypeOK' /\ JobLink(c)'
  BY <1>1, <1>2, <1>4 DEF JobsTypeOK, JobLink
<1>6. CASE e[2] # 0 /\ Conclude(c, e[2])
  <2>1. /\ at'[c] = IF req[c].key = NoKey THEN "done" ELSE "recording"
        /\ at' \in [Calls -> Places]
        /\ reply'[c] = e[2] /\ reply' \in [Calls -> Replies]
        /\ \A d \in Calls \ {c} : at'[d] = at[d] /\ reply'[d] = reply[d]
    BY <1>1, <1>4, <1>6, ConcludeMoves DEF Replies
  <2>2. EngineTypeOK'
    BY <1>1, <1>2, <2>1 DEF EngineTypeOK, Places, Replies
  <2>3. CallLink(c)'
    BY <1>1, <1>2, <1>4, <1>6, <2>1 DEF CallLink
  <2>4. DoneLink(c)'
    BY <1>2, <1>4, <2>1 DEF DoneLink
  <2>5. (\A d \in Calls \ {c} : Same(d)) /\ Advances(c)
    BY <1>2, <1>4, <2>1 DEF Same, JobSame, Advances
  <2> QED BY <1>1, <1>2, <1>5, <2>1, <2>2, <2>3, <2>4, <2>5, OneCall
<1>7. CASE e[2] = 0 /\ Goto(c, "dead") /\ UNCHANGED reply
  <2>1. /\ at'[c] = "dead" /\ at' \in [Calls -> Places]
        /\ \A d \in Calls \ {c} : at'[d] = at[d]
    BY <1>1, <1>7, GotoMoves DEF Places
  <2>2. EngineTypeOK'
    BY <1>1, <1>2, <1>7, <2>1 DEF EngineTypeOK, Places
  <2>3. CallLink(c)'
    BY <1>1, <1>2, <1>4, <1>7, <2>1 DEF CallLink
  <2>4. (\A d \in Calls \ {c} : Same(d)) /\ Advances(c)
    BY <1>2, <1>4, <1>7, <2>1 DEF Same, JobSame, Advances
  <2> QED BY <1>1, <1>2, <1>5, <2>1, <2>2, <2>3, <2>4, OneCall
<1> QED BY <1>3, <1>6, <1>7

LEMMA RecordKeeps ==
    ASSUME NEW c \in Calls, EngineInv, Record(c)
    PROVE  EngineInv'
<1> DEFINE new == [payload |-> req[c].payload, status |-> reply[c], by |-> c,
                   job |-> req[c].verb \in Gated]
<1>1. EngineTypeOK /\ CallLink(c)
  BY DEF EngineInv
<1>2. /\ at[c] = "recording" /\ UNCHANGED jobVars /\ UNCHANGED <<req, prior, reply, late>>
      /\ req[c] \in RequestType /\ req[c].early = 0 /\ req[c].verb \in Verbs
      /\ req[c].key \in Keys /\ ~late[c] /\ Goto(c, "done")
  BY <1>1 DEF Record, CallLink, EngineTypeOK, RequestType
<1>3. /\ at'[c] = "done" /\ at' \in [Calls -> Places]
      /\ \A d \in Calls \ {c} : at'[d] = at[d]
  BY <1>1, <1>2, GotoMoves DEF Places
<1>4. new \in Records /\ new # NoRecord
  <2>1. req[c].payload \in Payloads /\ reply[c] \in {200, 202, 400, 500}
    BY <1>1, <1>2 DEF CallLink, RequestType
  <2>2. new \in Records
    BY <2>1 DEF Records
  <2> QED BY <2>2, EngineAssumption
<1>5. CallLink(c)' /\ DoneLink(c)'
  BY <1>1, <1>2, <1>3 DEF CallLink, DoneLink, jobVars
<1>6. new.by = c /\ new.payload = req[c].payload /\ new.status = reply[c]
  OBVIOUS
<1>9. new.job <=> req[c].verb \in Gated
  OBVIOUS
<1>7. CASE record' = [record EXCEPT ![req[c].verb][req[c].key] = new]
  <2> HIDE DEF new
  <2>1. record' \in [Verbs -> [Keys -> Records \cup {NoRecord}]]
    BY <1>1, <1>2, <1>4, <1>7 DEF EngineTypeOK
  <2>2. EngineTypeOK'
    BY <1>1, <1>2, <1>3, <2>1 DEF EngineTypeOK, Places
  <2>3. ASSUME NEW v \in Verbs, NEW k \in Keys, record'[v][k] # record[v][k]
        PROVE  record'[v][k] # NoRecord /\ Backed(record[v][k], v, k)'
    <3>1. v = req[c].verb /\ k = req[c].key /\ record'[v][k] = new
      BY <1>1, <1>2, <1>7, <2>3 DEF EngineTypeOK
    <3>2. /\ req'[c] = req[c] /\ at'[c] # "idle" /\ status' = status /\ ran' = ran
      BY <1>2, <1>3 DEF jobVars
    <3>3. IF new.job THEN status[c] # "absent" /\ new.status = 202
          ELSE new.status # 202 /\ (new.status = 200 => ran[c] = "ok")
      <4>1. IF req[c].verb \in Gated THEN status[c] # "absent" /\ reply[c] = 202
            ELSE reply[c] # 202 /\ (reply[c] = 200 => ran[c] = "ok")
        BY <1>1, <1>2 DEF CallLink
      <4> QED BY <1>6, <1>9, <4>1, Zenon
    <3> QED BY <1>2, <1>4, <1>6, <3>1, <3>2, <3>3 DEF Backed
  <2> QED BY <1>2, <1>3, <1>5, <2>2, <2>3, OneDispatch
<1>8. CASE UNCHANGED record
  <2>1. EngineTypeOK'
    BY <1>1, <1>2, <1>3, <1>8 DEF EngineTypeOK, Places
  <2> QED BY <1>2, <1>3, <1>5, <1>8, <2>1, OneDispatch
<1> QED BY <1>7, <1>8 DEF Record

LEMMA RaisesKeeps ==
    ASSUME NEW c \in Calls, EngineInv, Raises(c)
    PROVE  EngineInv'
<1>1. JobsTypeOK /\ EngineTypeOK /\ JobLink(c) /\ CallLink(c) /\ faults \in Nat /\ MaxFaults \in Nat
  BY JobsAssumption DEF EngineInv, JobsTypeOK
<1>2. /\ UNCHANGED <<status, code, worker, result, answer, ran, posted, daemon>>
      /\ UNCHANGED <<req, record, prior, late>>
      /\ faults' \in Nat /\ faults' >= faults /\ faults' # 0
      /\ at[c] \notin {"idle", "executing", "done", "dead"}
      /\ Goto(c, "dead") /\ reply' = [reply EXCEPT ![c] = 0]
  BY <1>1 DEF Raises, Fault
<1>3. /\ at'[c] = "dead" /\ at' \in [Calls -> Places]
      /\ \A d \in Calls \ {c} : at'[d] = at[d]
  BY <1>1, <1>2, GotoMoves DEF Places
<1>4. /\ reply' \in [Calls -> Replies] /\ \A d \in Calls \ {c} : reply'[d] = reply[d]
  BY <1>1, <1>2 DEF EngineTypeOK, Replies
<1>5. JobsTypeOK' /\ EngineTypeOK'
  BY <1>1, <1>2, <1>3, <1>4 DEF JobsTypeOK, EngineTypeOK, Places, Replies
<1>6. JobLink(c)'
  BY <1>1, <1>2 DEF JobLink
<1>7. CallLink(c)'
  BY <1>1, <1>2, <1>3 DEF CallLink
<1>8. (\A d \in Calls \ {c} : Same(d)) /\ Advances(c)
  BY <1>2, <1>3, <1>4 DEF Same, JobSame, Advances
<1> QED BY <1>2, <1>3, <1>5, <1>6, <1>7, <1>8, OneCall

LEMMA DispatchKeeps ==
    ASSUME NEW c \in Calls, EngineInv, Dispatch(c)
    PROVE  EngineInv'
BY LookUpKeeps, ReplayKeeps, PrecheckKeeps, SubmitJobKeeps, StartThreadKeeps, ReadBackKeeps,
   ExecuteNowKeeps, RecordKeeps DEF Dispatch

-----------------------------------------------------------------------------
(* The steps of the daemon.                                                *)

LEMMA CrashKeeps ==
    ASSUME EngineInv, Crash
    PROVE  EngineInv'
<1>1. JobsTypeOK /\ EngineTypeOK /\ faults \in Nat /\ MaxFaults \in Nat
  BY JobsAssumption DEF EngineInv, JobsTypeOK
<1>2. /\ UNCHANGED <<status, code, result, answer, ran, posted, req, record, prior, late>>
      /\ daemon' = "starting" /\ faults' \in Nat /\ faults' # 0
  BY <1>1 DEF Crash, JobsCrash, Fault
<1>3. /\ worker' = [c \in Calls |-> IF worker[c] = "none" THEN "none" ELSE "dead"]
      /\ at' = [c \in Calls |-> IF at[c] \in {"idle", "done"} THEN at[c] ELSE "dead"]
      /\ reply' = [c \in Calls |-> IF at[c] = "recording" THEN 0 ELSE reply[c]]
  BY DEF Crash, JobsCrash
<1>4. worker' \in [Calls -> Stages] /\ at' \in [Calls -> Places] /\ reply' \in [Calls -> Replies]
  BY <1>1, <1>3 DEF JobsTypeOK, EngineTypeOK, Stages, Places, Replies
<1>5. JobsTypeOK' /\ EngineTypeOK'
  BY <1>1, <1>2, <1>4 DEF JobsTypeOK, EngineTypeOK, Stages, Places, Replies
<1>6. \A d \in Calls : Advances(d)
  BY <1>2, <1>3 DEF Advances
<1>7. RecordsLink'
  BY <1>1, <1>2, <1>6, RecordsStay DEF EngineInv
<1>8. ASSUME NEW c \in Calls
      PROVE  (JobLink(c) /\ CallLink(c) /\ PriorLink(c) /\ DoneLink(c))'
  <2>1. JobLink(c) /\ CallLink(c) /\ DoneLink(c) /\ \A d \in Calls : CallLink(d)
    BY DEF EngineInv
  <2>2. /\ worker'[c] = IF worker[c] = "none" THEN "none" ELSE "dead"
        /\ at'[c] = IF at[c] \in {"idle", "done"} THEN at[c] ELSE "dead"
        /\ reply'[c] = IF at[c] = "recording" THEN 0 ELSE reply[c]
    BY <1>3
  <2>3. JobLink(c)'
    BY <1>2, <2>1, <2>2 DEF JobLink
  <2>4. CallLink(c)'
    BY <1>2, <2>1, <2>2 DEF CallLink
  <2>5. PriorLink(c)'
    BY <2>2 DEF PriorLink
  <2>6. DoneLink(c)'
    <3>1. CASE at[c] = "done"
      BY <1>1, <1>6, <2>1, <2>2, <3>1, DoneStays
    <3>2. CASE at[c] # "done"
      BY <2>2, <3>2 DEF DoneLink
    <3> QED BY <3>1, <3>2
  <2> QED BY <2>3, <2>4, <2>5, <2>6
<1> QED BY <1>2, <1>5, <1>7, <1>8 DEF EngineInv

LEMMA BootKeeps ==
    ASSUME EngineInv, Boot, UNCHANGED engineVars
    PROVE  EngineInv'
<1>1. JobsTypeOK /\ EngineTypeOK /\ faults \in Nat
  BY DEF EngineInv, JobsTypeOK
<1>2. CASE Listen
  <2>1. /\ daemon' = "up"
        /\ UNCHANGED <<status, code, worker, result, answer, ran, posted, faults>>
        /\ UNCHANGED <<at, req, record, prior, reply, late>>
    BY <1>2 DEF Listen, engineVars
  <2>2. JobsTypeOK' /\ EngineTypeOK'
    BY <1>1, <2>1 DEF JobsTypeOK, EngineTypeOK
  <2>3. ASSUME NEW c \in Calls
        PROVE  (JobLink(c) /\ CallLink(c) /\ PriorLink(c) /\ DoneLink(c))'
    <3>1. JobLink(c) /\ CallLink(c) /\ PriorLink(c) /\ DoneLink(c)
      BY DEF EngineInv
    <3>2. JobLink(c)'
      BY <2>1, <3>1 DEF JobLink
    <3>3. CallLink(c)'
      BY <2>1, <3>1 DEF CallLink, Recorded
    <3>4. PriorLink(c)'
      BY <2>1, <3>1 DEF PriorLink, Backed
    <3>5. DoneLink(c)'
      BY <2>1, <3>1 DEF DoneLink
    <3> QED BY <3>2, <3>3, <3>4, <3>5
  <2>4. RecordsLink'
    BY <2>1 DEF EngineInv, RecordsLink, Backed
  <2> QED BY <2>1, <2>2, <2>3, <2>4 DEF EngineInv
<1>3. ASSUME NEW c \in Calls, FailOrphan(c)
      PROVE  EngineInv'
  <2>1. /\ daemon = "starting" /\ status[c] = "pending" /\ PutJob(c, "failed", 500)
        /\ UNCHANGED <<worker, result, answer, ran, posted, daemon, faults>>
    BY <1>3 DEF FailOrphan, env
  <2>2. JobLink(c) /\ CallLink(c) /\ faults # 0
    BY <2>1 DEF EngineInv
  <2>3. /\ status'[c] = "failed" /\ code'[c] = 500
        /\ \A d \in Calls \ {c} : status'[d] = status[d] /\ code'[d] = code[d]
        /\ status' \in [Calls -> {"absent", "pending"} \cup Terminal]
        /\ code' \in [Calls -> {0, 200, 202, 400, 403, 500}]
    BY <1>1, <2>1, PutMoves DEF Terminal
  <2>4. JobsTypeOK'
    BY <1>1, <2>1, <2>3 DEF JobsTypeOK
  <2>5. JobLink(c)'
    BY <2>1, <2>2, <2>3 DEF JobLink, Terminal
  <2>6. at[c] # "starting"
    BY <2>1, <2>2 DEF CallLink
  <2> QED BY <1>1, <2>1, <2>3, <2>4, <2>5, <2>6, OneJob DEF JobSame
<1> QED BY <1>2, <1>3 DEF Boot

-----------------------------------------------------------------------------
(* The engine on its own, and behind the MCP endpoint.                     *)

LEMMA EngineInitInv == Init => EngineInv
<1> SUFFICES ASSUME Init PROVE EngineInv
  OBVIOUS
<1>1. PICK e \in {0, 200, 400, 404}, v \in Verbs, k \in Keys \cup {NoKey}, x \in Payloads : TRUE
  BY EngineAssumption
<1>2. [early |-> e, verb |-> v, key |-> k, payload |-> x] \in RequestType
  BY DEF RequestType
<1>3. (CHOOSE q \in RequestType : TRUE) \in RequestType
  BY <1>2
<1>4. JobsTypeOK
  BY DEF Outcomes, Init, JobsInit, JobsTypeOK
<1>5. EngineTypeOK
  BY <1>3 DEF Init, EngineTypeOK
<1>6. RecordsLink
  BY DEF Init, RecordsLink
<1>7. ASSUME NEW c \in Calls
      PROVE  JobLink(c) /\ CallLink(c) /\ PriorLink(c) /\ DoneLink(c)
  BY DEF Init, JobsInit, JobLink, CallLink, PriorLink, DoneLink, Terminal
<1> QED BY <1>4, <1>5, <1>6, <1>7 DEF EngineInv, Init, JobsInit

LEMMA EngineStutters ==
    ASSUME EngineInv, UNCHANGED vars
    PROVE  EngineInv'
BY DEF EngineInv, vars, jobVars, engineVars, JobsTypeOK, EngineTypeOK, JobLink, CallLink,
       PriorLink, DoneLink, RecordsLink, Backed, Recorded

\* A step of the engine, whoever sent the request.
EngineStep ==
    \/ \E c \in Calls :
          \/ \E q \in RequestType : Receive(c, q)
          \/ Dispatch(c) \/ Raises(c) \/ JobStep(c)
    \/ Crash
    \/ Boot /\ UNCHANGED engineVars

LEMMA EngineStepKeeps ==
    ASSUME EngineInv, EngineStep
    PROVE  EngineInv'
BY ReceiveKeeps, DispatchKeeps, RaisesKeeps, JobStepKeeps, CrashKeeps, BootKeeps DEF EngineStep

\* No step makes a row pending that was over.
LEMMA OverStaysOver ==
    ASSUME EngineInv, EngineStep, NEW c \in Calls, status[c] \in Terminal
    PROVE  status'[c] \in Terminal
<1>1. JobsTypeOK /\ JobLink(c) /\ CallLink(c)
  BY DEF EngineInv
<1>2. ASSUME NEW d \in Calls, NEW q \in RequestType, Receive(d, q) PROVE status'[c] \in Terminal
  BY <1>2 DEF Receive, jobVars
<1>3. ASSUME NEW d \in Calls, Dispatch(d) PROVE status'[c] \in Terminal
  <2>1. CASE SubmitJob(d)
    <3>1. CallLink(d) /\ at[d] = "submitting" /\ status' = [status EXCEPT ![d] = "pending"]
      BY <2>1 DEF EngineInv, SubmitJob, PutPending, PutJob
    <3>2. c # d
      BY <3>1 DEF CallLink, Terminal
    <3> QED BY <1>1, <3>1, <3>2 DEF JobsTypeOK
  <2>2. CASE LookUp(d) \/ Replay(d) \/ Precheck(d) \/ ReadBack(d) \/ Record(d)
    BY <2>2 DEF LookUp, Replay, Precheck, ReadBack, Record, jobVars
  <2>3. CASE StartThread(d) \/ ExecuteNow(d)
    BY <2>3 DEF StartThread, StartWorker, ExecuteNow
  <2> QED BY <1>3, <2>1, <2>2, <2>3 DEF Dispatch
<1>4. ASSUME NEW d \in Calls, Raises(d) PROVE status'[c] \in Terminal
  BY <1>4 DEF Raises
<1>5. ASSUME NEW d \in Calls, JobStep(d) PROVE status'[c] \in Terminal
  <2>1. CASE StoreDenied(d) \/ StoreFailed(d) \/ StoreResult(d)
    <3>1. PICK s \in Terminal : status' = [status EXCEPT ![d] = s]
      BY <2>1 DEF StoreDenied, StoreFailed, StoreResult, PutJob, Terminal
    <3> QED BY <1>1, <3>1 DEF JobsTypeOK
  <2>2. CASE Ask(d) \/ AskRaises(d) \/ RecordDecision(d) \/ Execute(d) \/ Notify(d) \/ NotifyFailed(d)
    BY <2>2 DEF Ask, AskRaises, RecordDecision, Execute, Notify, NotifyFailed
  <2>3. CASE Errors(d)
    BY <2>3 DEF Errors, TryRaises, ExecuteRaises, ExceptRaises
  <2> QED BY <1>5, <2>1, <2>2, <2>3 DEF JobStep, Worker
<1>6. CASE Crash
  BY <1>6 DEF Crash, JobsCrash
<1>7. CASE Boot
  <2>1. CASE Listen
    BY <2>1 DEF Listen
  <2>2. ASSUME NEW d \in Calls, FailOrphan(d) PROVE status'[c] \in Terminal
    <3>1. status' = [status EXCEPT ![d] = "failed"]
      BY <2>2 DEF FailOrphan, PutJob
    <3> QED BY <1>1, <3>1 DEF JobsTypeOK, Terminal
  <2> QED BY <1>7, <2>1, <2>2 DEF Boot
<1> QED BY <1>2, <1>3, <1>4, <1>5, <1>6, <1>7 DEF EngineStep

\* What the invariant says to a client.
LEMMA InvariantTells ==
    ASSUME EngineInv
    PROVE  WebhookTellsOutcome /\ LateCallsOnlyReplay /\ GatedRunsNeedYes /\ ToolResultIsTrue
<1>1. ASSUME NEW c \in Calls
      PROVE  JobLink(c) /\ CallLink(c) /\ DoneLink(c) /\ reply[c] \in Replies
             /\ status[c] \in {"absent", "pending"} \cup Terminal
  BY DEF EngineInv, EngineTypeOK, JobsTypeOK, Replies
<1>2. WebhookTellsOutcome
  <2>1. SUFFICES ASSUME NEW c \in Calls, posted[c] # <<>>
                 PROVE  /\ Len(posted[c]) = 1
                        /\ status[c] \in Terminal
                        /\ posted[c][1] = status[c]
    BY DEF WebhookTellsOutcome
  <2>2. posted[c] = <<status[c]>> /\ status[c] \in Terminal
    BY <1>1, <2>1 DEF JobLink
  <2> QED BY <2>2
<1>3. LateCallsOnlyReplay
  BY <1>1 DEF LateCallsOnlyReplay, JobLink, CallLink
<1>4. GatedRunsNeedYes
  BY <1>1 DEF GatedRunsNeedYes, JobLink, CallLink
<1>5. ToolResultIsTrue
  <2>1. SUFFICES ASSUME NEW c \in Calls
        PROVE  /\ at[c] = "done" /\ req[c].early = 0 /\ ~IsError(c) /\ reply[c] # 202
                    => \E d \in Calls : ran[d] = "ok" /\ req[d] = req[c]
               /\ status[c] \in Terminal /\ ~PollIsError(c) => ran[c] = "ok" /\ answer[c] = "yes"
               /\ status[c] = "denied" => ran[c] = "no" /\ answer[c] = "no"
               /\ status[c] = "failed" /\ faults = 0 => ran[c] # "ok"
    BY DEF ToolResultIsTrue
  <2>2. at[c] = "done" /\ ~IsError(c) /\ reply[c] # 202 => reply[c] = 200
    BY <1>1 DEF CallLink, IsError, Replies
  <2>3. at[c] = "done" /\ req[c].early = 0 /\ reply[c] = 200 =>
            \E d \in Calls : ran[d] = "ok" /\ req[d] = req[c]
    BY <1>1 DEF DoneLink
  <2>4. /\ status[c] \in Terminal /\ ~PollIsError(c) => ran[c] = "ok" /\ answer[c] = "yes"
        /\ status[c] = "denied" => ran[c] = "no" /\ answer[c] = "no"
        /\ status[c] = "failed" /\ faults = 0 => ran[c] # "ok"
    BY <1>1 DEF JobLink, PollIsError, Terminal
  <2> QED BY <2>2, <2>3, <2>4
<1> QED BY <1>2, <1>3, <1>4, <1>5

-----------------------------------------------------------------------------
(* The checks of handle.                                                   *)

\* Of the answers that apply, one comes first.
LEMMA FirstOfThem ==
    ASSUME NEW S \in SUBSET Nat, S # {}
    PROVE  \E k \in S : \A j \in S : k <= j
<1> DEFINE less == {p \in Nat \X Nat : p[1] < p[2]}
<1>1. IsWellFoundedOn(less, Nat)
  BY NatLessThanWellFounded DEF OpToRel
<1>2. PICK k \in S : \A j \in S : <<j, k>> \notin less
  <2> HIDE DEF less
  <2> QED BY <1>1, WFMin
<1>3. ASSUME NEW j \in S PROVE k <= j
  <2>1. j \in Nat /\ k \in Nat /\ <<j, k>> \notin less
    BY <1>2
  <2> QED BY <2>1
<1> QED BY <1>3

LEMMA AnswerType ==
    ASSUME NEW m \in Messages
    PROVE  AnswerTo[m] \in {0, 200, 202, 400, 403, 404, 405}
<1> DEFINE answers == Answers(m)
           applies == {k \in DOMAIN answers : answers[k].when}
           First(k) == \A j \in applies : k <= j
<1>1. AnswerTo[m] = IF applies = {} THEN 0 ELSE answers[CHOOSE k \in applies : First(k)].http
  BY DEF AnswerTo
<1>2. DOMAIN answers = 1..12
  BY DEF Answers
<1>3. \A k \in 1..12 : answers[k].http \in {200, 202, 400, 403, 404, 405}
  BY DEF Answers
<1>4. ASSUME applies # {} PROVE (CHOOSE k \in applies : First(k)) \in 1..12
  <2>1. applies \in SUBSET (1..12)
    BY <1>2
  <2> HIDE DEF applies
  <2>2. \E k \in applies : First(k)
    <3>1. applies \in SUBSET Nat
      BY <2>1
    <3> QED BY <1>4, <3>1, FirstOfThem
  <2> HIDE DEF First
  <2>3. (CHOOSE k \in applies : First(k)) \in applies
    BY <2>2
  <2> QED BY <2>1, <2>3
<1> HIDE DEF answers, applies, First
<1>5. CASE applies # {}
  <2>1. PICK k \in 1..12 : k = CHOOSE i \in applies : First(i)
    BY <1>4, <1>5
  <2>2. AnswerTo[m] = answers[k].http
    BY <1>1, <1>5, <2>1
  <2> QED BY <1>3, <2>2
<1> QED BY <1>1, <1>5

\* What reaches dispatch is a request.
LEMMA RequestOfMessage ==
    ASSUME NEW m \in Messages, m.name \in Verbs
    PROVE  RequestOf(m) \in RequestType
<1>1. m \in MessageType
  BY McpAssumption
<1>2. m.key \in Keys \cup {NoKey, OddKey} /\ m.payload \in Payloads
  BY <1>1 DEF MessageType
<1> QED BY <1>2 DEF RequestOf, RequestType

-----------------------------------------------------------------------------
(* Theorems.                                                               *)

LEMMA McpInitInv == McpInit => McpInv
<1> SUFFICES ASSUME McpInit PROVE McpInv
  OBVIOUS
<1>1. EngineInv
  BY EngineInitInv DEF McpInit
<1>2. \A c \in Calls : http[c] = 0
  BY DEF McpInit
<1>3. http \in [Calls -> {0, 200, 202, 400, 403, 404, 405}]
  BY DEF McpInit
<1> QED BY <1>1, <1>2, <1>3 DEF McpInv, EngineInv, McpTypeOK

\* Behind the endpoint the engine takes steps of its own, or none.
LEMMA McpStepIsEngineStep ==
    ASSUME [McpNext]_mcpAll
    PROVE  EngineStep \/ UNCHANGED vars
<1>1. ASSUME NEW c \in Calls, NEW m \in Messages, AnswerAtOnce(c, m) PROVE UNCHANGED vars
  BY <1>1 DEF AnswerAtOnce
<1>2. ASSUME NEW c \in Calls, NEW m \in Messages, CallTool(c, m) PROVE EngineStep
  <2>1. RequestOf(m) \in RequestType /\ Receive(c, RequestOf(m))
    BY <1>2, RequestOfMessage DEF CallTool
  <2> QED BY <2>1 DEF EngineStep
<1>3. ASSUME NEW c \in Calls, Dispatch(c) \/ Raises(c) \/ JobStep(c) PROVE EngineStep
  BY <1>3 DEF EngineStep
<1>4. CASE Crash \/ (Boot /\ UNCHANGED engineVars)
  BY <1>4 DEF EngineStep
<1>5. CASE UNCHANGED mcpAll
  BY <1>5 DEF mcpAll
<1> QED BY <1>1, <1>2, <1>3, <1>4, <1>5 DEF McpNext

LEMMA McpStepInv == McpInv /\ [McpNext]_mcpAll => McpInv'
<1> SUFFICES ASSUME McpInv, [McpNext]_mcpAll PROVE McpInv'
  OBVIOUS
<1>1. EngineInv'
  BY McpStepIsEngineStep, EngineStepKeeps, EngineStutters DEF McpInv
<1>2. http \in [Calls -> {0, 200, 202, 400, 403, 404, 405}] /\ \A c \in Calls : http[c] # 0 => at[c] = "idle"
  BY DEF McpInv, McpTypeOK
<1>3. at \in [Calls -> Places] /\ at' \in [Calls -> Places]
  BY <1>1 DEF McpInv, EngineInv, EngineTypeOK, Places
<1>4. http' \in [Calls -> {0, 200, 202, 400, 403, 404, 405}] /\ \A c \in Calls : http'[c] # 0 => at'[c] = "idle"
  <2>1. ASSUME NEW c \in Calls, NEW m \in Messages, AnswerAtOnce(c, m)
        PROVE  /\ http' \in [Calls -> {0, 200, 202, 400, 403, 404, 405}]
               /\ \A d \in Calls : http'[d] # 0 => at'[d] = "idle"
    <3>1. PICK h \in {0, 200, 202, 400, 403, 404, 405} : h = AnswerTo[m]
      BY AnswerType
    <3>2. at[c] = "idle" /\ at' = at /\ http' = [http EXCEPT ![c] = h]
      BY <2>1, <3>1 DEF AnswerAtOnce, vars, engineVars
    <3> QED BY <1>2, <3>2
  <2>2. ASSUME NEW c \in Calls, NEW m \in Messages, CallTool(c, m)
        PROVE  \A d \in Calls : http'[d] # 0 => at'[d] = "idle"
    <3>1. http[c] = 0 /\ http' = http /\ Receive(c, RequestOf(m)) /\ EngineTypeOK
      BY <2>2 DEF CallTool, McpInv, EngineInv
    <3>2. \A d \in Calls \ {c} : at'[d] = at[d]
      BY <3>1 DEF Receive, Return, Goto, EngineTypeOK
    <3> QED BY <1>2, <3>1, <3>2
  <2>3. ASSUME NEW c \in Calls, Dispatch(c), UNCHANGED http
        PROVE  \A d \in Calls : http'[d] # 0 => at'[d] = "idle"
    <3>1. EngineTypeOK /\ at[c] # "idle"
      BY <2>3 DEF McpInv, EngineInv, Dispatch, LookUp, Replay, Precheck, SubmitJob, StartThread,
                  ReadBack, ExecuteNow, Record
    <3>2. \E label : at' = [at EXCEPT ![c] = label]
      BY <2>3 DEF Dispatch, LookUp, Replay, Precheck, SubmitJob, StartThread,
                  ReadBack, ExecuteNow, Record, Goto, Return, Conclude
    <3>3. \A d \in Calls \ {c} : at'[d] = at[d]
      BY <3>1, <3>2 DEF EngineTypeOK
    <3> QED BY <1>2, <2>3, <3>1, <3>3
  <2>4. ASSUME NEW c \in Calls, Raises(c), UNCHANGED http
        PROVE  \A d \in Calls : http'[d] # 0 => at'[d] = "idle"
    <3>1. EngineTypeOK /\ at[c] # "idle" /\ at' = [at EXCEPT ![c] = "dead"]
      BY <2>4 DEF McpInv, EngineInv, Raises, Goto
    <3>2. \A d \in Calls \ {c} : at'[d] = at[d]
      BY <3>1 DEF EngineTypeOK
    <3> QED BY <1>2, <2>4, <3>1, <3>2
  <2>5. ASSUME NEW c \in Calls, JobStep(c), UNCHANGED http
        PROVE  \A d \in Calls : http'[d] # 0 => at'[d] = "idle"
    BY <1>2, <2>5 DEF JobStep, engineVars
  <2>6. CASE Crash /\ UNCHANGED http
    BY <1>2, <2>6 DEF Crash
  <2>7. CASE Boot /\ UNCHANGED engineVars /\ UNCHANGED http
    BY <1>2, <2>7 DEF engineVars
  <2>8. CASE UNCHANGED mcpAll
    BY <1>2, <2>8 DEF mcpAll, vars, engineVars
  <2>9. UNCHANGED http => http' \in [Calls -> {0, 200, 202, 400, 403, 404, 405}]
    BY <1>2
  <2>10. \/ \E c \in Calls, m \in Messages : AnswerAtOnce(c, m) \/ CallTool(c, m)
         \/ \E c \in Calls : (Dispatch(c) \/ Raises(c) \/ JobStep(c)) /\ UNCHANGED http
         \/ (Crash \/ (Boot /\ UNCHANGED engineVars)) /\ UNCHANGED http
         \/ UNCHANGED mcpAll
    BY DEF McpNext
  <2>11. \A c \in Calls, m \in Messages : CallTool(c, m) => UNCHANGED http
    BY DEF CallTool
  <2> QED BY <2>1, <2>2, <2>3, <2>4, <2>5, <2>6, <2>7, <2>8, <2>9, <2>10, <2>11 DEF mcpAll
<1> QED BY <1>1, <1>4 DEF McpInv, McpTypeOK, EngineInv

\* The inductive invariant: every state of the endpoint, the engine and the jobs
\* satisfies it, for whatever messages, verbs, keys, faults and restarts.
THEOREM McpInvariant == McpSpec => []McpInv
BY McpInitInv, McpStepInv, PTL DEF McpSpec

\* The types of the whole, and a POST answered at once calls nothing.
THEOREM McpTypes == McpSpec => []McpTypeOK
<1>1. McpInv => McpTypeOK
  BY DEF McpInv
<1> QED BY <1>1, McpInvariant, PTL

\* _notify (confirm.py): a webhook is told once, and what every later poll says.
THEOREM McpWebhook == McpSpec => []WebhookTellsOutcome
<1>1. McpInv => WebhookTellsOutcome
  BY InvariantTells DEF McpInv
<1> QED BY <1>1, McpInvariant, PTL

\* A call whose key was on record when it came runs nothing and asks nobody.
THEOREM McpReplays == McpSpec => []LateCallsOnlyReplay
<1>1. McpInv => LateCallsOnlyReplay
  BY InvariantTells DEF McpInv
<1> QED BY <1>1, McpInvariant, PTL

\* No command of a gated verb runs without a yes to the job of that very call.
THEOREM McpGated == McpSpec => []GatedRunsNeedYes
<1>1. McpInv => GatedRunsNeedYes
  BY InvariantTells DEF McpInv
<1> QED BY <1>1, McpInvariant, PTL

\* isError (mcp.py), of a call and of a poll, says what became of the command.
THEOREM McpResults == McpSpec => []ToolResultIsTrue
<1>1. McpInv => ToolResultIsTrue
  BY InvariantTells DEF McpInv
<1> QED BY <1>1, McpInvariant, PTL

\* A job that a poll has seen over is never pending again.
THEOREM McpPolls == McpSpec => PollsNeverReopen
<1>1. McpInv /\ [McpNext]_mcpAll =>
          [\A c \in Calls : status[c] \in Terminal => status'[c] \in Terminal]_status
  <2> SUFFICES ASSUME McpInv, [McpNext]_mcpAll, NEW c \in Calls, status[c] \in Terminal,
                      status' # status
               PROVE  status'[c] \in Terminal
    OBVIOUS
  <2>1. EngineStep
    BY McpStepIsEngineStep DEF vars, jobVars
  <2> QED BY <2>1, OverStaysOver DEF McpInv
<1> QED BY <1>1, McpInvariant, PTL DEF McpSpec, PollsNeverReopen

\* The same of the engine under requests of any kind, without the endpoint.
THEOREM EngineSafe == Spec => [](WebhookTellsOutcome /\ LateCallsOnlyReplay /\ GatedRunsNeedYes
                                 /\ ToolResultIsTrue)
<1>1. EngineInv /\ [Next]_vars => EngineInv'
  <2> SUFFICES ASSUME EngineInv, [Next]_vars PROVE EngineInv'
    OBVIOUS
  <2>1. EngineStep \/ UNCHANGED vars
    BY EngineAssumption DEF Next, EngineStep, JobStep
  <2> QED BY <2>1, EngineStepKeeps, EngineStutters
<1>2. Init => EngineInv
  BY EngineInitInv
<1>3. EngineInv => WebhookTellsOutcome /\ LateCallsOnlyReplay /\ GatedRunsNeedYes
                   /\ ToolResultIsTrue
  BY InvariantTells
<1> QED BY <1>1, <1>2, <1>3, PTL DEF Spec

=============================================================================
