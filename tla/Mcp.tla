-------------------------------- MODULE Mcp --------------------------------
(***************************************************************************)
(* The MCP endpoint of dispatch/mcp.py in front of dispatch(): a POST is   *)
(* checked, a tools/call of a verb becomes a call of Engine, a tools/call  *)
(* of confirm.poll reads a job.  There is no session: what a client knows  *)
(* of a job it knows from its own calls and polls.                         *)
(*                                                                         *)
(* McpHandler keeps no state.  Its answer to a call of a verb is derived   *)
(* from what dispatch returned (IsError); `http` is the answer to a POST   *)
(* that does not come that far.  split_envelope and Verb.args_schema are   *)
(* used by this code and absent from the repository: the envelope is taken *)
(* to be split off as the three fields of envelope_properties.             *)
(***************************************************************************)
EXTENDS Engine

CONSTANTS OddKey,     \* an idempotency_key that is not a string
          NoName,     \* params.name when it is absent or not a string
          UnknownTool,
          ConfirmPoll,
          Messages    \* what clients may post

Names == Verbs \cup {NoName, UnknownTool, ConfirmPoll}

Methods == {"none", "server/discover", "tools/list", "tools/call", "other"}

\* One HTTP request: its method and headers, the JSON-RPC fields of its body, the
\* tool it calls with its arguments, and the envelope among these.
MessageType ==
    [verb: {"GET", "POST", "DELETE"}, origin: {"none", "local", "foreign"},
     body: {"not_json", "not_object", "object"}, jsonrpc: BOOLEAN, hasId: BOOLEAN,
     method: Methods, version: {"supported", "other"},
     meta: {"absent", "other_version", "no_capabilities", "complete"},
     methodHeader: Methods, nameHeader: Names, name: Names,
     arguments: {"object", "not_object", "rejected"},
     webhook: {"none", "http", "other"}, dryRun: BOOLEAN,
     key: Keys \cup {NoKey, OddKey}, payload: Payloads]

ASSUME McpAssumption ==
    /\ OddKey \notin Keys
    /\ {NoName, UnknownTool, ConfirmPoll} \cap Verbs = {}
    /\ Messages \subseteq MessageType

VARIABLE http  \* http[c]: the status of the answer when dispatch is not called

mcpAll == <<vars, http>>

McpTypeOK ==
    /\ JobsTypeOK
    /\ EngineTypeOK
    /\ http \in [Calls -> {0, 200, 202, 400, 403, 404, 405}]
    /\ \A c \in Calls : http[c] # 0 => at[c] = "idle"

-----------------------------------------------------------------------------
(* handle                                                                  *)

OriginAllowed(o) == o \in {"none", "local"}

\* The answers that call nothing, in the order of the code.
Answers(m) ==
    << [when |-> m.verb # "POST",                                        http |-> 405],
       [when |-> ~OriginAllowed(m.origin),                               http |-> 403],
       [when |-> m.body # "object" \/ ~m.jsonrpc,                        http |-> 400],
       [when |-> ~m.hasId,                                               http |-> 202],
       [when |-> m.method = "none" \/ m.version # "supported",           http |-> 400],
       [when |-> m.meta # "complete" \/ m.methodHeader # m.method,       http |-> 400],
       [when |-> m.method = "tools/call" /\ m.nameHeader # m.name,       http |-> 400],
       [when |-> m.method \in {"server/discover", "tools/list"},         http |-> 200],
       [when |-> m.method # "tools/call",                                http |-> 404],
       [when |-> m.name = NoName \/ m.arguments = "not_object",          http |-> 400],
       [when |-> m.name = ConfirmPoll /\ m.arguments = "rejected",       http |-> 400],
       [when |-> m.name = UnknownTool,                                   http |-> 200] >>

\* Mistake: the JSON-RPC code is sent as the status.
AnswerCode == [m \in Messages |-> 32600]

\* The first of them that applies to m, 0 when none does.
AnswerTo == [m \in Messages |->
    LET answers == Answers(m)
        applies == {k \in DOMAIN answers : answers[k].when}
    IN  IF applies = {} THEN 0 ELSE answers[CHOOSE k \in applies : \A j \in applies : k <= j].http]

AnswerAtOnce(c, m) ==
    /\ at[c] = "idle" /\ http[c] = 0
    /\ AnswerTo[m] # 0
    /\ http' = [http EXCEPT ![c] = AnswerTo[m]]
    /\ UNCHANGED vars

-----------------------------------------------------------------------------
(* _tools_call                                                             *)

\* What dispatch is called with.  A key that is not a string is dropped; the route
\* kind comes from the verb itself, so dispatch never finds it wrong.
RequestOf(m) ==
    [early |-> IF m.arguments = "rejected" \/ m.webhook = "other" THEN 400
               ELSE IF m.dryRun THEN 200 ELSE 0,
     verb |-> m.name, key |-> IF m.key = OddKey THEN NoKey ELSE m.key, payload |-> m.payload]

CallTool(c, m) ==
    /\ http[c] = 0
    /\ AnswerTo[m] = 0 /\ m.name \in Verbs
    /\ Receive(c, RequestOf(m))
    /\ UNCHANGED http

\* isError of the answer to call c; 202 is a result, with the handle of the job.
IsError(c) == reply[c] >= 400

\* Mistake: only a denial is an error.
PollDenied(c) == status[c] = "denied"

\* confirm.poll answers with the row as it is, and with isError for these rows;
\* it changes nothing, so any state with a row is one in which a poll may come.
PollIsError(c) == status[c] \in {"denied", "failed"}

-----------------------------------------------------------------------------
McpInit == Init /\ http = [c \in Calls |-> 0]

JobStep(c) == (Ask(c) \/ Worker(c) \/ Errors(c)) /\ UNCHANGED engineVars

McpNext ==
    \/ \E c \in Calls :
          \/ \E m \in Messages : AnswerAtOnce(c, m) \/ CallTool(c, m)
          \/ (Dispatch(c) \/ Raises(c) \/ JobStep(c)) /\ UNCHANGED http
    \/ (Crash \/ (Boot /\ UNCHANGED engineVars)) /\ UNCHANGED http

McpSpec == McpInit /\ [][McpNext]_mcpAll

\* Threads are scheduled and the daemon is started again.  That a dialog ends,
\* after two minutes at the latest, is an assumption of its own.
McpFairSpec ==
    /\ McpSpec
    /\ \A c \in Calls : WF_mcpAll(Dispatch(c) /\ UNCHANGED http)
    /\ \A c \in Calls : WF_mcpAll(Worker(c) /\ UNCHANGED <<engineVars, http>>)
    /\ WF_mcpAll(Boot /\ UNCHANGED <<engineVars, http>>)

DialogsEnd == \A c \in Calls : WF_mcpAll(Ask(c) /\ UNCHANGED <<engineVars, http>>)

-----------------------------------------------------------------------------
(* Properties.                                                             *)

\* mcp.py:349 and 377: isError tells the client whether the verb was done.  A
\* result without it, other than a handle, means that the command of a call with
\* this verb, key and payload ran well, and so does a poll that says so, of a job
\* that had the human's yes; a poll says "denied" of no command that ran, and
\* "failed" of one that ran well, with output that could be read, only after an error.
ToolResultIsTrue ==
    \A c \in Calls :
        /\ at[c] = "done" /\ req[c].early = 0 /\ ~IsError(c) /\ reply[c] # 202
             => \E d \in Calls : ran[d] = "ok" /\ req[d] = req[c]
        /\ status[c] \in Terminal /\ ~PollIsError(c) => ran[c] = "ok" /\ answer[c] = "yes"
        /\ status[c] = "denied" => ran[c] = "no" /\ answer[c] = "no"
        /\ status[c] = "failed" /\ faults = 0 => ran[c] # "ok"

\* A client that loops on confirm.poll never sees a job that was over become
\* pending again, whatever fails and however often the daemon is restarted.
PollsNeverReopen ==
    [][\A c \in Calls : status[c] \in Terminal => status'[c] \in Terminal]_status

\* mcp.py:137 "does not block the MCP request": a call that dispatch accepted is
\* answered, or ends in an error or a crash, also if no dialog is ever answered.
NeverBlocksOnDialog == \A c \in Calls : at[c] = "checking" ~> at[c] \in {"done", "dead"}

\* A job that has a worker ends: a client that polls sees something else than
\* "pending" at last, unless the worker's thread died in its except clause.
\* After a crash it is fail_orphans that ends it.
PendingEnds ==
    DialogsEnd => \A c \in Calls :
        status[c] = "pending" /\ worker[c] = "asking" ~>
            status[c] # "pending" \/ (worker[c] = "dead" /\ daemon = "up")

=============================================================================
