------------------------------ MODULE Catalog ------------------------------
(***************************************************************************)
(* One entry of verbs.yaml, from the file to a call: the script that adds  *)
(* the documentation fields (scripts/enrich_verbs.py) rewrites the file,   *)
(* the daemon loads it (dispatch/catalog.py), advertises it (public_spec,  *)
(* list_tools of dispatch/mcp.py, dry_run_payload of dispatch/engine.py),  *)
(* and checks the arguments of a call against it.                          *)
(*                                                                         *)
(* An argument of a call is a string, null or something else; a command    *)
(* template is the set of the names it has placeholders for.  `command`    *)
(* and the args (`names`) are lists of strings, or lists with something    *)
(* else among them; a command may also be one text, without placeholders.  *)
(*                                                                         *)
(* Verb.args_schema is read by list_tools and not yet set by Catalog.load: *)
(* it is taken to be the field of that name in the file.                   *)
(***************************************************************************)
CONSTANTS ArgNames,  \* names of arguments
          Words,     \* those that YAML reads as something else if not quoted: on, no
          NoName,    \* no stdin argument
          NoSchema,  \* no args_schema
          NoEntry,   \* the daemon has not loaded the catalog
          Entries,   \* what an operator may write for the verb
          Confirms   \* ... and for confirmation_required_for

ValidTiers == {"A", "B"}
ValidDirections == {"perceive", "act"}
ValidRisks == {"none", "low", "medium", "high"}
ValidParsers == {"json", "text", "none", "json_stream"}

EntryType == [tier: ValidTiers \cup {"C"}, direction: ValidDirections \cup {"other"},
              risk: ValidRisks \cup {"other"}, parser: ValidParsers \cup {"other"},
              command: {"strings", "text", "other"}, placeholders: SUBSET ArgNames,
              args: SUBSET ArgNames, names: {"strings", "other"},
              stdin: ArgNames \cup {NoName}, schema: (SUBSET ArgNames) \cup {NoSchema}]

ASSUME CatalogAssumption ==
    /\ NoName \notin ArgNames
    /\ NoEntry \notin EntryType
    /\ \A names \in SUBSET ArgNames : names # NoSchema
    /\ Entries \subseteq EntryType
    /\ \A e \in Entries : e.command = "text" => e.placeholders = {}
    /\ Confirms \subseteq SUBSET (ValidRisks \cup {"other"})

VARIABLES entry,    \* the verb in the file
          confirm,  \* confirmation_required_for in the file
          written,  \* history: the verb and the list as the operator wrote them
          fresh,    \* history: has the script run since the operator wrote them?
          verb,     \* the verb as the daemon has loaded it, NoEntry before that
          required, \* catalog.confirmation_required_for
          current   \* history: was the file fresh when it was loaded?

vars == <<entry, confirm, written, fresh, verb, required, current>>

-----------------------------------------------------------------------------
(* scripts/enrich_verbs.py                                                 *)

\* The fields the loader reads are written back without quotes, the args too: a
\* list with a word in it is no list of strings any more.  A text becomes the list
\* of its characters.  With them goes the schema of schema_for: an object with
\* exactly the args, all required.
Enriched(e) ==
    [e EXCEPT !.command = IF @ = "text" THEN "strings" ELSE @,
              !.names = IF e.args \cap Words = {} THEN @ ELSE "other",
              !.schema = e.args]

\* Mistake: the list is written only if there is one.
ConfirmAsFound(c) == {}

\* "or ['high']": an empty list is not kept.
EnrichedConfirm(c) == IF c = {} THEN {"high"} ELSE c

\* Args that are not all strings end the script before it writes.
Enrich ==
    /\ entry.names = "strings"
    /\ entry' = Enriched(entry)
    /\ confirm' = EnrichedConfirm(confirm)
    /\ fresh' = TRUE
    /\ UNCHANGED <<written, verb, required, current>>

-----------------------------------------------------------------------------
(* Catalog.load                                                            *)

Admitted(e) ==
    /\ e.tier \in ValidTiers
    /\ e.direction \in ValidDirections
    /\ e.risk \in ValidRisks
    /\ e.parser \in ValidParsers
    /\ ~(e.tier = "A" /\ e.parser = "json_stream")
    /\ e.command = "strings" /\ e.names = "strings"
    /\ e.stdin # NoName => e.stdin \in e.args

\* A ValueError at the import of daemon.py: it does not start.
Load ==
    /\ verb = NoEntry
    /\ Admitted(entry) /\ confirm \subseteq ValidRisks
    /\ verb' = entry
    /\ required' = confirm
    /\ current' = fresh
    /\ UNCHANGED <<entry, confirm, written, fresh>>

\* The daemon ends.
Stop ==
    /\ verb # NoEntry
    /\ verb' = NoEntry
    /\ UNCHANGED <<entry, confirm, written, fresh, required, current>>

\* The operator rewrites the verb; a schema that is there stays as it is.
Edit ==
    /\ verb = NoEntry
    /\ \E e \in Entries : entry' = [e EXCEPT !.schema = entry.schema]
    /\ confirm' \in Confirms
    /\ written' = [entry |-> entry', confirm |-> confirm']
    /\ fresh' = FALSE
    /\ UNCHANGED <<verb, required, current>>

-----------------------------------------------------------------------------
(* What is advertised, and what a call meets.                              *)

RequiresConfirmation(v) == v.risk \in required

\* public_spec, dry_run_payload, and the kind McpHandler passes to dispatch.
Route(v) == IF v.tier = "B" THEN "watch" ELSE v.direction

\* verb_input_schema, without the envelope: the names a client is told to give.
\* Without an args_schema it is told that there are none.
Advertised(v) == IF v.schema = NoSchema THEN {} ELSE v.schema

\* do_POST: the kinds of route that serve the verb.
Serves(v, kind) ==
    \/ kind \in {"perceive", "act"} /\ v.tier = "A" /\ v.direction = kind
    \/ kind = "watch" /\ v.tier = "B"

\* Mistake: an argument too many is ignored.
BuildArgvOfKnown(v, call) ==
    IF ~(v.args \subseteq DOMAIN call) THEN "ValueError"
    ELSE IF ~(v.placeholders \subseteq DOMAIN call) THEN "KeyError" ELSE "argv"

BuildArgv(v, call) ==
    IF DOMAIN call # v.args THEN "ValueError"
    ELSE IF ~(v.placeholders \subseteq DOMAIN call) THEN "KeyError" ELSE "argv"

StdinPayload(v, call) ==
    IF v.stdin # NoName /\ call[v.stdin] = "other" THEN "ValueError" ELSE "payload"

\* What do_POST does before the risk gate; the KeyError of a placeholder without
\* an argument is not caught and ends the handler.
Checked(v, call) ==
    IF BuildArgv(v, call) # "argv" THEN BuildArgv(v, call) ELSE StdinPayload(v, call)

\* The arguments a call may have.
ArgCalls == UNION {[names -> {"string", "null", "other"}] : names \in SUBSET ArgNames}

-----------------------------------------------------------------------------
Init ==
    /\ entry \in Entries /\ confirm \in Confirms
    /\ written = [entry |-> entry, confirm |-> confirm]
    /\ fresh = FALSE
    /\ verb = NoEntry
    /\ required = {}
    /\ current = FALSE

Next == Enrich \/ Load \/ Stop \/ Edit

Spec == Init /\ [][Next]_vars

-----------------------------------------------------------------------------
(* Properties.                                                             *)

\* The parts of the code that read a verb agree on it: the route it is advertised
\* with is the one do_POST serves it on, and the only one; and once the script has
\* run over what the operator wrote, build_argv and stdin_payload accept a call of
\* strings if and only if it gives the names that list_tools advertises.  (Load
\* does not compare placeholders with args; a template with others is left out.)
ServedAsAdvertised ==
    verb # NoEntry =>
        /\ {kind \in {"perceive", "act", "watch"} : Serves(verb, kind)} = {Route(verb)}
        /\ current /\ verb.placeholders \subseteq verb.args =>
              \A call \in ArgCalls : (\A a \in DOMAIN call : call[a] = "string") =>
                  (Checked(verb, call) = "payload" <=> DOMAIN call = Advertised(verb))

\* enrich_verbs.py:2 "add description + args_schema": however often the script ran
\* before or while the daemon does, what is loaded is what the operator wrote, the
\* argument that is piped and redacted with it, and no verb the operator wanted
\* to be asked about loses its dialog.  The exception is a command that is a text:
\* the loader turns it down, and takes the list the script makes of it.
RewriteKeepsContract ==
    verb # NoEntry =>
        /\ written.entry.command # "text" =>
              [verb EXCEPT !.schema = NoSchema] = [written.entry EXCEPT !.schema = NoSchema]
        /\ verb.risk \in written.confirm => RequiresConfirmation(verb)

=============================================================================
