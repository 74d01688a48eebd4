------------------------------- MODULE MCMcp -------------------------------
(* Mcp for TLC: a verb that needs a yes and a key and one that needs        *)
(* neither, called over MCP; and the posts that fail one of the checks.     *)
EXTENDS Mcp

CONSTANTS send, show, key, x, y

Good(verb, k, payload) ==
    [verb |-> "POST", origin |-> "none", body |-> "object", jsonrpc |-> TRUE, hasId |-> TRUE,
     method |-> "tools/call", version |-> "supported", meta |-> "complete",
     methodHeader |-> "tools/call", nameHeader |-> verb, name |-> verb, arguments |-> "object",
     webhook |-> "none", dryRun |-> FALSE, key |-> k, payload |-> payload]

Calling == {Good(send, key, x), Good(send, key, y), Good(send, NoKey, x),
            Good(show, key, x), Good(show, OddKey, x)}

\* One field wrong, or one that makes the call another one.
Plain == Good(send, key, x)

Others ==
    {[Plain EXCEPT !.verb = "GET"], [Plain EXCEPT !.origin = "foreign"],
     [Plain EXCEPT !.body = "not_json"], [Plain EXCEPT !.hasId = FALSE],
     [Plain EXCEPT !.version = "other"], [Plain EXCEPT !.meta = "no_capabilities"],
     [Plain EXCEPT !.nameHeader = show], [Plain EXCEPT !.method = "tools/list", !.methodHeader = "tools/list"],
     [Plain EXCEPT !.method = "other", !.methodHeader = "other"],
     [Plain EXCEPT !.arguments = "rejected"], [Plain EXCEPT !.arguments = "not_object"],
     [Plain EXCEPT !.webhook = "other"], [Plain EXCEPT !.dryRun = TRUE],
     Good(UnknownTool, key, x), [Good(ConfirmPoll, key, x) EXCEPT !.arguments = "rejected"]}

AnyMessage == Calling \cup Others

\* One key used over and over, with the same arguments and with others.
Keyed == {Good(send, key, x), Good(send, key, y), Good(show, key, x)}

=============================================================================
