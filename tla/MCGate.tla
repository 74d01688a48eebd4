------------------------------- MODULE MCGate -------------------------------
(* Gate for TLC: a catalog of three verbs, one for each way through the     *)
(* gate, and every request of the type.                                     *)
EXTENDS Gate, TLC

CONSTANTS read, send, record

MCTier == (read :> "A") @@ (send :> "A") @@ (record :> "B")
MCDirection == (read :> "perceive") @@ (send :> "act") @@ (record :> "act")
MCRisk == (read :> "none") @@ (send :> "high") @@ (record :> "high")

Well(kind, verb) == [authorized |-> TRUE, body |-> "object", kind |-> kind,
                     verb |-> verb, args |-> "accepted"]

Good == {Well("perceive", read), Well("act", send), Well("watch", record)}

\* Good requests and every way to fail one check of do_POST, or several.
AnyCall == CallType

\* Only the verbs of Tier A, as good requests.
TierA == {Well("perceive", read), Well("act", send)}

OnlyReads == {Well("perceive", read)}

Symmetry == Permutations(Threads)

=============================================================================
