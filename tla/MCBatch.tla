------------------------------ MODULE MCBatch ------------------------------
(* Batch for TLC: two perceive verbs, one of which asks; good lists of one, *)
(* two and three entries, and lists with one bad entry in either place.    *)
EXTENDS Batch, TLC

CONSTANTS read, look, send

MCTier == (read :> "A") @@ (look :> "A") @@ (send :> "A")
MCDirection == (read :> "perceive") @@ (look :> "perceive") @@ (send :> "act")
MCRisk == (read :> "none") @@ (look :> "medium") @@ (send :> "none")

Entry(verb) == [shape |-> "named", verb |-> verb, args |-> "accepted"]

BadEntries == {Entry(send), Entry(Unknown), [Entry(read) EXCEPT !.args = "rejected"],
               [Entry(read) EXCEPT !.shape = "malformed"]}

\* One more entry than workers.
Queued == <<Entry(read), Entry(read), Entry(read)>>

Lists == {<<>>, <<Entry(look)>>, <<Entry(read), Entry(read)>>,
          <<Entry(read), Entry(look)>>, <<Entry(look), Entry(read)>>, Queued}
           \cup {<<Entry(read), e>> : e \in BadEntries} \cup {<<e, Entry(read)>> : e \in BadEntries}

Posted == [authorized: {TRUE}, body: {"object"}, entries: Lists]
            \cup {[authorized |-> FALSE, body |-> "object", entries |-> <<Entry(read)>>],
                  [authorized |-> TRUE, body |-> "invalid", entries |-> <<>>]}

\* Faults are left to the shorter lists.
FaultsOfShort == \A b \in BatchIds : entries[b] = Queued => faults = 0

=============================================================================
