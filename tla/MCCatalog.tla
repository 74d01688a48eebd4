----------------------------- MODULE MCCatalog -----------------------------
(* Catalog for TLC: the valid entries of up to two arguments, one of them   *)
(* named by a word of YAML, and entries with one field wrong.               *)
EXTENDS Catalog

CONSTANTS text, on

Proper ==
    {[tier |-> t, direction |-> d, risk |-> r, parser |-> "json", command |-> "strings",
      placeholders |-> used, args |-> given, names |-> "strings", stdin |-> s, schema |-> NoSchema] :
        t \in ValidTiers, d \in ValidDirections, r \in {"medium", "high"}, used \in {{}, {text}},
        given \in SUBSET ArgNames, s \in {text, NoName}}

One == [tier |-> "A", direction |-> "act", risk |-> "high", parser |-> "json",
        command |-> "strings", placeholders |-> {text}, args |-> {text}, names |-> "strings",
        stdin |-> NoName, schema |-> NoSchema]

Improper ==
    {[One EXCEPT !.tier = "C"], [One EXCEPT !.direction = "other"], [One EXCEPT !.risk = "other"],
     [One EXCEPT !.parser = "other"], [One EXCEPT !.parser = "json_stream"],
     [One EXCEPT !.command = "other"], [One EXCEPT !.names = "other"],
     [One EXCEPT !.command = "text", !.placeholders = {}]}

Written == Proper \cup Improper

Lists == {{}, {"high"}, {"medium", "high"}, {"other"}}

=============================================================================
