--------------------------- MODULE CatalogProofs ---------------------------
(***************************************************************************)
(* Proofs about Catalog for every set of names and every entry an operator *)
(* may write.  The invariant follows the entry from the operator's hand    *)
(* over any number of rewrites (FileLink) into the daemon (LoadedLink).    *)
(***************************************************************************)
EXTENDS Catalog, TLAPS

\* The same verb, but for what the script adds.
SameVerb(e, f) ==
    /\ e.tier = f.tier /\ e.direction = f.direction /\ e.risk = f.risk
    /\ e.parser = f.parser /\ e.command = f.command /\ e.placeholders = f.placeholders
    /\ e.args = f.args /\ e.names = f.names /\ e.stdin = f.stdin

\* The file against what the operator wrote: as long as the args still read as
\* strings the script has changed nothing else, and no risk left the list.
FileLink ==
    /\ entry \in EntryType /\ written.entry \in EntryType
    /\ written.entry.command # "text" /\ entry.names = "strings" => SameVerb(entry, written.entry)
    /\ written.confirm \subseteq confirm
    /\ fresh => entry.schema = entry.args

\* The daemon's verb against what the operator wrote.
LoadedLink ==
    verb # NoEntry =>
        /\ verb \in EntryType /\ Admitted(verb)
        /\ written.entry.command # "text" => SameVerb(verb, written.entry)
        /\ written.confirm \subseteq required
        /\ current => verb.schema = verb.args

CatalogInv == FileLink /\ LoadedLink

-----------------------------------------------------------------------------
\* The script keeps what the loader reads of an entry it leaves loadable.
LEMMA EnrichedSame ==
    ASSUME NEW e \in EntryType
    PROVE  /\ Enriched(e) \in EntryType
           /\ Enriched(e).schema = Enriched(e).args
           /\ e.command # "text" /\ e.names = "strings" /\ Enriched(e).names = "strings"
                => SameVerb(Enriched(e), e)
<1> DEFINE c == IF e.command = "text" THEN "strings" ELSE e.command
           n == IF e.args \cap Words = {} THEN e.names ELSE "other"
<1>1. c \in {"strings", "text", "other"} /\ n \in {"strings", "other"}
  BY DEF EntryType
<1>2. Enriched(e) = [e EXCEPT !.command = c, !.names = n, !.schema = e.args]
  BY Zenon DEF Enriched
<1> HIDE DEF c, n
<1>3. Enriched(e) \in EntryType
  BY <1>1, <1>2 DEF EntryType
<1>4. Enriched(e).schema = Enriched(e).args
  BY DEF Enriched, EntryType
<1>5. ASSUME e.command # "text", e.names = "strings", Enriched(e).names = "strings"
      PROVE  SameVerb(Enriched(e), e)
  BY <1>5 DEF Enriched, EntryType, SameVerb
<1> QED BY <1>3, <1>4, <1>5

\* Two entries that are the same verb are equal but for the schema.
LEMMA SameButSchema ==
    ASSUME NEW e \in EntryType, NEW f \in EntryType, SameVerb(e, f)
    PROVE  [e EXCEPT !.schema = NoSchema] = [f EXCEPT !.schema = NoSchema]
BY DEF SameVerb, EntryType

LEMMA InitCatalog == Init => CatalogInv
BY CatalogAssumption DEF Init, CatalogInv, FileLink, LoadedLink, SameVerb

LEMMA EnrichInv == CatalogInv /\ Enrich => CatalogInv'
<1> SUFFICES ASSUME CatalogInv, Enrich PROVE CatalogInv'
  OBVIOUS
<1>1. /\ entry \in EntryType /\ entry' = Enriched(entry) /\ entry.names = "strings"
      /\ UNCHANGED <<written, verb, required, current>>
  BY DEF CatalogInv, FileLink, Enrich
<1>2. written.entry.command # "text" /\ entry'.names = "strings" => SameVerb(entry', written.entry)
  BY <1>1, EnrichedSame DEF CatalogInv, FileLink, SameVerb
<1>3. written.confirm \subseteq confirm'
  BY DEF Enrich, EnrichedConfirm, CatalogInv, FileLink
<1>4. FileLink'
  BY <1>1, <1>2, <1>3, EnrichedSame DEF CatalogInv, FileLink
<1>5. LoadedLink'
  BY <1>1 DEF CatalogInv, LoadedLink
<1> QED BY <1>4, <1>5 DEF CatalogInv

LEMMA LoadInv == CatalogInv /\ Load => CatalogInv'
<1> SUFFICES ASSUME CatalogInv, Load PROVE CatalogInv'
  OBVIOUS
<1>1. /\ Admitted(entry) /\ verb' = entry /\ required' = confirm /\ current' = fresh
      /\ UNCHANGED <<entry, confirm, written, fresh>>
  BY DEF Load
<1>2. FileLink'
  BY <1>1 DEF CatalogInv, FileLink
<1>3. LoadedLink'
  BY <1>1 DEF CatalogInv, FileLink, LoadedLink, Admitted
<1> QED BY <1>2, <1>3 DEF CatalogInv

LEMMA EditInv == CatalogInv /\ Edit => CatalogInv'
<1> SUFFICES ASSUME CatalogInv, Edit PROVE CatalogInv'
  OBVIOUS
<1>1. PICK e \in Entries : entry' = [e EXCEPT !.schema = entry.schema]
  BY DEF Edit
<1>2. entry' \in EntryType
  BY <1>1, CatalogAssumption DEF CatalogInv, FileLink, EntryType
<1>3. written'.entry = entry' /\ written'.confirm = confirm' /\ fresh' = FALSE
      /\ verb' = NoEntry
  BY DEF Edit
<1> QED BY <1>2, <1>3 DEF CatalogInv, FileLink, LoadedLink, SameVerb

LEMMA CatalogNextInv == CatalogInv /\ [Next]_vars => CatalogInv'
<1> SUFFICES ASSUME CatalogInv, [Next]_vars PROVE CatalogInv'
  OBVIOUS
<1>1. CASE Stop
  BY <1>1 DEF Stop, CatalogInv, FileLink, LoadedLink
<1>2. CASE UNCHANGED vars
  BY <1>2 DEF vars, CatalogInv, FileLink, LoadedLink
<1> QED BY <1>1, <1>2, EnrichInv, LoadInv, EditInv DEF Next

\* The inductive invariant of the catalog.
THEOREM CatalogInvariant == Spec => []CatalogInv
BY InitCatalog, CatalogNextInv, PTL DEF Spec

-----------------------------------------------------------------------------
\* A verb that load admits is served on the route it is advertised with, and on
\* that one only.
LEMMA OneRoute ==
    ASSUME NEW v \in EntryType, Admitted(v)
    PROVE  {kind \in {"perceive", "act", "watch"} : Serves(v, kind)} = {Route(v)}
BY DEF Admitted, Serves, Route, ValidTiers, ValidDirections

\* Once the schema is the script's, a call of strings passes build_argv and
\* stdin_payload exactly if it gives the names advertised.
LEMMA AdvertisedPass ==
    ASSUME NEW v \in EntryType, Admitted(v), v.schema = v.args, v.placeholders \subseteq v.args,
           NEW given \in ArgCalls, \A a \in DOMAIN given : given[a] = "string"
    PROVE  Checked(v, given) = "payload" <=> DOMAIN given = Advertised(v)
<1>1. Advertised(v) = v.args
  BY CatalogAssumption DEF Advertised, EntryType
<1>2. CASE DOMAIN given # v.args
  BY <1>1, <1>2 DEF Checked, BuildArgv
<1>3. CASE DOMAIN given = v.args
  <2>1. BuildArgv(v, given) = "argv"
    BY <1>3 DEF BuildArgv
  <2>2. StdinPayload(v, given) = "payload"
    BY <1>3 DEF StdinPayload, Admitted
  <2> QED BY <1>1, <1>3, <2>1, <2>2 DEF Checked
<1> QED BY <1>2, <1>3

\* The parts of the code that read a verb agree on it.
THEOREM CatalogServes == Spec => []ServedAsAdvertised
<1>1. CatalogInv => ServedAsAdvertised
  BY OneRoute, AdvertisedPass DEF CatalogInv, LoadedLink, ServedAsAdvertised
<1> QED BY <1>1, CatalogInvariant, PTL

\* No number of rewrites changes what the operator wrote, or drops a dialog.
THEOREM CatalogRewrites == Spec => []RewriteKeepsContract
<1>1. CatalogInv => RewriteKeepsContract
  BY SameButSchema DEF CatalogInv, FileLink, LoadedLink, SameVerb, RewriteKeepsContract, RequiresConfirmation
<1> QED BY <1>1, CatalogInvariant, PTL

=============================================================================
