--------------------------- MODULE CatalogImport ---------------------------
(***************************************************************************)
(* The catalogue: an import is a series of appends to as many streams, of  *)
(* a contract, the version its source is, its operations and schemas.  An  *)
(* append can fail, the import ends with it, and may be made again.  The   *)
(* ids are derived from the contract and the source, so that imports of    *)
(* the same contract share streams.  Events are told apart by the source   *)
(* they came from, which those of operations and schemas do not name; one  *)
(* that is stored again is in the catalogue already.                       *)
(***************************************************************************)
EXTENDS Naturals

CONSTANTS Importers,
          ImportSources,    \* documents of one contract
          ParsedOf,         \* the operations each parses into
          RolesOf,          \* the roles of the schemas of each operation
          Skipping,         \* the sources with operations that do not parse
          Services

VARIABLES catalog,   \* the events stored
          toImport,  \* what each importer has still to append
          importing, \* the source it imports, or imported last
          imported   \* the sources whose import has returned

catalogVars == <<catalog, toImport, importing, imported>>

CatalogEvent(type, source, of) == [type |-> type, source |-> source, of |-> of]

CatalogInit ==
  /\ catalog = {} /\ imported = {}
  /\ toImport = [i \in Importers |-> {}]
  /\ importing = [i \in Importers |-> "none"]
-----------------------------------------------------------------------------
ContractEvent(source) == CatalogEvent("contract", source, "contract")
VersionEvent(source) == CatalogEvent("version", source, "version")
OperationEvent(source, operation) == CatalogEvent("operation", source, operation)
SchemaEvent(source, operation, role) == CatalogEvent("schema", source, <<operation, role>>)
FailureEvent(source) == CatalogEvent("partial-failure", source, "contract")

\* The events of importContract.
Events(source) ==
  {ContractEvent(source), VersionEvent(source)}
  \cup {OperationEvent(source, o) : o \in ParsedOf[source]}
  \cup (UNION {{SchemaEvent(source, o, role) : role \in RolesOf[o]} : o \in ParsedOf[source]})
  \cup (IF source \in Skipping THEN {FailureEvent(source)} ELSE {})

\* Mutant: the version is recorded when its operations are.
StageVersionLate(type) ==
  CASE type = "contract" -> 1 [] type = "partial-failure" -> 4 [] type = "version" -> 3 [] OTHER -> 2

\* Their order: the contract, the version, the operations with their schemas, the failures.
Stage(type) ==
  CASE type = "contract" -> 1 [] type = "version" -> 2 [] type = "partial-failure" -> 4 [] OTHER -> 3

\* What i may append next: an operation, in whatever order the document has them, and
\* its schemas before the next operation.
Upcoming(i) ==
  {e \in toImport[i] : \A d \in toImport[i] :
     /\ Stage(e.type) <= Stage(d.type)
     /\ e.type = "schema" => d # OperationEvent(e.source, e.of[1])
     /\ e.type = "operation" /\ d.type = "schema" => OperationEvent(d.source, d.of[1]) \in toImport[i]}
-----------------------------------------------------------------------------
RegisterService(service) ==
  /\ catalog' = catalog \cup {CatalogEvent("service", "none", service)}
  /\ UNCHANGED <<toImport, importing, imported>>

BeginImport(i, source) ==
  /\ toImport[i] = {}
  /\ toImport' = [toImport EXCEPT ![i] = Events(source)]
  /\ importing' = [importing EXCEPT ![i] = source]
  /\ UNCHANGED <<catalog, imported>>

\* After the last append the import returns.
AppendImported(i, e) ==
  /\ catalog' = catalog \cup {e}
  /\ toImport' = [toImport EXCEPT ![i] = @ \ {e}]
  /\ imported' = imported \cup IF toImport[i] = {e} THEN {importing[i]} ELSE {}
  /\ UNCHANGED importing

\* A conflict with an import of the same contract, or an error of the store; the event
\* may be stored all the same.
BreakOff(i, e) ==
  /\ toImport' = [toImport EXCEPT ![i] = {}]
  /\ catalog' \in {catalog, catalog \cup {e}}
  /\ UNCHANGED <<importing, imported>>

CatalogNext ==
  \/ \E s \in Services : RegisterService(s)
  \/ \E i \in Importers :
       \/ \E s \in ImportSources : BeginImport(i, s)
       \/ \E e \in Upcoming(i) : AppendImported(i, e) \/ BreakOff(i, e)

CatalogSpec == CatalogInit /\ [][CatalogNext]_catalogVars
-----------------------------------------------------------------------------
CatalogTypeOK ==
  /\ toImport \in [Importers -> SUBSET UNION {Events(s) : s \in ImportSources}]
  /\ importing \in [Importers -> ImportSources \cup {"none"}]
  /\ imported \subseteq ImportSources

\* INV-034, INV-035: whatever breaks off, what is in the catalogue rests on what it
\* belongs to: an operation on the version and the contract of its source, a schema on
\* its operation; and an import that returned has stored all that was parsed and, when
\* operations were skipped, that it was a partial failure.
ImportsAreRooted ==
  /\ \A e \in catalog :
       /\ e.type \in {"operation", "schema", "partial-failure"} => VersionEvent(e.source) \in catalog
       /\ e.type = "version" => ContractEvent(e.source) \in catalog
       /\ e.type = "schema" => OperationEvent(e.source, e.of[1]) \in catalog
  /\ \A s \in imported :
       /\ \A o \in ParsedOf[s] : \A role \in RolesOf[o] : SchemaEvent(s, o, role) \in catalog
       /\ \A o \in ParsedOf[s] : OperationEvent(s, o) \in catalog
       /\ s \in Skipping => FailureEvent(s) \in catalog

\* What an importer has not still to append of its source, the catalogue has.
AppendedIsStored ==
  \A i \in Importers : toImport[i] # {} =>
    /\ importing[i] \in ImportSources /\ toImport[i] \subseteq Events(importing[i])
    /\ Events(importing[i]) \ toImport[i] \subseteq catalog

\* The inductive invariant.
CatalogIInv == CatalogTypeOK /\ AppendedIsStored /\ ImportsAreRooted
=============================================================================
