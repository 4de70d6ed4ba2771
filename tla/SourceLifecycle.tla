-------------------------- MODULE SourceLifecycle --------------------------
(***************************************************************************)
(* One Source (source_workspace/service.py): its Mapping revisions, its    *)
(* data (revisions of a FlowHub Sheet, or datasets read from a provider),  *)
(* the Workspaces made from both, and archiving or deleting it.  Nearly    *)
(* everything locks the Source row and compares the version a user has     *)
(* seen; what is read before that lock, or stored after it, interleaves.   *)
(***************************************************************************)
EXTENDS Naturals, FiniteSets, Sequences

CONSTANTS
    User,           \* requests of users, one each at a time
    NoUser,
    CanonicalProduct, \* products the Source's product key can stand for
    NoProduct,
    MaxVersion,     \* bound on the version of the Source
    MaxEvidence,    \* bound on Sheet revisions and datasets
    MaxRemaps       \* bound on changes of the Listing's Product

ASSUME SourceLifecycleAssumption ==
    /\ NoUser \notin User /\ NoProduct \notin CanonicalProduct
    /\ MaxVersion \in Nat \ {0} /\ MaxEvidence \in Nat /\ MaxRemaps \in Nat

VARIABLES
    kind,           \* source_kind: "sheet" or "external"
    source,         \* the SourceProfile row: [status, version]
    settings,       \* resource binding of the connector, and whether it is enabled
    mappings,       \* Mapping revisions, each with the number of the one it edits
    evidence,       \* Sheet revisions [version, from], or datasets [binding]
    activeRead,     \* user whose acquisition Run is active
    listing,        \* the Listing the key resolves to: [product, remaps]
    identity,       \* SourceProductIdentity of the key
    workspaces,     \* Workspaces of the Source, none of which ever ends
    sourceLock,     \* user whose transaction holds the Source row
    shown,          \* what each user has on the screen
    doing           \* what each request has read so far

dataVars == <<mappings, evidence>>
identityVars == <<listing, identity>>
lifecycleVars == <<kind, source, settings, dataVars, activeRead, identityVars,
                   workspaces, sourceLock, shown, doing>>

Status == {"active", "archived", "deleted"}
Evidence == [version : 1..MaxEvidence, from : 0..MaxEvidence, binding : 1..MaxVersion]
Workspace == [mapping : 1..MaxVersion, evidence : 1..MaxEvidence, product : CanonicalProduct]
Ready == [at |-> "ready", number |-> 0, mapping |-> 0, product |-> NoProduct]

LifecycleTypeOK ==
    /\ kind \in {"sheet", "external"}
    /\ source \in [status : Status, version : 1..MaxVersion]
    /\ settings \in [binding : 1..MaxVersion, enabled : BOOLEAN]
    /\ mappings \in Seq(0..MaxVersion) /\ Len(mappings) < MaxVersion
    /\ evidence \in Seq(Evidence) /\ Len(evidence) <= MaxEvidence
    /\ activeRead \in User \cup {NoUser} /\ sourceLock \in User \cup {NoUser}
    /\ listing \in [product : CanonicalProduct, remaps : 0..MaxRemaps]
    /\ identity \in CanonicalProduct \cup {NoProduct}
    /\ workspaces \subseteq Workspace
    /\ shown \in [User -> [version : 1..MaxVersion, mapping : 0..MaxVersion, revision : 0..MaxEvidence]]
    /\ doing \in [User -> [at : {"ready", "sheet", "settings", "request", "reading", "store", "commit"},
                           number : 0..MaxVersion + MaxEvidence + MaxRemaps, mapping : 0..MaxVersion,
                           product : CanonicalProduct \cup {NoProduct}]]

LifecycleInit ==
    /\ kind \in {"sheet", "external"}
    /\ source = [status |-> "active", version |-> 1]
    /\ settings = [binding |-> 1, enabled |-> TRUE]
    /\ mappings = <<>> /\ evidence = <<>> /\ workspaces = {}
    /\ activeRead = NoUser /\ sourceLock = NoUser
    /\ listing \in [product : CanonicalProduct, remaps : {0}]
    /\ identity = NoProduct
    /\ shown = [u \in User |-> [version |-> 1, mapping |-> 0, revision |-> 0]]
    /\ doing = [u \in User |-> Ready]

IsAt(u, step) == doing[u].at = step
Go(u, record) == doing' = [doing EXCEPT ![u] = record]
Done(u) == Go(u, Ready)

\* FOR UPDATE waits for the transaction that has the Source row.
SourceFree == sourceLock = NoUser
IsActive == source.status = "active"
NewVersion == source.version < MaxVersion /\ source' = [source EXCEPT !.version = @ + 1]

ShowSource(u) ==
    /\ source.status # "deleted"
    /\ shown' = [shown EXCEPT ![u] = [version |-> source.version, mapping |-> Len(mappings),
                                      revision |-> Len(evidence)]]
    /\ UNCHANGED <<kind, source, settings, dataVars, activeRead, identityVars, workspaces, sourceLock, doing>>

------------------------------------------------------------------------------
(* save_mapping, save_sheet_revision, patch_sheet_revision                 *)

AsShown(u) == shown[u].version = source.version

\* Locks the Source, numbers the revision, moves the version on, and invalidates
\* Reviews of Workspaces of the Source (module WorkspaceReview).
SaveMapping(u) ==
    /\ IsAt(u, "ready") /\ SourceFree
    /\ IsActive /\ AsShown(u)
    /\ NewVersion
    /\ mappings' = Append(mappings, shown[u].mapping)
    /\ UNCHANGED <<kind, settings, evidence, activeRead, identityVars, workspaces, sourceLock, shown, doing>>

\* The Sheet row and its cells are read before the Source row is locked, and
\* current_version is not read again.
LoadSheet(u) ==
    /\ IsAt(u, "ready") /\ kind = "sheet"
    /\ shown[u].revision = Len(evidence)
    /\ Len(evidence) < MaxEvidence
    /\ Go(u, [Ready EXCEPT !.at = "sheet", !.number = Len(evidence)])
    /\ UNCHANGED <<kind, source, settings, dataVars, activeRead, identityVars, workspaces, sourceLock, shown>>

\* An error: two Sheet revisions may have one version.
AnyRevision(v) == v \in 1..MaxEvidence /\ Len(evidence) < MaxEvidence

\* uq_sc_sheet_revision_version
UnusedRevision(v) == \A n \in DOMAIN evidence : evidence[n].version # v

SaveSheetRevision(u) ==
    /\ IsAt(u, "sheet") /\ SourceFree
    /\ IF IsActive /\ UnusedRevision(doing[u].number + 1)
       THEN evidence' = Append(evidence, [version |-> doing[u].number + 1, from |-> doing[u].number, binding |-> 1])
       ELSE UNCHANGED evidence
    /\ Done(u)
    /\ UNCHANGED <<kind, source, settings, mappings, activeRead, identityVars, workspaces, sourceLock, shown>>

------------------------------------------------------------------------------
(* update_source_settings (commerce/service.py)                            *)

\* _assert_source_not_archived reads without a lock.
OpenSettings(u) ==
    /\ IsAt(u, "ready") /\ kind = "external"
    /\ IsActive
    /\ Go(u, [Ready EXCEPT !.at = "settings"])
    /\ UNCHANGED <<kind, source, settings, dataVars, activeRead, identityVars, workspaces, sourceLock, shown>>

\* A changed binding of the workbook is a new version of the Source.  The row of a
\* deleted Source is not bound any more.
SaveSettings(u) ==
    /\ IsAt(u, "settings") /\ SourceFree
    /\ IF source.status = "deleted" THEN UNCHANGED <<source, settings>>
       ELSE /\ NewVersion
            /\ settings' = [binding |-> settings.binding + 1, enabled |-> TRUE]
    /\ Done(u)
    /\ UNCHANGED <<kind, dataVars, activeRead, identityVars, workspaces, sourceLock, shown>>

------------------------------------------------------------------------------
(* read_nextcloud_spreadsheet (sources/spreadsheet_source.py)              *)

\* The settings are read first; they name the workbook that is going to be read.
ReadSettings(u) ==
    /\ IsAt(u, "ready") /\ kind = "external"
    /\ settings.enabled /\ IsActive
    /\ Len(evidence) < MaxEvidence
    /\ Go(u, [Ready EXCEPT !.at = "request", !.number = settings.binding])
    /\ UNCHANGED <<kind, source, settings, dataVars, activeRead, identityVars, workspaces, sourceLock, shown>>

\* SourceAcquisitionService._request, under the Source row's lock.
RequestRead(u) ==
    /\ IsAt(u, "request") /\ SourceFree
    /\ IF IsActive /\ activeRead = NoUser
       THEN activeRead' = u /\ doing' = [doing EXCEPT ![u].at = "reading"]
       ELSE UNCHANGED activeRead /\ Done(u)
    /\ UNCHANGED <<kind, source, settings, dataVars, identityVars, workspaces, sourceLock, shown>>

\* The Run ends, well or not (module AcquisitionRuns).
EndRead(u) ==
    /\ IsAt(u, "reading")
    /\ activeRead' = NoUser
    /\ Done(u) \/ doing' = [doing EXCEPT ![u].at = "store"]
    /\ UNCHANGED <<kind, source, settings, dataVars, identityVars, workspaces, sourceLock, shown>>

\* The dataset is stored in a transaction of its own, with the binding it was read by.
StoreDataset(u) ==
    /\ IsAt(u, "store")
    /\ IF Len(evidence) < MaxEvidence /\ source.status # "deleted"
       THEN evidence' = Append(evidence, [version |-> Len(evidence) + 1, from |-> Len(evidence),
                                          binding |-> doing[u].number])
       ELSE UNCHANGED evidence
    /\ Done(u)
    /\ UNCHANGED <<kind, source, settings, mappings, activeRead, identityVars, workspaces, sourceLock, shown>>

------------------------------------------------------------------------------
(* _create_managed_source_workspace (unified_workspace/services.py)        *)

\* An error: the newest dataset, whatever workbook it is of.
AnyEvidence == DOMAIN evidence

\* _latest_local_validation_data: Sheet revisions, or datasets of the current binding.
LocalEvidence == {n \in DOMAIN evidence : kind = "sheet" \/ evidence[n].binding = settings.binding}

\* _identity_binding_conflicts and SOURCE_PRODUCT_IDENTITY_CONFLICT
NoIdentityConflict == identity \in {NoProduct, listing.product}

\* snapshot_candidates keeps the Source row locked; Listings are read, not locked.
ReadCandidates(u) ==
    /\ IsAt(u, "ready") /\ SourceFree
    /\ IsActive /\ mappings # <<>>
    /\ NoIdentityConflict
    /\ \E n \in LocalEvidence :
          /\ \A m \in LocalEvidence : m <= n
          /\ Go(u, [at |-> "commit", number |-> n, mapping |-> Len(mappings), product |-> listing.product])
    /\ sourceLock' = u
    /\ UNCHANGED <<kind, source, settings, dataVars, activeRead, identityVars, workspaces, shown>>

\* An error: the Listings are not locked and compared again.
ListingAsRead(u) == IsAt(u, "commit")

\* The Listing's Product and mapping_version are those that were read.
ListingUnchanged(u) == listing.product = doing[u].product

\* stage_source_product_identity_bindings and the commit of Workspace and Snapshot.
CommitWorkspace(u) ==
    /\ IsAt(u, "commit")
    /\ IF ListingUnchanged(u)
       THEN /\ identity' = IF identity = NoProduct THEN doing[u].product ELSE identity
            /\ workspaces' = workspaces \cup {[mapping |-> doing[u].mapping, evidence |-> doing[u].number,
                                               product |-> doing[u].product]}
       ELSE UNCHANGED <<identity, workspaces>>
    /\ sourceLock' = NoUser
    /\ Done(u)
    /\ UNCHANGED <<kind, source, settings, dataVars, activeRead, listing, shown>>

\* Somebody maps the Listing to another Product; it counts as another mapping_version.
RemapListing ==
    /\ listing.remaps < MaxRemaps
    /\ \E p \in CanonicalProduct \ {listing.product} : listing' = [product |-> p, remaps |-> listing.remaps + 1]
    /\ UNCHANGED <<kind, source, settings, dataVars, activeRead, identity, workspaces, sourceLock, shown, doing>>

------------------------------------------------------------------------------
(* archive_source and permanently_delete_source                            *)

\* An error: reads that are under way do not block.
NotInUse == workspaces = {}

\* _source_lifecycle_impact: active Workspaces and active acquisition Runs.
NoBlockers == workspaces = {} /\ activeRead = NoUser

ArchiveSource(u) ==
    /\ IsAt(u, "ready") /\ SourceFree
    /\ AsShown(u) /\ IsActive /\ NoBlockers
    /\ source.version < MaxVersion
    /\ source' = [status |-> "archived", version |-> source.version + 1]
    /\ settings' = [settings EXCEPT !.enabled = FALSE]
    /\ UNCHANGED <<kind, dataVars, activeRead, identityVars, workspaces, sourceLock, shown, doing>>

DeleteSource(u) ==
    /\ IsAt(u, "ready") /\ SourceFree
    /\ AsShown(u) /\ source.status # "deleted" /\ NoBlockers
    /\ source.version < MaxVersion
    /\ source' = [status |-> "deleted", version |-> source.version + 1]
    /\ settings' = [settings EXCEPT !.enabled = FALSE]
    /\ UNCHANGED <<kind, dataVars, activeRead, identityVars, workspaces, sourceLock, shown, doing>>

\* An error on the way, or the death of the process: the transaction is rolled
\* back; a Run that was active is abandoned sooner or later (AcquisitionRuns).
DropRequest(u) ==
    /\ ~IsAt(u, "ready")
    /\ Done(u)
    /\ sourceLock' = IF sourceLock = u THEN NoUser ELSE sourceLock
    /\ activeRead' = IF activeRead = u THEN NoUser ELSE activeRead
    /\ UNCHANGED <<kind, source, settings, dataVars, identityVars, workspaces, shown>>

LifecycleNext ==
    \/ \E u \in User :
          \/ ShowSource(u) \/ SaveMapping(u) \/ LoadSheet(u) \/ SaveSheetRevision(u)
          \/ OpenSettings(u) \/ SaveSettings(u)
          \/ ReadSettings(u) \/ RequestRead(u) \/ EndRead(u) \/ StoreDataset(u)
          \/ ReadCandidates(u) \/ CommitWorkspace(u)
          \/ ArchiveSource(u) \/ DeleteSource(u) \/ DropRequest(u)
    \/ RemapListing

LifecycleSpec == LifecycleInit /\ [][LifecycleNext]_lifecycleVars

------------------------------------------------------------------------------

\* A Source that is archived or deleted has no active Workspace and no read under
\* way, whatever was requested before, or while, it was retired.
RetiredIsQuiet == IsActive \/ (workspaces = {} /\ activeRead = NoUser)

\* Users editing one Mapping, or one Sheet, side by side: each revision was made
\* from the one before it, so that nobody's edit is lost, although the version of a
\* Sheet is read before the Source is locked.
RevisionsAreAChain ==
    /\ \A n \in DOMAIN mappings : mappings[n] = n - 1
    /\ \A n \in DOMAIN evidence : evidence[n].version = n /\ evidence[n].from = n - 1

\* A Workspace is made, in one step with the commit, of the latest Mapping, of data
\* of the workbook the Source is bound to now, and of Listings as they are now,
\* although candidates were computed earlier; and all Workspaces of the Source
\* agree which Product its key stands for.
WorkspaceIsCurrent ==
    [][\A w \in workspaces' \ workspaces :
          /\ w.mapping = Len(mappings)
          /\ kind = "sheet" \/ evidence[w.evidence].binding = settings.binding
          /\ w.product = listing.product
          /\ \A v \in workspaces : v.product = w.product]_lifecycleVars

\* archive_source: "Retire only the connector bound to this Source in the same
\* transaction".
RetiredIsDisabled == IsActive \/ ~settings.enabled
=============================================================================
