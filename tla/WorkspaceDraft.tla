--------------------------- MODULE WorkspaceDraft ---------------------------
(***************************************************************************)
(* The Draft of one Workspace and its revisions, as browsers save changes  *)
(* to it and restore earlier revisions (unified_workspace/services.py).    *)
(* The Draft row is not locked: its version is compared when it is read,   *)
(* and the unique constraints of the revision table decide between two     *)
(* requests that both passed.                                              *)
(***************************************************************************)
EXTENDS Integers, FiniteSets

CONSTANTS
    Editor,         \* requests that are served at the same time
    Cell,           \* fields of Listings
    Target,         \* values a field can have
    MaxDraft,       \* bound on the revisions of the Draft
    MaxCacheWrites  \* bound on the changes of ChannelCache values

ASSUME WorkspaceDraftAssumption ==
    0 \in Target /\ Target \subseteq Nat /\ MaxDraft \in Nat /\ MaxCacheWrites \in Nat

VARIABLES
    draft,          \* the Draft row: [version, current], both 0 without a revision
    draftRevisions, \* the committed revisions
    cached,         \* the ChannelCache value of each Cell
    cacheWrites,    \* changes of those values so far
    edit            \* what each request is doing

draftVars == <<draft, draftRevisions, cached, cacheWrites, edit>>

NoChange == -1                \* a Cell a revision has no change of
NoDraftRow == [number |-> 0]
NoCells == [c \in Cell |-> NoChange]
CellChanges == [Cell -> Target \cup {NoChange}]

\* The checksum of a revision: of its changes, or of what it restores and its number.
Checksum == [of : CellChanges, restored : {0}, number : {0}]
            \cup [of : {NoCells}, restored : 1..MaxDraft, number : 1..MaxDraft]

DraftRevision == [number : 1..MaxDraft, parent : 0..MaxDraft, seen : 0..MaxDraft,
                  changes : CellChanges, asked : CellChanges,
                  how : {"merge", "replace", "restore"}, checksum : Checksum]

Unasked == [at |-> "idle", answer |-> "none", seen |-> 0, version |-> 0, how |-> "none",
            asked |-> NoCells, row |-> NoDraftRow]

DraftTypeOK ==
    /\ draft \in [version : 0..MaxDraft, current : 0..MaxDraft]
    /\ draftRevisions \subseteq DraftRevision
    /\ cached \in [Cell -> Target] /\ cacheWrites \in 0..MaxCacheWrites
    /\ \A e \in Editor :
          /\ edit[e].at \in {"idle", "merge", "insert", "commit"}
          /\ edit[e].answer \in {"none", "saved", "nothing to save", "conflict", "error"}
          /\ edit[e].row \in DraftRevision \cup {NoDraftRow}

DraftInit ==
    /\ draft = [version |-> 0, current |-> 0] /\ draftRevisions = {}
    /\ cached = [c \in Cell |-> 0] /\ cacheWrites = 0
    /\ edit = [e \in Editor |-> Unasked]

EditAt(e, step) == edit[e].at = step

\* The request is answered; a conflict carries the version asked for and the actual one.
Answer(e, code, version) ==
    edit' = [edit EXCEPT ![e] = [Unasked EXCEPT !.answer = code, !.seen = edit[e].seen,
                                                !.version = version]]

Revisions(number) == {r \in draftRevisions : r.number = number}

CurrentChanges(number) ==
    IF Revisions(number) = {} THEN NoCells ELSE (CHOOSE r \in Revisions(number) : TRUE).changes

-------------------------------------------------------------------------------

\* draft.version != expected_version, of the row as it was read.
Obsolete(seen) == draft.version # seen

\* The request as a browser sends it, from a version it has seen.
Ask(e, seen, how, asked, step, row) ==
    edit' = [edit EXCEPT ![e] = [at |-> step, answer |-> "none", seen |-> seen,
                                 version |-> draft.version, how |-> how,
                                 asked |-> asked, row |-> row]]

RefuseObsolete(e, seen) ==
    /\ Obsolete(seen)
    /\ edit' = [edit EXCEPT ![e] = [Unasked EXCEPT !.answer = "conflict", !.seen = seen,
                                                   !.version = draft.version]]

OpenSave(e, seen, how, asked) ==
    /\ EditAt(e, "idle") /\ draft.version < MaxDraft
    /\ \/ RefuseObsolete(e, seen)
       \/ ~Obsolete(seen) /\ Ask(e, seen, how, asked, "merge", NoDraftRow)
    /\ UNCHANGED <<draft, draftRevisions, cached, cacheWrites>>

\* Changes to the value the ChannelCache has are no changes; the others are laid
\* over those of the current revision, or replace them all.
Merged(e) ==
    LET old == IF edit[e].how = "merge" THEN CurrentChanges(edit[e].version) ELSE NoCells
    IN  [c \in Cell |-> CASE edit[e].asked[c] = NoChange -> old[c]
                          [] edit[e].asked[c] = cached[c] -> NoChange
                          [] OTHER -> edit[e].asked[c]]

SavedAs(changes) == [of |-> changes, restored |-> 0, number |-> 0]

\* The checksum of the changes is that of the current revision, and nothing is
\* saved; or a revision is built on the version that was read.
Merge(e) ==
    /\ EditAt(e, "merge")
    /\ IF \E r \in Revisions(edit[e].version) : r.checksum = SavedAs(Merged(e))
       THEN Answer(e, "nothing to save", edit[e].version)
       ELSE edit' = [edit EXCEPT ![e].at = "insert", ![e].row =
                       [number |-> edit[e].version + 1, parent |-> edit[e].version,
                        seen |-> edit[e].seen, changes |-> Merged(e),
                        asked |-> edit[e].asked, how |-> edit[e].how,
                        checksum |-> SavedAs(Merged(e))]]
    /\ UNCHANGED <<draft, draftRevisions, cached, cacheWrites>>

\* restore_revision: the changes of an earlier revision in a new one.
OpenRestore(e, seen, source) ==
    /\ EditAt(e, "idle") /\ draft.version < MaxDraft
    /\ \/ RefuseObsolete(e, seen)
       \/ /\ ~Obsolete(seen)
          /\ Ask(e, seen, "restore", NoCells, "insert",
                 [number |-> draft.version + 1, parent |-> draft.version, seen |-> seen,
                  changes |-> source.changes, asked |-> NoCells, how |-> "restore",
                  checksum |-> [of |-> NoCells, restored |-> source.number,
                                number |-> draft.version + 1]])
    /\ UNCHANGED <<draft, draftRevisions, cached, cacheWrites>>

\* An error: nothing keeps two revisions from having one number.
SameChecksum(row, other) == row.checksum = other.checksum

\* uq_uw_draft_revision_number and uq_uw_draft_revision_checksum.
Duplicates(row, other) == row.number = other.number \/ row.checksum = other.checksum

\* The INSERT waits for an uncommitted row it duplicates, and fails on a committed
\* one: a save then answers with a conflict, restoring has no handler.
InsertRevision(e) ==
    /\ EditAt(e, "insert")
    /\ ~\E f \in Editor \ {e} : EditAt(f, "commit") /\ Duplicates(edit[e].row, edit[f].row)
    /\ IF \E r \in draftRevisions : Duplicates(edit[e].row, r)
       THEN Answer(e, IF edit[e].how = "restore" THEN "error" ELSE "conflict", draft.version)
       ELSE edit' = [edit EXCEPT ![e].at = "commit"]
    /\ UNCHANGED <<draft, draftRevisions, cached, cacheWrites>>

\* The Draft is advanced from the version that was read, and all is committed.
CommitRevision(e) ==
    /\ EditAt(e, "commit")
    /\ draftRevisions' = draftRevisions \cup {edit[e].row}
    /\ draft' = [version |-> edit[e].version + 1, current |-> edit[e].row.number]
    /\ Answer(e, "saved", edit[e].version + 1)
    /\ UNCHANGED <<cached, cacheWrites>>

\* The process dies, and PostgreSQL rolls its transaction back.
LoseEdit(e) ==
    /\ ~EditAt(e, "idle") /\ edit' = [edit EXCEPT ![e] = Unasked]
    /\ UNCHANGED <<draft, draftRevisions, cached, cacheWrites>>

\* A refresh or an Apply changes what the ChannelCache shows.
WriteCache(c) ==
    /\ cacheWrites < MaxCacheWrites /\ cacheWrites' = cacheWrites + 1
    /\ \E v \in Target \ {cached[c]} : cached' = [cached EXCEPT ![c] = v]
    /\ UNCHANGED <<draft, draftRevisions, edit>>

DraftNext ==
    \/ \E e \in Editor :
          \/ \E seen \in 0..draft.version :
                \/ \E how \in {"merge", "replace"}, asked \in CellChanges \ {NoCells} :
                      OpenSave(e, seen, how, asked)
                \/ \E source \in draftRevisions : OpenRestore(e, seen, source)
          \/ Merge(e) \/ InsertRevision(e) \/ CommitRevision(e) \/ LoseEdit(e)
    \/ \E c \in Cell : WriteCache(c)

DraftSpec == DraftInit /\ [][DraftNext]_draftVars

-------------------------------------------------------------------------------

\* Saving is optimistic, and no edit is lost by it: the revisions of a Draft have
\* the numbers 1 to its version, each was made from the version its editor had
\* seen, which is the one before, and keeps every change of that one its editor
\* has not touched or asked to replace (UNIFIED_MULTI_CHANNEL_WORKSPACE.md:38).
NoEditIsLost ==
    /\ draft.current = draft.version
    /\ {r.number : r \in draftRevisions} = 1..draft.version
    /\ \A r, s \in draftRevisions : r.number = s.number => r = s
    /\ \A r \in draftRevisions :
          /\ r.parent = r.number - 1 /\ r.seen = r.parent
          /\ r.how = "merge" =>
                \A c \in Cell : r.asked[c] = NoChange
                                  => r.changes[c] = CurrentChanges(r.parent)[c]

\* "Draft saves require the current Draft version and return 409
\* DRAFT_VERSION_CONFLICT on obsolete writes": a save from the current version is
\* not answered that it came from an obsolete one.
ConflictIsObsolete ==
    \A e \in Editor : edit[e].answer = "conflict" => edit[e].seen # edit[e].version
=============================================================================
