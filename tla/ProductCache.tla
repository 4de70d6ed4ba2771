---------------------------- MODULE ProductCache ----------------------------
(***************************************************************************)
(* The product cache of one WooCommerce channel (dl_product_cache) under    *)
(* its writers: full scans, which store page by page and then sweep the     *)
(* rows they have not fetched, and targeted reads of one product; and the   *)
(* ChannelCache of the Workspace, into which a refresh copies those rows.   *)
(* An Apply may own a product's Listing at any time, and writes what it has *)
(* verified into the ChannelCache.                                          *)
(*                                                                         *)
(* Time is counted in scans: a row fetched before a scan started carries a  *)
(* smaller number than the scan.                                            *)
(***************************************************************************)
EXTENDS Integers, FiniteSets

CONSTANTS
    Product,
    Scanner,   \* processes that run a full scan
    Reader,    \* processes that read one product
    MaxVer,    \* bound on the changes of a product
    MaxScan,   \* bound on the scans started
    MaxLock    \* bound on the times an Apply takes a Listing

ASSUME ProductCacheAssumption ==
    MaxVer \in Nat \ {0} /\ MaxScan \in Nat /\ MaxLock \in Nat

VARIABLES
    ver,      \* date_modified of each product at the provider
    here,     \* products the provider has
    cache,    \* the cached row of each product
    displayed,    \* what the ChannelCache shows of each product, 0 without a row
    verified, \* what an Apply has verified of each product, 0 if none has
    owned,    \* products whose Listing an Apply owns
    locks,    \* times a Listing was taken so far
    scans,    \* scans started so far
    scanStep,       \* where each scanner is
    started,  \* started_at of its job
    hook,     \* whether its caller passed before_cache_write
    todo,     \* products whose page is still to be read
    inHand,   \* the page in hand: a product and its version, or NoPage
    seen,     \* products its pages, or reads since its start, have contained
    left,     \* those of them it left out because an Apply owned the Listing
    read,     \* the answer a reader has in hand, or NoPage
    rows,     \* the cached rows a refresh has read to copy them, 0 for none
    gone,     \* products gone since it started, with no answer on its way
    settled   \* products a scan has confirmed to be gone

provVars == <<ver, here>>
workspaceVars == <<displayed, verified, rows>>
scanVars == <<scanStep, started, hook, todo, inHand, seen, left, gone>>
cacheVars == <<provVars, cache, workspaceVars, owned, locks, scans, scanVars, read, settled>>

NoPage == [product |-> "none"]
CacheRow == [cached : BOOLEAN, exists : BOOLEAN, observed : 0..MaxVer, fetched : 0..MaxScan]
Empty == [cached |-> FALSE, exists |-> FALSE, observed |-> 0, fetched |-> 0]

CacheInit ==
    /\ ver = [p \in Product |-> 1]
    /\ here = Product
    /\ cache = [p \in Product |-> Empty]
    /\ displayed = [p \in Product |-> 0]
    /\ verified = [p \in Product |-> 0]
    /\ rows = [s \in Scanner |-> [p \in Product |-> 0]]
    /\ owned = {}
    /\ locks = 0
    /\ scans = 0
    /\ scanStep = [s \in Scanner |-> "idle"]
    /\ started = [s \in Scanner |-> 0]
    /\ hook = [s \in Scanner |-> FALSE]
    /\ todo = [s \in Scanner |-> {}]
    /\ inHand = [s \in Scanner |-> NoPage]
    /\ seen = [s \in Scanner |-> {}]
    /\ left = [s \in Scanner |-> {}]
    /\ gone = [s \in Scanner |-> {}]
    /\ read = [r \in Reader |-> NoPage]
    /\ settled = {}

ScanAt(s, p) == scanStep[s] = p
ScanGoto(s, p) == scanStep' = [scanStep EXCEPT ![s] = p]

\* The Workspace goes on to its own cache, however the scan it asked for ended.
EndScan(s) ==
    /\ ScanGoto(s, IF hook[s] THEN "copy" ELSE "idle")
    /\ started' = [started EXCEPT ![s] = 0]
    /\ hook' = [hook EXCEPT ![s] = FALSE]
    /\ inHand' = [inHand EXCEPT ![s] = NoPage]
    /\ todo' = [todo EXCEPT ![s] = {}]
    /\ seen' = [seen EXCEPT ![s] = {}]
    /\ left' = [left EXCEPT ![s] = {}]
    /\ gone' = [gone EXCEPT ![s] = {}]
Observation(p) == [product |-> p, exists |-> p \in here, observed |-> ver[p]]

\* An error: the row is dated in a time zone that is ahead.
FetchedAhead(o) ==
    [cached |-> TRUE, exists |-> o.exists, observed |-> o.observed, fetched |-> scans + 1]

Fetched(o) ==
    [cached |-> TRUE, exists |-> o.exists, observed |-> o.observed, fetched |-> scans]

-----------------------------------------------------------------------------
(* run_manual with force_full                                              *)

\* Products in an answer that is still to be stored.
OnTheWay == {inHand[s].product : s \in Scanner} \cup {read[r].product : r \in Reader}

StartScan(s) ==
    /\ ScanAt(s, "idle")
    /\ scans < MaxScan
    /\ scans' = scans + 1
    /\ started' = [started EXCEPT ![s] = scans + 1]
    /\ hook' \in {[hook EXCEPT ![s] = h] : h \in BOOLEAN}
    /\ todo' = [todo EXCEPT ![s] = Product]
    /\ gone' = [gone EXCEPT ![s] = Product \ (here \cup OnTheWay)]
    /\ ScanGoto(s, "page")
    /\ UNCHANGED <<provVars, workspaceVars, cache, owned, locks, inHand, seen, left, read, settled>>

\* A page arrives; a product the provider no longer has is on none.
ReadPage(s) ==
    /\ ScanAt(s, "page") /\ inHand[s] = NoPage
    /\ \E p \in todo[s] :
          /\ todo' = [todo EXCEPT ![s] = @ \ {p}]
          /\ IF p \in here
             THEN /\ inHand' = [inHand EXCEPT ![s] = Observation(p)]
                  /\ seen' = [seen EXCEPT ![s] = @ \cup {p}]
             ELSE UNCHANGED <<inHand, seen>>
    /\ UNCHANGED <<provVars, workspaceVars, cache, owned, locks, scans, scanStep, started, hook, left, read,
                   gone, settled>>

\* An error: the last write wins.
Always(row, o) == TRUE

\* The fence of bulk_upsert: the newest provider observation wins.
Passes(row, o) == ~row.cached \/ o.observed >= row.observed

\* bulk_upsert leaves out a row whose Listing an Apply owns.
StorePage(s) ==
    LET o == inHand[s]
    IN /\ ScanAt(s, "page") /\ o # NoPage
       /\ o.product \in owned => ~hook[s]
       /\ cache' = IF o.product \notin owned /\ Passes(cache[o.product], o)
                   THEN [cache EXCEPT ![o.product] = Fetched(o)]
                   ELSE cache
       /\ left' = [left EXCEPT ![s] = IF o.product \in owned THEN @ \cup {o.product} ELSE @]
       /\ inHand' = [inHand EXCEPT ![s] = NoPage]
       /\ UNCHANGED <<provVars, workspaceVars, owned, locks, scans, scanStep, started, hook, todo, seen, read,
                      gone, settled>>

\* The scan of the Workspace checks ownership itself and gives up, as any scan
\* does on an error: the job fails, what was stored stays.
AbortScan(s) ==
    /\ ScanAt(s, "page")
    /\ EndScan(s)
    /\ UNCHANGED <<provVars, workspaceVars, cache, owned, locks, scans, read, settled>>

\* An error: a row fetched right after the start is swept, too.
FetchedUpTo(s, p) == cache[p].fetched <= started[s]

Unseen(s, p) == cache[p].fetched < started[s]

\* An error: a row that an Apply owns is left out.
SweptIfFree(s, p) == cache[p].cached /\ Unseen(s, p) /\ p \notin owned

Swept(s, p) == cache[p].cached /\ Unseen(s, p)

\* Rows that were not fetched since the scan started are gone.
Sweep(s) ==
    /\ ScanAt(s, "page") /\ inHand[s] = NoPage /\ todo[s] = {}
    /\ cache' = [p \in Product |->
          IF Swept(s, p) THEN [cache[p] EXCEPT !.exists = FALSE]
          ELSE cache[p]]
    /\ settled' = settled \cup (gone[s] \ here)
    /\ EndScan(s)
    /\ UNCHANGED <<provVars, workspaceVars, owned, locks, scans, read>>

-----------------------------------------------------------------------------
(* UnifiedWorkspaceService.refresh_channel_cache, once the scan is over    *)

\* Unexpired locks end the refresh; else the cached rows of the channel are read.
ReadRows(s) ==
    /\ ScanAt(s, "copy")
    /\ \/ owned # {} /\ ScanGoto(s, "idle") /\ UNCHANGED rows
       \/ /\ rows' = [rows EXCEPT ![s] =
                [p \in Product |-> IF cache[p].cached THEN cache[p].observed ELSE 0]]
          /\ ScanGoto(s, "store")
    /\ UNCHANGED <<provVars, cache, displayed, verified, owned, locks, scans, started, hook, todo,
                   inHand, seen, left, read, gone, settled>>

\* acquire_listing_guard for each row, expired locks included.
RowsFree(s) == \A p \in owned : rows[s][p] = 0

\* The rows are written into the ChannelCache in one transaction, as they were
\* read; or the conflict rolls it back.
StoreRows(s) ==
    /\ ScanAt(s, "store")
    /\ displayed' = [p \in Product |-> IF RowsFree(s) /\ rows[s][p] # 0 THEN rows[s][p] ELSE displayed[p]]
    /\ rows' = [rows EXCEPT ![s] = [p \in Product |-> 0]]
    /\ ScanGoto(s, "idle")
    /\ UNCHANGED <<provVars, cache, verified, owned, locks, scans, started, hook, todo, inHand,
                   seen, left, read, gone, settled>>

-----------------------------------------------------------------------------
(* run_entity                                                              *)

ReadEntity(r) ==
    /\ read[r] = NoPage
    /\ \E p \in Product : read' = [read EXCEPT ![r] = Observation(p)]
    /\ UNCHANGED <<provVars, workspaceVars, cache, owned, locks, scans, scanVars, settled>>

\* acquire_external_listing_guard
ListingFree(p) == p \notin owned

\* upsert writes without a fence, mark_not_found only marks a cached row.
StoreEntity(r) ==
    LET o == read[r]
    IN /\ o # NoPage /\ ListingFree(o.product)
       /\ cache' = [cache EXCEPT ![o.product] =
             IF o.exists THEN Fetched(o)
             ELSE IF @.cached THEN [@ EXCEPT !.exists = FALSE, !.fetched = scans]
             ELSE @]
       /\ seen' = [s \in Scanner |->
             IF o.exists /\ ScanAt(s, "page") THEN seen[s] \cup {o.product} ELSE seen[s]]
       /\ read' = [read EXCEPT ![r] = NoPage]
       /\ left' = [s \in Scanner |-> left[s] \ {o.product}]
       /\ UNCHANGED <<provVars, workspaceVars, owned, locks, scans, scanStep, started, hook, todo, inHand, gone,
                      settled>>

\* An Apply owns the Listing: the conflict ends the read.
RejectEntity(r) ==
    /\ read[r] # NoPage /\ ~ListingFree(read[r].product)
    /\ read' = [read EXCEPT ![r] = NoPage]
    /\ UNCHANGED <<provVars, workspaceVars, cache, owned, locks, scans, scanVars, settled>>

-----------------------------------------------------------------------------
(* The provider and Apply                                                  *)

Change ==
    /\ \E p \in here : ver[p] < MaxVer /\ ver' = [ver EXCEPT ![p] = @ + 1]
    /\ UNCHANGED <<here, workspaceVars, cache, owned, locks, scans, scanVars, read, settled>>

Delete ==
    /\ \E p \in here : here' = here \ {p}
    /\ UNCHANGED <<ver, workspaceVars, cache, owned, locks, scans, scanVars, read, settled>>

\* A product put back counts as changed.
Restore ==
    /\ \E p \in Product \ here :
          /\ ver[p] < MaxVer
          /\ here' = here \cup {p}
          /\ ver' = [ver EXCEPT ![p] = @ + 1]
          /\ settled' = settled \ {p}
          /\ gone' = [s \in Scanner |-> gone[s] \ {p}]
    /\ UNCHANGED <<workspaceVars, cache, owned, locks, scans, scanStep, started, hook, todo, inHand, seen,
                   left, read>>

TakeListing ==
    /\ locks < MaxLock
    /\ locks' = locks + 1
    /\ \E p \in Product \ owned : owned' = owned \cup {p}
    /\ UNCHANGED <<provVars, workspaceVars, cache, scans, scanVars, read, settled>>

\* The Apply changes a product of its Listing, reads it back and records it.
VerifyWrite ==
    /\ \E p \in owned \cap here :
          /\ displayed[p] # 0 /\ ver[p] < MaxVer
          /\ ver' = [ver EXCEPT ![p] = @ + 1]
          /\ displayed' = [displayed EXCEPT ![p] = ver[p] + 1]
          /\ verified' = [verified EXCEPT ![p] = ver[p] + 1]
    /\ UNCHANGED <<here, cache, rows, owned, locks, scans, scanVars, read, settled>>

ReleaseListing ==
    /\ \E p \in owned : owned' = owned \ {p}
    /\ UNCHANGED <<provVars, workspaceVars, cache, locks, scans, scanVars, read, settled>>

CacheNext ==
    \/ \E s \in Scanner : StartScan(s) \/ ReadPage(s) \/ StorePage(s) \/ AbortScan(s)
                          \/ Sweep(s) \/ ReadRows(s) \/ StoreRows(s)
    \/ \E r \in Reader : ReadEntity(r) \/ StoreEntity(r) \/ RejectEntity(r)
    \/ Change \/ Delete \/ Restore \/ TakeListing \/ VerifyWrite \/ ReleaseListing

CacheSpec == CacheInit /\ [][CacheNext]_cacheVars

-----------------------------------------------------------------------------
(* Properties                                                              *)

CacheTypeOK ==
    /\ ver \in [Product -> 1..MaxVer]
    /\ here \subseteq Product /\ owned \subseteq Product /\ settled \subseteq Product
    /\ cache \in [Product -> CacheRow]
    /\ locks \in 0..MaxLock /\ scans \in 0..MaxScan
    /\ displayed \in [Product -> 0..MaxVer] /\ verified \in [Product -> 0..MaxVer]
    /\ rows \in [Scanner -> [Product -> 0..MaxVer]]
    /\ scanStep \in [Scanner -> {"idle", "page", "copy", "store"}]
    /\ started \in [Scanner -> 0..MaxScan]
    /\ hook \in [Scanner -> BOOLEAN]
    /\ todo \in [Scanner -> SUBSET Product]
    /\ seen \in [Scanner -> SUBSET Product]
    /\ left \in [Scanner -> SUBSET Product]
    /\ gone \in [Scanner -> SUBSET Product]
    \* A row tells no more than the provider has said.
    /\ \A p \in Product : cache[p].observed <= ver[p] /\ cache[p].fetched <= scans

\* "Newest external observation wins": no page of a scan, however slow, lets an
\* older observation overwrite a newer one; and while an Apply owns the Listing,
\* neither a page, nor a targeted read, nor a copy replaces what the caches say.
NewestIsKept ==
    [][\A p \in Product :
          /\ read' = read => cache'[p].observed >= cache[p].observed
          /\ p \in owned => /\ cache'[p].observed = cache[p].observed
                            /\ displayed'[p] = displayed[p] \/ displayed'[p] = verified'[p]]_cacheVars

\* The sweep of s marks p as gone, which its pages or later reads have contained.
SweepsSeen(s, p) ==
    ScanAt(s, "page") /\ scanStep'[s] # "page" /\ p \in seen[s] /\ cache[p].exists /\ ~cache'[p].exists

\* A product that a scan has stored, or that a targeted read has stored
\* meanwhile, is not swept as gone by that scan.
StoredIsKept ==
    [][\A s \in Scanner, p \in Product : SweepsSeen(s, p) => p \in left[s]]_cacheVars

\* "Rows not seen this run" are swept, and none that the pages contained.
SeenIsKept == [][\A s \in Scanner, p \in Product : ~SweepsSeen(s, p)]_cacheVars

\* The guard of a copy "closes the TOCTOU window between provider I/O and local
\* cache commit": what an Apply has verified is not replaced by an older value.
VerifiedIsKept == \A p \in Product : displayed[p] >= verified[p]

\* A product that was gone when the scan started, and has stayed away, is not
\* shown as existing once the scan is through, but for an answer that was on its
\* way when the scan started.
GoneIsMarked == \A p \in settled : ~cache[p].exists
=============================================================================
