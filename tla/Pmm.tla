-------------------------------- MODULE Pmm ---------------------------------
(***************************************************************************)
(* The physical page allocator of memory/pmm.c: a bitmap of free pages and *)
(* two counters.  Pages are indices; reserved regions are byte ranges, one *)
(* step of pmm_init each.                                                  *)
(***************************************************************************)
EXTENDS Integers, FiniteSets, Sequences

CONSTANTS
  PAGE_SIZE,
  PMM_TOTAL_PAGES,   \* pages the bitmap has bits for
  MemTop,            \* pmm_init's argument, in bytes
  Regions            \* the byte ranges <<start, end>> pmm_init reserves

ASSUME PmmAssumption ==
  /\ PAGE_SIZE \in Nat \ {0} /\ PMM_TOTAL_PAGES \in Nat /\ MemTop \in Nat
  /\ Regions \in Seq(Nat \X Nat)

VARIABLES
  free,              \* the bits that are set in pmm_bitmap
  free_pages,        \* pmm_free_pages
  reserved_pages,    \* pmm_reserved_pages
  held,              \* pages handed out and not yet given back
  region             \* the region pmm_init reserves next

pmm_vars == <<free, free_pages, reserved_pages, held, region>>

total_pages ==
  IF MemTop \div PAGE_SIZE > PMM_TOTAL_PAGES THEN PMM_TOTAL_PAGES
                                             ELSE MemTop \div PAGE_SIZE

Page == 0 .. total_pages - 1

(* The pages mark_range_used visits: all that the range touches. *)
PagesOf(start, end) ==
  {i \in Page : /\ i >= start \div PAGE_SIZE
                /\ i < (end + PAGE_SIZE - 1) \div PAGE_SIZE}

(* pmm_init up to its first mark_range_used. *)
PmmInit ==
  /\ free = Page
  /\ free_pages = total_pages
  /\ reserved_pages = 0
  /\ held = {}
  /\ region = 1

Ready == region > Len(Regions)

(* Mutant: counts every page of the range, reserved already or not. *)
mark_range_used_Mutant ==
  /\ ~ Ready
  /\ LET range == PagesOf(Regions[region][1], Regions[region][2])
     IN  /\ free' = free \ range
         /\ free_pages' = free_pages - Cardinality(range \cap free)
         /\ reserved_pages' = reserved_pages + Cardinality(range)
  /\ region' = region + 1
  /\ UNCHANGED held

(* Mutant: the end of a region is rounded down. *)
mark_range_used_RoundedDown ==
  /\ ~ Ready
  /\ LET range == PagesOf(Regions[region][1], Regions[region][2] - PAGE_SIZE + 1) \cap free
     IN  /\ free' = free \ range
         /\ free_pages' = free_pages - Cardinality(range)
         /\ reserved_pages' = reserved_pages + Cardinality(range)
  /\ region' = region + 1
  /\ UNCHANGED held

mark_range_used ==
  /\ ~ Ready
  /\ LET range == PagesOf(Regions[region][1], Regions[region][2]) \cap free
     IN  /\ free' = free \ range
         /\ free_pages' = free_pages - Cardinality(range)
         /\ reserved_pages' = reserved_pages + Cardinality(range)
  /\ region' = region + 1
  /\ UNCHANGED held

(* The lowest free page; words and bits are scanned upwards. *)
pmm_alloc_page(p) ==
  /\ Ready
  /\ p \in free
  /\ \A q \in free : p <= q
  /\ free' = free \ {p}
  /\ free_pages' = free_pages - 1
  /\ held' = held \cup {p}
  /\ UNCHANGED <<reserved_pages, region>>

(* A page handed out before is given back, or given back once more. *)
pmm_free_page(p) ==
  /\ Ready
  /\ p \notin free
  /\ free' = free \cup {p}
  /\ free_pages' = free_pages + 1
  /\ held' = held \ {p}
  /\ UNCHANGED <<reserved_pages, region>>

PmmNext ==
  \/ mark_range_used
  \/ \E p \in Page : pmm_alloc_page(p)
  \/ \E p \in held \cup free : pmm_free_page(p)

PmmSpec == PmmInit /\ [][PmmNext]_pmm_vars

-----------------------------------------------------------------------------
(* Properties. *)

PmmTypeOK ==
  /\ free \subseteq Page
  /\ held \subseteq Page
  /\ region \in Nat \ {0}

(* The counters tell the truth: pmm_get_free_count is the number of free   *)
(* bits and pmm_get_used_count, total - free - reserved, the number of     *)
(* pages in callers' hands, however the reserved regions overlap.          *)
CountsExact ==
  /\ free_pages = Cardinality(free) /\ reserved_pages \in Nat
  /\ total_pages - free_pages - reserved_pages = Cardinality(held)

(* pmm.h:10: the reserved regions "are never handed out", not even the     *)
(* pages they only touch.                                                  *)
ReservedNeverHandedOut ==
  \A r \in DOMAIN Regions : r < region =>
    \A p \in free \cup held :
      \/ (p + 1) * PAGE_SIZE <= Regions[r][1]
      \/ p * PAGE_SIZE >= Regions[r][2]

(* No page is in a caller's hands and free to be handed out again. *)
NeverTwice == held \cap free = {}
=============================================================================
