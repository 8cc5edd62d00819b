------------------------------- MODULE Paging -------------------------------
(***************************************************************************)
(* Identity paging (memory/paging.c): one page directory and a few page    *)
(* tables in the kernel image, filled once, and the switch in CR0.  An     *)
(* entry is Absent or, with the flags present and writable, the table or   *)
(* the physical address it points to.  The walk of the tables is external: *)
(* it is the MMU's.                                                        *)
(***************************************************************************)
EXTENDS Integers

CONSTANTS
    PAGE_SIZE,
    PAGE_ENTRIES,           \* entries of the directory and of a table
    PAGING_TABLE_COUNT,
    WORD,                   \* 2^32
    MapSizes                \* the arguments of paging_prepare_identity

ASSUME PagingAssumption ==
    /\ PAGE_SIZE \in Nat \ {0}
    /\ PAGE_ENTRIES \in Nat \ {0}
    /\ PAGING_TABLE_COUNT \in 1 .. PAGE_ENTRIES - 1
    /\ WORD = PAGE_SIZE * PAGE_ENTRIES * PAGE_ENTRIES
    /\ MapSizes \subseteq 0 .. WORD - 1

VARIABLES
    page_directory, page_tables,
    paging_mapped_pages,
    paging_prepared,
    paging_on               \* CR0.PG is set and CR3 points to page_directory

pagingVars == <<page_directory, page_tables, paging_mapped_pages, paging_prepared, paging_on>>

Absent == -1

Tables == 0 .. PAGING_TABLE_COUNT - 1

Entries == 0 .. PAGE_ENTRIES - 1

PagingInit ==
    /\ page_directory = [d \in Entries |-> Absent]
    /\ page_tables = [t \in Tables |-> [i \in Entries |-> Absent]]
    /\ paging_mapped_pages = 0
    /\ paging_prepared = FALSE
    /\ paging_on = FALSE

\* Mutant: rounds down.
page_count_floor(map_bytes) ==
    LET requested_pages == map_bytes \div PAGE_SIZE
        max_pages == PAGING_TABLE_COUNT * PAGE_ENTRIES
    IN  CASE requested_pages = 0 -> 1
          [] requested_pages > max_pages -> max_pages
          [] OTHER -> requested_pages

\* How many pages are mapped: at least one, at most what the tables hold.  A
\* request that ends in the last page of the address space wraps to no page.
page_count(map_bytes) ==
    LET requested_pages == ((map_bytes + PAGE_SIZE - 1) % WORD) \div PAGE_SIZE
        max_pages == PAGING_TABLE_COUNT * PAGE_ENTRIES
    IN  CASE requested_pages = 0 -> 1
          [] requested_pages > max_pages -> max_pages
          [] OTHER -> requested_pages

\* Mutant: a table that is not full is left out of the directory.
DirectoryEntry_full(d, count) ==
    IF d \in Tables /\ (d + 1) * PAGE_ENTRIES <= count THEN d ELSE Absent

DirectoryEntry(d, count) == IF d \in Tables /\ d * PAGE_ENTRIES < count THEN d ELSE Absent

TableEntry(t, i, count) ==
    IF t * PAGE_ENTRIES + i < count THEN (t * PAGE_ENTRIES + i) * PAGE_SIZE ELSE Absent

paging_prepare_identity(map_bytes) ==
    LET count == page_count(map_bytes)
    IN  /\ page_directory' = [d \in Entries |-> DirectoryEntry(d, count)]
        /\ page_tables' = [t \in Tables |-> [i \in Entries |-> TableEntry(t, i, count)]]
        /\ paging_mapped_pages' = count
        /\ paging_prepared' = TRUE
        /\ UNCHANGED paging_on

paging_get_identity_limit_bytes == (paging_mapped_pages * PAGE_SIZE) % WORD

\* Does nothing before the tables are there.
paging_enable ==
    /\ paging_on' = (paging_on \/ paging_prepared)
    /\ UNCHANGED <<page_directory, page_tables, paging_mapped_pages, paging_prepared>>

PagingNext == (\E m \in MapSizes : paging_prepare_identity(m)) \/ paging_enable

PagingSpec == PagingInit /\ [][PagingNext]_pagingVars
-----------------------------------------------------------------------------
\* The MMU's walk: the physical address of a, or Absent for a page fault.
Walk(a) ==
    LET t == page_directory[a \div (PAGE_SIZE * PAGE_ENTRIES)]
        i == (a \div PAGE_SIZE) % PAGE_ENTRIES
    IN  IF t = Absent \/ page_tables[t][i] = Absent THEN Absent
        ELSE page_tables[t][i] + (a % PAGE_SIZE)

Translate(a) == IF paging_on THEN Walk(a) ELSE a

\* Every address below the limit goes to itself, every other one nowhere.
IdentityMap ==
    \A a \in 0 .. WORD - 1 :
        Walk(a) = IF a < paging_get_identity_limit_bytes THEN a ELSE Absent

\* The limit is the least number of whole pages that holds map_bytes, but one
\* page at least and what the tables hold at most; nothing is said of a request
\* whose rounding wraps.
LimitFor(map_bytes) ==
    LET limit == paging_get_identity_limit_bytes
        capacity == PAGING_TABLE_COUNT * PAGE_ENTRIES * PAGE_SIZE
    IN  map_bytes + PAGE_SIZE <= WORD =>
            /\ limit >= map_bytes \/ limit = capacity
            /\ limit < map_bytes + PAGE_SIZE \/ limit = PAGE_SIZE
            /\ limit <= capacity

\* From the moment the tables are prepared they map every address below the limit
\* that paging_get_identity_limit_bytes reports to itself and nothing else, and
\* that limit is what paging_prepare_identity was asked for, rounded up to pages
\* and capped: a last table that is only partly used included (paging.c:20-62).
IdentityExact ==
    [][/\ pagingVars' # pagingVars => paging_prepared' /\ IdentityMap'
       /\ \A m \in MapSizes : paging_prepare_identity(m) => LimitFor(m)']_pagingVars
=============================================================================
