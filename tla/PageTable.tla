----------------------------- MODULE PageTable -----------------------------
(***************************************************************************)
(* data::table (Sources/OpenAttributeGraphCxx/Data/table.cpp): hands out   *)
(* runs of pages of one region, keeps a bitmap of the pages in use and one *)
(* of the pages that begin a run, and remaps the region to four times its  *)
(* size when a run ends behind it.                                         *)
(*                                                                         *)
(* alloc_page holds the lock from end to end and dealloc_page_locked is    *)
(* called with it held, so each is one step.  A failed precondition ends   *)
(* the process: `failure` then holds the reason and nothing happens any    *)
(* more.  Page numbers begin at 0; the client sees (page + 1) * page_size. *)
(***************************************************************************)
EXTENDS Integers, Sequences, FiniteSetsExt

CONSTANTS
  PageSize,     \* page_size, 512
  PagesPerMap,  \* pages_per_map, 64
  InitialMaps,  \* the maps of the first region, 32
  IntRange,     \* the values of a uint32_t
  Size,         \* the sizes asked for, in bytes
  MaxRuns       \* bound: runs handed out, given back ones included

ASSUME TableConstants ==
  /\ PageSize \in Nat \ {0} /\ PagesPerMap \in Nat \ {0} /\ PageSize % PagesPerMap = 0
  /\ InitialMaps \in Nat \ {0} /\ MaxRuns \in Nat
  /\ IntRange \in Nat /\ InitialMaps * PagesPerMap * PageSize < IntRange
  /\ Size \subseteq 0 .. IntRange - 1

VARIABLES
  page_maps,           \* the set bits of each map, from map 1 on
  page_metadata_maps,  \* the same of the pages that begin a run
  map_search_start,    \* an index from 0
  used_pages_num, reusable_pages_num,
  region_capacity, remapped_regions,
  runs,                \* the runs handed out, oldest first
  totals,              \* offset -> total of the header last written to it, in pages
  failure              \* "" or what ended the process

vars == <<page_maps, page_metadata_maps, map_search_start, used_pages_num,
          reusable_pages_num, region_capacity, remapped_regions, runs, totals, failure>>

-----------------------------------------------------------------------------
Bits == 0 .. PagesPerMap - 1

MapOf(page) == (page \div PagesPerMap) + 1

BitOf(page) == page % PagesPerMap

\* In 32 bits: none for a size of zero, or of almost 2^32.
PagesNeeded(size) == ((size + PageSize - 1) % IntRange) \div PageSize

\* The offset of a page from the data base, one page in front of the region.
Offset(page) == ((page + 1) * PageSize) % IntRange

\* A run: its first page, its length, the regions there were until it was
\* handed out, the last of which gives the address the client computes, and
\* whether the client still holds it.
Run == [first: Nat, pages: Nat, region: Nat, held: BOOLEAN]
Held == {i \in DOMAIN runs : runs[i].held}
PagesOf(run) == run.first .. (run.first + run.pages - 1)
Regions == Append(remapped_regions, region_capacity)

\* The scan passes over every map from the search start on, and inverts each
\* in place.  What it finds out about the pages that follow a candidate does
\* not change its choice.
ScanOrder == [i \in 1 .. Len(page_maps) |->
                ((map_search_start + i - 1) % Len(page_maps)) + 1]
Flipped == [k \in DOMAIN page_maps |-> Bits \ page_maps[k]]

Scans == page_maps # <<>> /\ used_pages_num <= Len(page_maps) * PagesPerMap

\* The maps that offer a page, by their place in the order of the scan.
Offers == {i \in 1 .. Len(page_maps) : Flipped[ScanOrder[i]] # {}}

\* The maps, the first page and the search start that the scan leaves; the
\* last map that offers a page wins.
Scanned ==
  IF ~Scans
  THEN [maps |-> page_maps, first |-> Len(page_maps) * PagesPerMap,
        start |-> map_search_start]
  ELSE IF Offers = {}
  THEN [maps |-> Flipped, first |-> Len(page_maps) * PagesPerMap,
        start |-> map_search_start]
  ELSE LET k == ScanOrder[Max(Offers)]
       IN  [maps |-> Flipped, first |-> (k - 1) * PagesPerMap + Min(Flipped[k]),
            start |-> k - 1]

\* The empty maps that gain a page, whose pages the system gets back.
Reused(maps, first, n) ==
  {k \in DOMAIN maps : /\ maps[k] = {}
                       /\ \E p \in first .. (first + n - 1) : MapOf(p) = k}

\* The maps once the pages first, ..., first + n - 1 are set in them.
WithPages(maps, first, n) ==
  [k \in 1 .. Max({Len(maps), MapOf(first + n - 1)}) |->
     (IF k <= Len(maps) THEN maps[k] ELSE {})
       \cup {BitOf(p) : p \in {q \in first .. (first + n - 1) : MapOf(q) = k}}]

\* mutant: sets the bit of the last page.
WithTail(maps, first, n) ==
  LET heads == WithPages(maps, first + n - 1, 1)
  IN  [k \in DOMAIN WithPages(maps, first, n) |->
         IF k <= Len(heads) THEN heads[k] ELSE {}]

\* The metadata maps grow with the maps and have the first page only, if there
\* is one.
WithHead(maps, first, n) ==
  LET heads == IF n = 0 THEN maps ELSE WithPages(maps, first, 1)
  IN  [k \in DOMAIN WithPages(maps, first, n) |->
         IF k <= Len(heads) THEN heads[k] ELSE {}]

\* The capacities tried from c on: each is four times the last, cut to the
\* width of an int.
Capacity[i \in Nat] ==
  IF i = 0 THEN region_capacity ELSE (4 * Capacity[i - 1]) % IntRange

\* mutant: grows once.
GrowthsOnce(size) == IF Capacity[0] >= size THEN 0 ELSE 1

\* How often grow_region runs before the capacity is at least `size`, or the
\* step at which it gives up.
Exhausted(i) == Capacity[i] <= Capacity[i - 1]
Growths(size) ==
  CHOOSE i \in 0 .. IntRange :
    /\ Capacity[i] >= size \/ (i > 0 /\ Exhausted(i))
    /\ \A j \in 0 .. i - 1 : Capacity[j] < size /\ (j > 0 => ~Exhausted(j))

-----------------------------------------------------------------------------
\* The table that ensure_shared constructs, and the zeroed one that every
\* other source file sees through shared_table.
Init ==
  /\ page_maps = <<>> /\ page_metadata_maps = <<>>
  /\ map_search_start = 0 /\ used_pages_num = 0 /\ reusable_pages_num = 0
  /\ region_capacity \in {0, InitialMaps * PagesPerMap * PageSize}
  /\ remapped_regions = <<>> /\ runs = <<>> /\ totals = <<>> /\ failure = ""

\* Bytes at an offset are in the region.
Mapped(offset, capacity) == PageSize <= offset /\ offset < capacity + PageSize

\* alloc_page, grow_region.  The end of the run is computed in 32 bits.  The header
\* of a run without pages, or of one whose end wraps, may lie outside the region:
\* writing it is undefined, and the model ends.
AllocPage(size) ==
  LET n     == PagesNeeded(size)
      maps  == Scanned.maps
      first == Scanned.first
      times == Growths(((first + n) * PageSize) % IntRange)
      spent == times > 0 /\ Exhausted(times)
      grown == IF spent THEN times - 1 ELSE times
      stray == ~spent /\ ~Mapped(Offset(first), Capacity[grown])
      fails == spent \/ stray
  IN  /\ page_maps' = WithPages(maps, first, n)
      /\ page_metadata_maps' = WithHead(page_metadata_maps, first, n)
      /\ map_search_start' = Scanned.start
      /\ used_pages_num' = (used_pages_num + n) % IntRange
      /\ reusable_pages_num' =
           (reusable_pages_num - Cardinality(Reused(maps, first, n))
                                   * PagesPerMap * PageSize) % IntRange
      /\ region_capacity' = Capacity[grown]
      /\ remapped_regions' =
           remapped_regions \o [i \in 1 .. grown |-> Capacity[i - 1]]
      /\ failure' = IF spent THEN "exhausted data space" ELSE IF stray THEN "fault" ELSE ""
      /\ runs' = IF fails THEN runs
                 ELSE Append(runs, [first |-> first, pages |-> n,
                                    region |-> Len(remapped_regions') + 1,
                                    held |-> TRUE])
      /\ totals' = IF fails THEN totals
                   ELSE [o \in DOMAIN totals \cup {Offset(first)} |->
                           IF o = Offset(first) THEN n ELSE totals[o]]

\* dealloc_page_locked.  A run without pages is left alone.  Of the others the
\* first page's index comes out as -1, far behind the maps: the access faults,
\* or it goes unnoticed and the loop goes on with pages 0, 1, ...  A stray word
\* that reads as an empty map is counted.
DeallocPage(i) ==
  LET n    == totals[Offset(runs[i].first)]
      gone == 0 .. (n - 2)
      maps == [k \in DOMAIN page_maps |->
                 page_maps[k] \ {BitOf(p) : p \in {q \in gone : MapOf(q) = k}}]
      \* A page after which its map is empty: counted each time.
      empty == {p \in gone : \E k \in DOMAIN page_maps :
                  /\ MapOf(p) = k
                  /\ page_maps[k] \subseteq {BitOf(q) : q \in {r \in 0 .. p : MapOf(r) = k}}}
  IN  /\ used_pages_num' = (used_pages_num - n) % IntRange
      /\ runs' = [runs EXCEPT ![i].held = FALSE]
      /\ \/ /\ n = 0
            /\ UNCHANGED <<page_maps, reusable_pages_num, failure>>
         \/ /\ n > 0
            /\ failure' = "fault"
            /\ UNCHANGED <<page_maps, reusable_pages_num>>
         \/ /\ n > 0
            /\ \E stray \in {0, 1} :
                 /\ page_maps' = maps
                 /\ reusable_pages_num' =
                      (reusable_pages_num + (Cardinality(empty) + stray)
                                              * PagesPerMap * PageSize) % IntRange
                 /\ UNCHANGED failure
      /\ UNCHANGED <<page_metadata_maps, map_search_start, region_capacity,
                     remapped_regions, totals>>

\* What raw_page_seed learns of the page at an offset.  It takes the page's number
\* modulo the size of a page, not the length of a map, for the bit, and bitset's
\* test throws for a bit that the map does not have.
Seed(offset) ==
  LET page == (offset \div PageSize - 1) % IntRange
      k    == MapOf(page)
  IN  IF offset >= region_capacity + PageSize THEN "invalid data offset"
      ELSE IF k > Len(page_metadata_maps) THEN "missed"
      ELSE IF page % PageSize >= PagesPerMap THEN "out of range"
      ELSE IF page % PageSize \in page_metadata_maps[k] THEN "found" ELSE "missed"

\* raw_page_seed is noexcept: an exception ends the process.
RawPageSeed(i) ==
  LET seed == Seed(Offset(runs[i].first))
  IN  /\ failure' = IF seed \in {"found", "missed"} THEN "" ELSE seed
      /\ UNCHANGED <<page_maps, page_metadata_maps, map_search_start, used_pages_num,
                     reusable_pages_num, region_capacity, remapped_regions, runs, totals>>

Next ==
  /\ failure = ""
  /\ \/ \E size \in Size : Len(runs) < MaxRuns /\ AllocPage(size)
     \/ \E i \in Held : DeallocPage(i) \/ RawPageSeed(i)

Spec == Init /\ [][Next]_vars

-----------------------------------------------------------------------------
\* Every variable keeps the shape the class declares, and the search starts
\* at a map there is (table.hpp _map_search_start).
TypeOK ==
  /\ page_maps \in Seq(SUBSET Bits) /\ page_metadata_maps \in Seq(SUBSET Bits)
  /\ map_search_start \in 0 .. Max({0, Len(page_maps) - 1})
  /\ used_pages_num \in 0 .. IntRange - 1
  /\ reusable_pages_num \in 0 .. IntRange - 1
  /\ region_capacity \in 0 .. IntRange - 1
  /\ remapped_regions \in Seq(1 .. IntRange - 1)
  /\ runs \in Seq(Run)
  /\ {Offset(runs[i].first) : i \in DOMAIN runs} \subseteq DOMAIN totals
  /\ failure \in {"", "exhausted data space", "fault", "out of range", "invalid data offset"}

\* The end of the run is not computed as it is.
Wraps(run) == (run.first + run.pages) * PageSize >= IntRange

\* Every run a client holds, unless its end wraps, lies in the region whose base
\* address it was handed out with, and so in every later one, of which that
\* region stays the beginning: an address taken before a remap keeps naming the
\* page.  Line 203 lets a run that wraps pass for a short one.
InRegion ==
  /\ \A i \in 1 .. Len(remapped_regions) : Regions[i] < Regions[i + 1]
  /\ \A i \in Held : ~Wraps(runs[i]) =>
       (runs[i].first + runs[i].pages) * PageSize <= Regions[runs[i].region]

\* raw_page_seed never says of a run that a client holds that its first page is
\* none, whatever was handed out and taken back since: it finds the page's bit,
\* or throws, which it does for most pages.  A run without pages has no bit, and
\* behind one that wraps may be pages that have another one's offset.
SeedsFound ==
  \A i \in Held : runs[i].pages > 0 /\ ~Wraps(runs[i]) =>
    Seed(Offset(runs[i].first)) \in {"found", "out of range"}

\* "next page is used, remove this page from free_pages_map" (table.cpp:163):
\* the scan picks free pages only, so no two runs share a page.
OnlyFreePages ==
  \A i, j \in Held : i # j => PagesOf(runs[i]) \cap PagesOf(runs[j]) = {}
=============================================================================
