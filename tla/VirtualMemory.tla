--------------------------- MODULE VirtualMemory ---------------------------
(***************************************************************************)
(* va_to_pa (src/src/main.cc): page table, inverse table, the allocator of *)
(* physical pages and the swap that starts when DRAM_PAGES are allocated,  *)
(* with the TLBs that keep the translations it returns.                    *)
(*                                                                         *)
(* A translation of core c travels from the page walk of the STLB through  *)
(* the MSHRs of STLB and ITLB or DTLB (walked) into the TLBs (held); the   *)
(* misses themselves are the subject of module CacheHierarchy.             *)
(*                                                                         *)
(* Operators marked "mutant" are deliberately faulty variants of the       *)
(* definition after them; no specification uses them.                      *)
(***************************************************************************)
EXTENDS Naturals, FiniteSets

CONSTANTS
  CPU,          \* 0..(NUM_CPUS - 1)
  VmPage,         \* page numbers the traces use
  DRAM_PAGES,
  MAX_PPAGE,    \* draw_rand returns 0..MAX_PPAGE
  RUN           \* 1 << (rand() % 10): pages to allocate next to each other

ASSUME VmAssumption ==
  /\ CPU \subseteq Nat /\ VmPage \subseteq Nat
  /\ IsFiniteSet(CPU) /\ IsFiniteSet(VmPage)
  /\ DRAM_PAGES \in Nat \ {0} /\ MAX_PPAGE \in Nat
  /\ DRAM_PAGES <= MAX_PPAGE
  /\ RUN \subseteq Nat \ {0} /\ RUN # {}

VARIABLES
  page_table,         \* vpage -> ppage
  inverse_table,      \* ppage -> vpage
  allocated_pages,
  previous_ppage, num_adjacent_page,
  walked,             \* walked[c]: translations in MSHRs on the way to a TLB
  held                \* held[c]: translations in the ITLB, DTLB or STLB

tables == <<page_table, inverse_table>>
vmVars == <<tables, allocated_pages, previous_ppage, num_adjacent_page, walked,
          held>>

\* vpage: the page number tagged with the core (high_bit_mask).  The tag of core
\* 0 is zero, and tags grow with the core.
VPage == CPU \X VmPage

Before(v, w) == v[1] < w[1] \/ (v[1] = w[1] /\ v[2] < w[2])

NoPage == <<>>

-----------------------------------------------------------------------------
(***************************************************************************)
(* The allocator: the page after the previous one while a run of adjacent  *)
(* pages lasts, else a random page that is free.                           *)
(***************************************************************************)

Free(f) == f \notin DOMAIN inverse_table

Adjacent == num_adjacent_page > 0 /\ Free(previous_ppage + 1)

Chosen(f) ==
  IF Adjacent THEN f = previous_ppage + 1 ELSE f \in 0..MAX_PPAGE /\ Free(f)

\* mutants: the swap starts a page too late, or too early.
FullLate == allocated_pages > DRAM_PAGES
FullEarly == allocated_pages + 1 >= DRAM_PAGES

DramFull == allocated_pages >= DRAM_PAGES

\* A run that ended, or met a page in use, is followed by a new one.
Allocate(v, f) ==
  /\ ~DramFull
  /\ Chosen(f)
  /\ page_table' = [w \in DOMAIN page_table \cup {v} |->
                      IF w = v THEN f ELSE page_table[w]]
  /\ inverse_table' = [g \in DOMAIN inverse_table \cup {f} |->
                         IF g = f THEN v ELSE inverse_table[g]]
  /\ previous_ppage' = f
  /\ allocated_pages' = allocated_pages + 1
  /\ IF Adjacent THEN num_adjacent_page' = num_adjacent_page - 1
                 ELSE num_adjacent_page' \in RUN

(***************************************************************************)
(* The swap: the first page of the page table that is not in recent_page,  *)
(* which no code fills, so the page with the lowest vpage.  Its frame goes *)
(* to the new page and invalidate_entry removes it from the TLBs.          *)
(***************************************************************************)

NRU_vpage == CHOOSE v \in DOMAIN page_table :
               \A w \in DOMAIN page_table \ {v} : Before(v, w)

\* invalidate_entry compares the tagged vpage with TLB tags, which are not
\* tagged: only pages of core 0 match.
SamePage(v, t) == v[1] = 0 /\ t[1] = v[2]

\* mutant: the TLBs are not told.
HeldKept(c, v) == held[c]

HeldAfterSwap(c, v) == {t \in held[c] : ~SamePage(v, t)}

\* mutant: the inverse table keeps the old owner.
InverseKept(f, v) == inverse_table

InverseMoved(f, v) == [inverse_table EXCEPT ![f] = v]

Swap(c, v) ==
  LET old == NRU_vpage
      f == page_table[old] IN
  /\ DramFull
  /\ page_table' = [w \in (DOMAIN page_table \ {old}) \cup {v} |->
                      IF w = v THEN f ELSE page_table[w]]
  /\ inverse_table' = InverseMoved(f, v)
  /\ held' = [held EXCEPT ![c] = HeldAfterSwap(c, old)]
  /\ UNCHANGED <<allocated_pages, previous_ppage, num_adjacent_page>>

\* va_to_pa, called by the STLB for a miss; the result goes into its MSHR.
va_to_pa(c, p) ==
  LET v == <<c, p>> IN
  /\ \/ /\ v \in DOMAIN page_table
        /\ UNCHANGED <<tables, allocated_pages, previous_ppage,
                       num_adjacent_page, held>>
     \/ /\ v \notin DOMAIN page_table
        /\ \E f \in 0..MAX_PPAGE \cup {previous_ppage + 1} : Allocate(v, f)
        /\ UNCHANGED held
     \/ /\ v \notin DOMAIN page_table
        /\ Swap(c, v)
  /\ walked' = [walked EXCEPT ![c] = @ \cup {<<p, page_table'[v]>>}]

\* handle_fill of a TLB: the translation is now in the TLB, and the MSHR freed
\* or, below another TLB, passed on.
TlbFill(c, t) ==
  /\ t \in walked[c]
  /\ held' = [held EXCEPT ![c] = @ \cup {t}]
  /\ walked' \in {walked, [walked EXCEPT ![c] = @ \ {t}]}
  /\ UNCHANGED <<tables, allocated_pages, previous_ppage, num_adjacent_page>>

\* handle_read of the STLB that hits: the translation returns to the TLB above.
TlbHit(c, t) ==
  /\ t \in held[c]
  /\ walked' = [walked EXCEPT ![c] = @ \cup {t}]
  /\ UNCHANGED <<tables, allocated_pages, previous_ppage, num_adjacent_page, held>>

\* A victim of a fill leaves its TLB.
TlbEvict(c, t) ==
  /\ t \in held[c]
  /\ held' = [held EXCEPT ![c] = @ \ {t}]
  /\ UNCHANGED <<tables, allocated_pages, previous_ppage, num_adjacent_page, walked>>

-----------------------------------------------------------------------------
VmInit ==
  /\ page_table = [v \in {} |-> 0]
  /\ inverse_table = [f \in {} |-> NoPage]
  /\ allocated_pages = 0
  /\ previous_ppage = 0
  /\ num_adjacent_page = 0
  /\ walked = [c \in CPU |-> {}]
  /\ held = [c \in CPU |-> {}]

VmNext ==
  \/ \E c \in CPU, p \in VmPage : va_to_pa(c, p)
  \/ \E c \in CPU : \E t \in walked[c] : TlbFill(c, t)
  \/ \E c \in CPU : \E t \in held[c] : TlbHit(c, t) \/ TlbEvict(c, t)

VmSpec == VmInit /\ [][VmNext]_vmVars

-----------------------------------------------------------------------------
(***************************************************************************)
(* Properties.                                                             *)
(***************************************************************************)

\* Page table and inverse table are each other's inverse, through allocations
\* and swaps: no two pages share a frame, so the traces of two cores never
\* alias, and the swap finds the frame it takes (its sanity check).
TablesInverse ==
  /\ DOMAIN page_table \subseteq VPage
  /\ \A v \in DOMAIN page_table :
       page_table[v] \in DOMAIN inverse_table /\ inverse_table[page_table[v]] = v
  /\ \A f \in DOMAIN inverse_table :
       inverse_table[f] \in DOMAIN page_table /\ page_table[inverse_table[f]] = f

\* allocated_pages counts the mapped pages and stops at DRAM_PAGES.
FramesCounted ==
  /\ allocated_pages = Cardinality(DOMAIN page_table)
  /\ allocated_pages <= DRAM_PAGES

\* The tables of va_to_pa stay a one-to-one map that fits into DRAM.
TablesSound == TablesInverse /\ FramesCounted

\* A page keeps its frame as long as it is mapped, and no page loses it while
\* there is memory left.
FramesStable ==
  [][/\ \A v \in DOMAIN page_table \cap DOMAIN page_table' :
          page_table'[v] = page_table[v]
     /\ allocated_pages < DRAM_PAGES => DOMAIN page_table \subseteq DOMAIN page_table']_vmVars

\* A swap leaves no TLB of any core with a translation of the page that was
\* swapped out (main.cc:547, "invalidate corresponding vpage and ppage from the
\* cache hierarchy").
Shootdown ==
  [][\A v \in DOMAIN page_table \ DOMAIN page_table' :
       \A t \in held'[v[1]] : t[1] # v[2]]_vmVars

\* What a swap may do: take the frame of one page, when there is none left, and the
\* translations of that page with it.
SwapSafe == FramesStable /\ Shootdown

\* Every translation in a TLB agrees with the page table.
TlbCurrent ==
  \A c \in CPU : \A t \in held[c] :
    <<c, t[1]>> \in DOMAIN page_table /\ page_table[<<c, t[1]>>] = t[2]
=============================================================================
