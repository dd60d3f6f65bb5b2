------------------------------- MODULE Flash -------------------------------
(***************************************************************************)
(* The flash array of FlashSim: pages, blocks and planes (ssd_page.cpp,    *)
(* ssd_block.cpp, ssd_plane.cpp), as operators on a state record s.  Die,  *)
(* package and drive only pass an event on to the plane its address names. *)
(* A physical address is a linear one; a block is its number in the drive. *)
(*                                                                         *)
(* s.block[b]  : page states, counters and state of block b                *)
(* s.plane[pl] : free-block counter and least worn block of plane pl       *)
(* s.data[a]   : the logical page whose last write page a holds, or None   *)
(* s.abort     : the first assertion that failed, or "none"                *)
(*                                                                         *)
(* Delays, erase times and the wear figures of die, package and drive are  *)
(* read by nothing modelled here and are left out.                         *)
(***************************************************************************)
EXTENDS Integers, FiniteSets

CONSTANTS BlockSize,    \* BLOCK_SIZE: pages of a block
          BlockErases,  \* BLOCK_ERASES: erases a block survives
          PlaneSize,    \* PLANE_SIZE: blocks of a plane
          NumPlanes     \* planes of the whole drive

ASSUME FlashAssumption ==
    /\ BlockSize \in Nat \ {0}
    /\ BlockErases \in Nat
    /\ PlaneSize \in Nat \ {0}
    /\ NumPlanes \in Nat \ {0}

NumBlocks == PlaneSize * NumPlanes
Blocks == 0 .. NumBlocks - 1
Planes == 0 .. NumPlanes - 1
Pages == 0 .. BlockSize - 1
Addresses == 0 .. NumBlocks * BlockSize - 1

None == -1              \* no block, no page, no address

\* Address::set_linear_address takes an address apart.
PageOf(a) == a % BlockSize
BlockOf(a) == a \div BlockSize
PlaneOf(b) == b \div PlaneSize
Linear(b, p) == b * BlockSize + p

PageStates == {"EMPTY", "VALID", "INVALID"}
BlockStates == {"FREE", "ACTIVE", "INACTIVE"}

\* The constructors: an erased drive.
NewBlock == [page |-> [p \in Pages |-> "EMPTY"], pages_valid |-> 0,
             pages_invalid |-> 0, state |-> "FREE", erases_remaining |-> BlockErases]
NewPlane == [free_blocks |-> PlaneSize, least_worn |-> 0]

BlockType == [page : [Pages -> PageStates], pages_valid : 0 .. BlockSize,
              pages_invalid : 0 .. BlockSize, state : BlockStates,
              erases_remaining : 0 .. BlockErases]
PlaneType == [free_blocks : Nat, least_worn : 0 .. PlaneSize - 1]

\* assert(): the program ends at the first assertion that fails.
Assert(s, holds, name) ==
    IF holds \/ s.abort # "none" THEN s ELSE [s EXCEPT !.abort = name]

PageState(s, a) == s.block[BlockOf(a)].page[PageOf(a)]

-----------------------------------------------------------------------------
\* Block::write of each page in ps.  pages_valid counts pages written since the
\* last erase: nothing but an erase takes it back.
BlockWrite(blk, ps) ==
    IF ps = {} THEN blk
    ELSE [blk EXCEPT !.page = [p \in Pages |-> IF p \in ps THEN "VALID" ELSE @[p]],
                     !.pages_valid = @ + Cardinality(ps),
                     !.state = "ACTIVE"]

\* Mutant: a page already invalid is counted again.
BlockInvalidateTwice(blk, p) ==
    [blk EXCEPT !.page[p] = "INVALID", !.pages_invalid = @ + 1,
                !.state = IF blk.pages_invalid + 1 >= BlockSize THEN "INACTIVE" ELSE "ACTIVE"]

\* Mutant: a written page that becomes invalid is no longer counted as written.
BlockInvalidateUncounts(blk, p) ==
    IF blk.page[p] = "INVALID" THEN blk
    ELSE [blk EXCEPT !.page[p] = "INVALID", !.pages_invalid = @ + 1,
                     !.pages_valid = IF blk.page[p] = "VALID" THEN @ - 1 ELSE @,
                     !.state = IF blk.pages_invalid + 1 >= BlockSize
                               THEN "INACTIVE" ELSE "ACTIVE"]

\* Mutant: the test for a block with no other pages is off by one.
BlockInvalidateEarly(blk, p) ==
    IF blk.page[p] = "INVALID" THEN blk
    ELSE [blk EXCEPT !.page[p] = "INVALID", !.pages_invalid = @ + 1,
                     !.state = IF blk.pages_invalid + 2 >= BlockSize
                               THEN "INACTIVE" ELSE "ACTIVE"]

\* Block::invalidate_page: an empty page may be invalidated too.
BlockInvalidate(blk, p) ==
    IF blk.page[p] = "INVALID" THEN blk
    ELSE [blk EXCEPT !.page[p] = "INVALID",
                     !.pages_invalid = @ + 1,
                     !.state = IF blk.pages_invalid + 1 >= BlockSize
                               THEN "INACTIVE" ELSE "ACTIVE"]

\* Block::_erase of a block that has an erase left.
BlockErase(blk) == [NewBlock EXCEPT !.erases_remaining = blk.erases_remaining - 1]

-----------------------------------------------------------------------------
\* Mutant: every write, not only the first, takes a block from the free ones.
PlaneWriteCountsAll(s, b, ps, payload) ==
    [Assert(s, \A p \in ps : s.block[b].page[p] = "EMPTY", "page not empty")
     EXCEPT !.block[b] = BlockWrite(@, ps),
            !.data = [a \in Addresses |-> IF BlockOf(a) = b /\ PageOf(a) \in ps
                                          THEN payload[PageOf(a)] ELSE @[a]],
            !.plane[PlaneOf(b)].free_blocks = @ - Cardinality(ps)]

\* Plane::write of the pages ps of block b, with the data each is given.
\* Page::_write asserts that a page is EMPTY before it is written.
PlaneWrite(s, b, ps, payload) ==
    LET written == [Assert(s, \A p \in ps : s.block[b].page[p] = "EMPTY", "page not empty")
                    EXCEPT !.block[b] = BlockWrite(@, ps),
                           !.data = [a \in Addresses |->
                                        IF BlockOf(a) = b /\ PageOf(a) \in ps
                                        THEN payload[PageOf(a)] ELSE @[a]]]
    IN IF s.block[b].state = "FREE" /\ ps # {}
       THEN [written EXCEPT !.plane[PlaneOf(b)].free_blocks = @ - 1]
       ELSE written

\* Plane::replace: the page an event replaces becomes invalid.
PlaneReplace(s, a) ==
    IF a = None THEN s
    ELSE [s EXCEPT !.block[BlockOf(a)] = BlockInvalidate(@, PageOf(a))]

\* Plane::update_wear_stats: the last block of the plane that has more erases
\* left than its first one (the code never raises the maximum it compares with).
LeastWorn(block, pl) ==
    LET left(i) == block[pl * PlaneSize + i].erases_remaining
        better == {i \in 1 .. PlaneSize - 1 : left(i) > left(0)}
    IN IF better = {} THEN 0 ELSE CHOOSE i \in better : \A j \in better : j <= i

\* Plane::erase.  Every caller asserts that the erase succeeds.  What an erased
\* page holds is no data.
PlaneErase(s, b) ==
    LET pl == PlaneOf(b)
        erased == [s.block EXCEPT ![b] = BlockErase(@)]
    IN IF s.block[b].erases_remaining < 1
       THEN Assert(s, FALSE, "block worn out")
       ELSE [s EXCEPT !.block = erased,
                      !.plane[pl] = [free_blocks |-> @.free_blocks + 1,
                                     least_worn |-> LeastWorn(erased, pl)],
                      !.data = [a \in Addresses |-> IF BlockOf(a) = b THEN None ELSE @[a]]]

-----------------------------------------------------------------------------
\* Controller::issue of a WRITE: the write goes down to the plane, then the
\* page it replaces is invalidated.  The dispatch itself is a stub at this commit.
IssueWrite(s, a, replace, content) ==
    PlaneReplace(PlaneWrite(s, BlockOf(a), {PageOf(a)}, [p \in Pages |-> content]), replace)
=============================================================================
