---------------------------- MODULE BlockManager ----------------------------
(***************************************************************************)
(* Block_manager (ssd_bm.cpp): which blocks of the drive are free, in log  *)
(* use, in data use and invalid.  A drive never used hands out its blocks  *)
(* in ascending order; after that erased blocks come back through a list.  *)
(*                                                                         *)
(* s.simpleCurrentFree : blocks handed out for the first time              *)
(* s.free_list         : erased blocks, oldest first                       *)
(* s.invalid_list      : blocks FAST has done with, to be erased           *)
(* s.log_active, s.data_active : blocks in use, by type.  The code's       *)
(*     counters are unsigned: a negative number stands for one that has    *)
(*     wrapped, and is larger than any limit.                              *)
(*                                                                         *)
(* Left out: the cost index.  cost_insert is a stub at this commit, so the *)
(* index is empty and the loop that collects by it reads past its end.     *)
(***************************************************************************)
EXTENDS Flash, Sequences

CONSTANTS FtlImplementation,  \* FTL_IMPLEMENTATION
          LogBlockLimit       \* BAST_LOG_BLOCK_LIMIT or FAST_LOG_BLOCK_LIMIT

ImplFast == "FAST"
ImplDftl == "DFTL"
ImplBimodal == "BIMODAL"

\* Block_manager::Block_manager
MaxLogBlocks == IF FtlImplementation = ImplFast THEN LogBlockLimit ELSE NumBlocks
NewDrive(tables) ==
    [block |-> [b \in Blocks |-> NewBlock], plane |-> [pl \in Planes |-> NewPlane],
     data |-> [a \in Addresses |-> None], abort |-> "none", simpleCurrentFree |-> 0,
     free_list |-> << >>, invalid_list |-> << >>, log_active |-> 0, data_active |-> 0,
     map |-> tables]

\* Block_manager::invalidate: the block waits to be erased.
Invalidate(s, b, type) ==
    LET listed == [s EXCEPT !.invalid_list = Append(@, b)]
    IN IF type = "DATA" THEN [listed EXCEPT !.data_active = @ - 1]
       ELSE [listed EXCEPT !.log_active = @ - 1]

\* Block_manager::insert_events, the loop: up to five blocks are erased, from
\* the back of the list.
EraseInvalid(s) ==
    LET last == Len(s.invalid_list)
        kept == IF last > 5 THEN last - 5 ELSE 0
        step[n \in kept .. last] ==
            IF n = last THEN s
            ELSE LET b == s.invalid_list[n + 1]
                 IN [PlaneErase(step[n + 1], b) EXCEPT !.free_list = Append(@, b)]
    IN [step[kept] EXCEPT !.invalid_list = SubSeq(@, 1, kept)]

\* Block_manager::insert_events.  The ratio is a float and the threshold a
\* double: a drive used to exactly nine tenths is still below it.
BelowThreshold(s) ==
    (Len(s.invalid_list) + s.log_active + s.data_active - Len(s.free_list)) * 10 <= NumBlocks * 9
InsertEvents(s) ==
    IF BelowThreshold(s) THEN s
    ELSE Assert(EraseInvalid(s), FtlImplementation \notin {ImplDftl, ImplBimodal}, "empty cost index")

\* Block_manager::get_num_free_blocks: until every block has been used it
\* counts the blocks that are in use.
NumFreeBlocks(s) ==
    Len(s.free_list) + (IF s.simpleCurrentFree < NumBlocks THEN s.simpleCurrentFree ELSE 0)

\* Block_manager::get_page_block: a used drive with at most one free block
\* collects first.
Replenished(s) ==
    IF s.simpleCurrentFree >= NumBlocks /\ Len(s.free_list) <= 1 THEN InsertEvents(s) ELSE s

\* Block_manager::get_page_block: the block handed out, and the state after it.
\* With the drive used once and the list empty the assertion on free_list fails.
NextFree(s) ==
    IF s.simpleCurrentFree < NumBlocks THEN s.simpleCurrentFree
    ELSE IF s.free_list # << >> THEN Head(s.free_list) ELSE 0
TakeNextFree(s) ==
    IF s.simpleCurrentFree < NumBlocks THEN [s EXCEPT !.simpleCurrentFree = @ + 1]
    ELSE IF s.free_list = << >> THEN Assert(s, FALSE, "no free block")
    ELSE [s EXCEPT !.free_list = Tail(@)]

\* Block_manager::get_free_block: the block is counted by type.  A log block
\* beyond the limit is an exception nobody catches.
CountBlock(s, type) ==
    IF type = "DATA" THEN [s EXCEPT !.data_active = @ + 1]
    ELSE [Assert(s, s.log_active \in 0 .. MaxLogBlocks, "too many log blocks")
          EXCEPT !.log_active = @ + 1]
HandOut(s, type) == [block |-> NextFree(s), state |-> CountBlock(TakeNextFree(s), type)]
GetFreeBlock(s, type) == HandOut(Replenished(s), type)

\* Mutant: the counters are not told of a promotion.
PromoteUncounted(s) == s

\* Block_manager::promote_block(DATA): a log block becomes a data block.
PromoteToData(s) == [s EXCEPT !.data_active = @ + 1, !.log_active = @ - 1]

\* Block_manager::erase_and_invalidate: erase, put on the list, uncount.
EraseAndInvalidate(s, b, type) ==
    LET erased == [PlaneErase(s, b) EXCEPT !.free_list = Append(@, b)]
    IN IF type = "DATA" THEN [erased EXCEPT !.data_active = @ - 1]
       ELSE [erased EXCEPT !.log_active = @ - 1]
=============================================================================
