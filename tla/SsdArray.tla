------------------------------ MODULE SsdArray ------------------------------
(***************************************************************************)
(* The hierarchy above a plane: dies, packages and the drive (ssd_die.cpp, *)
(* ssd_package.cpp, ssd_ssd.cpp).  Each passes an operation on to the child *)
(* that the address names; an erase updates a wear figure at every level   *)
(* on its way back, and a merge is told apart by the planes it names.      *)
(*                                                                         *)
(* array.die[d], .package[p], .ssd : the wear figures of each level        *)
(* array.erased[level][unit]       : history, the block erased last below  *)
(***************************************************************************)
EXTENDS Flash

CONSTANTS DieSize, PackageSize, SsdSize,  \* children of a die, package, drive
          UsedBlocks,    \* the blocks that are erased and merged
          WrittenBlocks, \* those of them that are written
          MaxOperations  \* bound on operations

ASSUME GeometryAssumption ==
    /\ DieSize \in Nat \ {0} /\ PackageSize \in Nat \ {0} /\ SsdSize \in Nat \ {0}
    /\ NumPlanes = DieSize * PackageSize * SsdSize
    /\ UsedBlocks \subseteq Blocks /\ WrittenBlocks \subseteq UsedBlocks

VARIABLES array, operations
arrayVars == <<array, operations>>

\* Blocks in a child of a die, of a package and of the drive.
Levels == {"die", "package", "ssd"}
Unit == [die |-> PlaneSize, package |-> PlaneSize * DieSize,
         ssd |-> PlaneSize * DieSize * PackageSize]
Children == [die |-> DieSize, package |-> PackageSize, ssd |-> SsdSize]
UnitOf(level, b) == b \div (Unit[level] * Children[level])
Units(level) == {UnitOf(level, b) : b \in Blocks}

\* The child i of the unit of b at a level asks for the erases left of "address":
\* that is its own block at the place that b has in its child.
Peer(level, b, i) ==
    (UnitOf(level, b) * Children[level] + i) * Unit[level] + (b % Unit[level])
ErasesRemaining(block, level, b, i) == block[Peer(level, b, i)].erases_remaining

NewWear == [least_worn |-> 0, erases_remaining |-> BlockErases]

\* The constructors.
ArrayInit ==
    /\ array = [block |-> [b \in Blocks |-> NewBlock], plane |-> [pl \in Planes |-> NewPlane],
                data |-> [a \in Addresses |-> None], abort |-> "none",
                wear |-> [level \in Levels |-> [u \in Units(level) |-> NewWear]],
                erased |-> [level \in Levels |-> [u \in Units(level) |-> None]]]
    /\ operations = 0

-----------------------------------------------------------------------------
\* update_wear_stats of a level: the last child with more erases left than the
\* first one, whose erases left are the figure (the maximum is never raised).
Wear(block, level, b) ==
    LET better == {i \in 1 .. Children[level] - 1 :
                      ErasesRemaining(block, level, b, i) > ErasesRemaining(block, level, b, 0)}
    IN [least_worn |-> IF better = {} THEN 0 ELSE CHOOSE i \in better : \A j \in better : j <= i,
        erases_remaining |-> ErasesRemaining(block, level, b, 0)]

\* Mutant: a package passes the erase on and does not look at its dies again.
UpdateWearSkipsPackage(s, b) ==
    [s EXCEPT !.wear = [level \in Levels |->
                           IF level = "package" THEN @[level]
                           ELSE [@[level] EXCEPT ![UnitOf(level, b)] = Wear(s.block, level, b)]],
              !.erased = [level \in Levels |-> [@[level] EXCEPT ![UnitOf(level, b)] = b]]]

\* The way back of an erase: Die, Package and Ssd update their figures.
UpdateWear(s, b) ==
    [s EXCEPT !.wear = [level \in Levels |->
                           [@[level] EXCEPT ![UnitOf(level, b)] = Wear(s.block, level, b)]],
              !.erased = [level \in Levels |-> [@[level] EXCEPT ![UnitOf(level, b)] = b]]]

\* Ssd::erase: a block that is worn out reports FAILURE, and no level changes.
SsdErase(s, b) ==
    IF s.block[b].erases_remaining < 1 THEN s ELSE UpdateWear(PlaneErase(s, b), b)

\* Plane::_merge of block b into itself: the first valid page becomes invalid and
\* page 0 is written, whatever page was found empty: the write event keeps the
\* address it was made with.  A second page to move finds page 0 written.  The
\* write has no payload, and passes by the plane's count of free blocks.
MergeWithin(s, b, valid, first) ==
    IF Cardinality(valid) > Cardinality({p \in Pages : s.block[b].page[p] = "EMPTY"}) \/ valid = {}
    THEN s
    ELSE [Assert(s, s.block[b].page[0] = "EMPTY" /\ Cardinality(valid) = 1, "page not empty")
          EXCEPT !.block[b] = BlockWrite(BlockInvalidate(@, first), {0})]

\* Ssd::merge, Package::merge, Die::merge: a merge of two planes is a stub, one of
\* two blocks of a plane (or of planes with one number in two dies) is refused by
\* an assertion of Plane::_merge.
SsdMerge(s, b, m) ==
    IF PlaneOf(b) % DieSize # PlaneOf(m) % DieSize THEN s
    ELSE IF b # m THEN Assert(s, FALSE, "merge of two blocks")
    ELSE LET valid == {p \in Pages : s.block[b].page[p] = "VALID"}
         IN MergeWithin(s, b, valid, CHOOSE p \in Pages :
                            valid = {} \/ (p \in valid /\ \A q \in valid : p <= q))

-----------------------------------------------------------------------------
Operate(result) ==
    /\ array.abort = "none" /\ operations < MaxOperations
    /\ array' = result
    /\ operations' = operations + 1

WrittenAddresses == {Linear(b, p) : b \in WrittenBlocks, p \in Pages}

\* Ssd::write then Ssd::replace of one event, as Controller::issue calls them.
WriteArray == \E a \in WrittenAddresses, r \in WrittenAddresses \cup {None} :
                 Operate(IssueWrite(array, a, r, None))
EraseArray == \E b \in UsedBlocks : Operate(SsdErase(array, b))
MergeArray == \E b, m \in UsedBlocks : Operate(SsdMerge(array, b, m))

ArrayNext == WriteArray \/ EraseArray \/ MergeArray

-----------------------------------------------------------------------------
\* free_blocks of a plane (Plane::write, Plane::erase) is unsigned: it never falls
\* short of the blocks that are free, so it cannot wrap, although blocks leave the
\* state FREE behind its back and a free block may be erased again.
FreeCountNotShort ==
    \A pl \in Planes :
        array.plane[pl].free_blocks >=
            Cardinality({b \in Blocks : PlaneOf(b) = pl /\ array.block[b].state = "FREE"})

\* At every level the child cached as least worn has, at the place erased last
\* below it, no fewer erases left than the level's own figure, and no fewer than
\* its first child: what other levels or other units erase in between cannot turn
\* the cached choice into a bad one.
LeastWornIsNoWorse ==
    /\ \A level \in Levels : \A u \in Units(level) :
          LET b == array.erased[level][u]
              left(i) == ErasesRemaining(array.block, level, b, i)
              w == array.wear[level][u]
          IN b # None => left(w.least_worn) >= w.erases_remaining /\ w.erases_remaining = left(0)
    /\ \A pl \in Planes :
          array.block[pl * PlaneSize + array.plane[pl].least_worn].erases_remaining
              >= array.block[pl * PlaneSize].erases_remaining
=============================================================================
