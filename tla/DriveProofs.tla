---------------------------- MODULE DriveProofs -----------------------------
(***************************************************************************)
(* The drive, BAST on it and the cached mapping table, for every geometry  *)
(* of the drive, endurance, limit of log blocks, size of the table and set *)
(* of pages the host uses.  First what the block manager and the flash     *)
(* array do to any layer's drive; then the tables of BAST: a block belongs *)
(* to nobody, is one log block or is one data block, and what the host has *)
(* written is where they lead; at the end the table that DFTL and the      *)
(* bimodal layer share, where the time stamps of an entry tell, but for    *)
(* those the code overlooks, whether it is on flash as it was last set.    *)
(***************************************************************************)
EXTENDS Ftls, Sequences, SequenceTheorems, FiniteSetTheorems, WellFoundedInduction, TLAPS

\* The drives of the layers differ in their size: Chip is a drive of NumPlanes planes.
Chip(NumPlanes, FtlImplementation, LogBlockLimit) == INSTANCE FtlParent WITH HostPages <- {}

None == -1
Pages == 0 .. BlockSize - 1
PageOf(a) == a % BlockSize
BlockOf(a) == a \div BlockSize
PlaneOf(b) == b \div PlaneSize
Linear(b, p) == b * BlockSize + p
BlocksOf(n) == 0 .. PlaneSize * n - 1
PlanesOf(n) == 0 .. n - 1
AddressesOf(n) == 0 .. PlaneSize * n * BlockSize - 1
LogicalPages == 0 .. LogicalBlocks * BlockSize - 1
LBAs == 0 .. LogicalBlocks - 1
BlockSlots(n) == BlocksOf(n) \cup {None}

-----------------------------------------------------------------------------
\* Arithmetic of addresses: a quotient and a remainder are unique.
LEMMA Times ==
    ASSUME NEW a \in Nat, NEW b \in Nat
    PROVE  a * b \in Nat /\ a * b = b * a /\ (a + 1) * b = a * b + b
  OBVIOUS

LEMMA Scaled ==
    ASSUME NEW a \in Nat, NEW b \in Nat, NEW n \in Nat, a < b
    PROVE  a * n + n <= b * n
  <1>1. PICK k \in Nat : b = a + 1 + k
    <2>1. b - (a + 1) \in Nat /\ b = a + 1 + (b - (a + 1))
      OBVIOUS
    <2> QED BY <2>1
  <1>2. b * n = a * n + n + k * n /\ k * n \in Nat /\ a * n \in Nat
    BY <1>1
  <1> QED BY <1>2

LEMMA Split ==
    ASSUME NEW b \in Nat, NEW n \in Nat \ {0}
    PROVE  /\ b \div n \in Nat /\ b % n \in 0 .. n - 1
           /\ b = (b \div n) * n + (b % n)
  OBVIOUS

LEMMA Quotient ==
    ASSUME NEW q \in Nat, NEW n \in Nat \ {0}, NEW r \in 0 .. n - 1
    PROVE  (q * n + r) \div n = q /\ (q * n + r) % n = r
  <1> DEFINE a == q * n + r
             k == a \div n
             m == a % n
  <1>1. a \in Nat /\ q * n \in Nat
    BY Times
  <1>2. k \in Nat /\ m \in 0 .. n - 1 /\ a = k * n + m
    BY <1>1, Split
  <1>3. k * n \in Nat
    BY <1>2, Times
  <1>4. q * n + r = k * n + m
    BY <1>2, <1>3
  <1> HIDE DEF k, m
  <1>5. CASE k < q
    <2>1. k * n + n <= q * n
      BY <1>2, <1>5, Scaled
    <2> QED BY <1>1, <1>2, <1>3, <1>4, <2>1
  <1>6. CASE q < k
    <2>1. q * n + n <= k * n
      BY <1>2, <1>6, Scaled
    <2> QED BY <1>1, <1>2, <1>3, <1>4, <2>1
  <1>7. CASE q = k
    <2>1. r = m
      BY <1>1, <1>2, <1>3, <1>4, <1>7
    <2> QED BY <1>7, <2>1 DEF k, m
  <1> QED BY <1>2, <1>5, <1>6, <1>7

LEMMA QuotientBound ==
    ASSUME NEW b \in Nat, NEW n \in Nat \ {0}, NEW k \in Nat, b < k * n
    PROVE  b \div n \in Nat /\ b \div n < k
  <1> DEFINE u == b \div n
  <1>1. u \in Nat /\ b % n \in 0 .. n - 1 /\ b = u * n + (b % n)
    BY Split
  <1> HIDE DEF u
  <1>2. u * n \in Nat /\ k * n \in Nat /\ u * n <= b
    <2>1. u * n \in Nat /\ k * n \in Nat
      BY <1>1, Times
    <2> QED BY <1>1, <2>1
  <1>3. CASE u = k
    BY <1>2, <1>3
  <1>4. CASE k < u
    <2>1. k * n + n <= u * n
      BY <1>1, <1>4, Scaled
    <2> QED BY <1>2, <2>1
  <1> QED BY <1>1, <1>3, <1>4 DEF u

\* The numbers 0 .. k * m - 1 are the pairs of a number below k and one below m.
LEMMA Pairs ==
    ASSUME NEW k \in Nat, NEW m \in Nat \ {0}
    PROVE  /\ k * m \in Nat
           /\ \A a \in 0 .. k * m - 1 : /\ a \div m \in 0 .. k - 1 /\ a % m \in 0 .. m - 1
                                        /\ a = (a \div m) * m + (a % m)
           /\ \A q \in 0 .. k - 1, r \in 0 .. m - 1 :
                 /\ q * m + r \in 0 .. k * m - 1
                 /\ (q * m + r) \div m = q /\ (q * m + r) % m = r
  <1>1. k * m \in Nat
    BY Times
  <1>2. ASSUME NEW a \in 0 .. k * m - 1
        PROVE  a \div m \in 0 .. k - 1 /\ a % m \in 0 .. m - 1 /\ a = (a \div m) * m + (a % m)
    <2>1. a \in Nat /\ a < k * m
      BY <1>1
    <2>2. a \div m \in Nat /\ a \div m < k
      BY <2>1, QuotientBound
    <2>3. a % m \in 0 .. m - 1 /\ a = (a \div m) * m + (a % m)
      BY <2>1, Split
    <2>4. a \div m \in 0 .. k - 1
      BY <2>2
    <2> QED BY <2>3, <2>4
  <1>3. ASSUME NEW q \in 0 .. k - 1, NEW r \in 0 .. m - 1
        PROVE  /\ q * m + r \in 0 .. k * m - 1
               /\ (q * m + r) \div m = q /\ (q * m + r) % m = r
    <2>1. q \in Nat /\ q < k
      OBVIOUS
    <2>2. q * m + m <= k * m /\ q * m \in Nat
      BY <2>1, Scaled, Times
    <2>3. (q * m + r) \div m = q /\ (q * m + r) % m = r
      BY <2>1, Quotient
    <2> QED BY <1>1, <2>2, <2>3
  <1> QED BY <1>1, <1>2, <1>3

LEMMA Sizes == /\ BlockSize \in Nat \ {0} /\ PlaneSize \in Nat \ {0} /\ LogicalBlocks \in Nat \ {0}
               /\ AddressPerPage \in Nat \ {0} /\ BlockErases \in Nat
  BY FtlsAssumption

\* An address of the drive is a block and a page, a block is in a plane.
LEMMA Geometry ==
    ASSUME NEW n \in Nat \ {0}
    PROVE  /\ PlaneSize * n \in Nat \ {0}
           /\ \A a \in AddressesOf(n) : /\ BlockOf(a) \in BlocksOf(n) /\ PageOf(a) \in Pages
                                        /\ a = Linear(BlockOf(a), PageOf(a))
           /\ \A b \in BlocksOf(n), p \in Pages :
                 /\ Linear(b, p) \in AddressesOf(n)
                 /\ BlockOf(Linear(b, p)) = b /\ PageOf(Linear(b, p)) = p
           /\ \A b \in BlocksOf(n) : PlaneOf(b) \in PlanesOf(n)
  <1>1. PICK k \in Nat \ {0} : k = PlaneSize * n
    <2>1. PlaneSize * n \in Nat /\ PlaneSize * n # 0
      BY Sizes
    <2> QED BY <2>1
  <1>2. AddressesOf(n) = 0 .. k * BlockSize - 1 /\ BlocksOf(n) = 0 .. k - 1
    BY <1>1 DEF AddressesOf, BlocksOf
  <1>6. PICK m \in Nat \ {0} : m = BlockSize
    BY Sizes
  <1>7. /\ \A a \in 0 .. k * m - 1 : /\ a \div m \in 0 .. k - 1 /\ a % m \in 0 .. m - 1
                                     /\ a = (a \div m) * m + (a % m)
        /\ \A q \in 0 .. k - 1, r \in 0 .. m - 1 :
              /\ q * m + r \in 0 .. k * m - 1
              /\ (q * m + r) \div m = q /\ (q * m + r) % m = r
    BY Pairs
  <1>3. \A a \in AddressesOf(n) : /\ BlockOf(a) \in BlocksOf(n) /\ PageOf(a) \in Pages
                                  /\ a = Linear(BlockOf(a), PageOf(a))
    BY <1>2, <1>6, <1>7, Zenon DEF BlockOf, PageOf, Linear, Pages
  <1>4. \A b \in BlocksOf(n), p \in Pages :
                 /\ Linear(b, p) \in AddressesOf(n)
                 /\ BlockOf(Linear(b, p)) = b /\ PageOf(Linear(b, p)) = p
    BY <1>2, <1>6, <1>7, Zenon DEF BlockOf, PageOf, Linear, Pages
  <1>5. \A b \in BlocksOf(n) : PlaneOf(b) \in PlanesOf(n)
    <2>1. k = n * PlaneSize
      BY <1>1, Sizes, Times
    <2> QED BY <1>2, <2>1, Sizes, Pairs DEF PlaneOf, PlanesOf
  <1> QED BY <1>1, <1>3, <1>4, <1>5

LEMMA LogicalGeometry ==
    /\ \A v \in LogicalPages : /\ BlockOf(v) \in 0 .. LogicalBlocks - 1 /\ PageOf(v) \in Pages
                               /\ v = Linear(BlockOf(v), PageOf(v))
    /\ \A l \in 0 .. LogicalBlocks - 1, p \in Pages :
          Linear(l, p) \in LogicalPages /\ BlockOf(Linear(l, p)) = l /\ PageOf(Linear(l, p)) = p
  <1>1. PICK k \in Nat, m \in Nat \ {0} : k = LogicalBlocks /\ m = BlockSize
    BY Sizes
  <1>2. /\ \A a \in 0 .. k * m - 1 : /\ a \div m \in 0 .. k - 1 /\ a % m \in 0 .. m - 1
                                     /\ a = (a \div m) * m + (a % m)
        /\ \A q \in 0 .. k - 1, r \in 0 .. m - 1 :
              /\ q * m + r \in 0 .. k * m - 1
              /\ (q * m + r) \div m = q /\ (q * m + r) % m = r
    BY Pairs
  <1> QED BY <1>1, <1>2, Zenon DEF LogicalPages, BlockOf, PageOf, Linear, Pages

-----------------------------------------------------------------------------
\* A block.  Its counters and its state tell the truth about its pages.
PageStates == {"EMPTY", "VALID", "INVALID"}
BlockRec == [page : [Pages -> PageStates], pages_valid : Nat, pages_invalid : Int,
             state : {"FREE", "ACTIVE", "INACTIVE"}, erases_remaining : Int]

In(blk, st) == {p \in Pages : blk.page[p] = st}
Filled(blk) == {p \in Pages : blk.page[p] # "EMPTY"}

BlockFits(blk) ==
    /\ blk \in BlockRec /\ blk.erases_remaining \in 0 .. BlockErases
    /\ blk.pages_valid \in 0 .. Cardinality(Filled(blk))
    /\ blk.pages_invalid = Cardinality(In(blk, "INVALID"))
    /\ blk.state = "FREE" <=> \A p \in Pages : blk.page[p] = "EMPTY"
    /\ blk.state = "INACTIVE" <=> \A p \in Pages : blk.page[p] = "INVALID"

LEMMA PagesFinite ==
    ASSUME NEW S, S \subseteq Pages
    PROVE  /\ IsFiniteSet(S) /\ Cardinality(S) \in Nat /\ Cardinality(S) <= BlockSize
           /\ Cardinality(S) >= BlockSize => S = Pages
  <1>1. IsFiniteSet(Pages) /\ Cardinality(Pages) = BlockSize
    <2>1. BlockSize - 1 \in Int /\ 0 \in Int /\ 0 <= BlockSize - 1 /\ BlockSize - 1 - 0 + 1 = BlockSize
      BY Sizes
    <2> QED BY <2>1, FS_Interval, Sizes DEF Pages
  <1>2. IsFiniteSet(S) /\ Cardinality(S) <= Cardinality(Pages)
        /\ (Cardinality(S) = Cardinality(Pages) => S = Pages)
    BY <1>1, FS_Subset
  <1> QED BY <1>1, <1>2, FS_CardinalityType, Sizes

\* A block with a page has a first page.
LEMMA FirstPage == 0 \in Pages
  BY Sizes DEF Pages

LEMMA NewBlockFits ==
    ASSUME NEW n, NEW i, NEW k, NEW blk, blk = Chip(n, i, k)!NewBlock
    PROVE  /\ BlockFits(blk) /\ blk.pages_valid = 0 /\ blk.state = "FREE"
           /\ \A p \in Pages : blk.page[p] = "EMPTY"
           /\ blk.erases_remaining = BlockErases
  <1>1. /\ blk \in BlockRec /\ blk.pages_valid = 0 /\ blk.pages_invalid = 0 /\ blk.state = "FREE"
        /\ \A p \in Pages : blk.page[p] = "EMPTY"
        /\ blk.erases_remaining = BlockErases
    BY Sizes DEF Chip!NewBlock, Chip!Pages, BlockRec, Pages, PageStates
  <1>2. In(blk, "INVALID") = {} /\ Filled(blk) = {}
    BY <1>1 DEF In, Filled
  <1> QED BY <1>1, <1>2, FS_EmptySet, FirstPage, Sizes DEF BlockFits

\* Block::write of empty pages.
BlockWritten(blk, c, ps) ==
    /\ c \in BlockRec /\ c.erases_remaining = blk.erases_remaining
    /\ \A p \in Pages : c.page[p] = IF p \in ps THEN "VALID" ELSE blk.page[p]
    /\ c.pages_valid = blk.pages_valid + Cardinality(ps)
    /\ c.state = "FREE" => blk.state = "FREE"
    /\ ps # {} => c.state # "FREE"
    /\ BlockFits(blk) /\ (\A p \in ps : blk.page[p] = "EMPTY") => BlockFits(c)

LEMMA WriteFits ==
    ASSUME NEW n, NEW i, NEW k, NEW blk \in BlockRec, NEW ps, ps \subseteq Pages,
           NEW c, c = Chip(n, i, k)!BlockWrite(blk, ps)
    PROVE  BlockWritten(blk, c, ps)
  <1> USE DEF BlockWritten
  <1>1. Chip(n, i, k)!Cardinality(ps) = Cardinality(ps)
    BY DEF Chip!Cardinality, Cardinality
  <1>2. Cardinality(ps) \in Nat
    BY PagesFinite
  <1>3. CASE ps = {}
    <2>1. c = blk /\ Cardinality(ps) = 0
      BY <1>3, FS_EmptySet DEF Chip!BlockWrite
    <2> QED BY <1>3, <2>1 DEF BlockRec
  <1>4. CASE ps # {}
    <2>1. PICK pg \in [Pages -> PageStates] :
              pg = [p \in Pages |-> IF p \in ps THEN "VALID" ELSE blk.page[p]]
      BY DEF BlockRec, PageStates
    <2>2. PICK m \in Nat : m = blk.pages_valid + Cardinality(ps)
      BY <1>2 DEF BlockRec
    <2>3. c = [blk EXCEPT !.page = pg, !.pages_valid = m, !.state = "ACTIVE"]
      BY <1>1, <1>4, <2>1, <2>2 DEF Chip!BlockWrite, Chip!Pages, Pages
    <2>4. /\ c \in BlockRec /\ c.page = pg /\ c.pages_valid = m /\ c.state = "ACTIVE"
          /\ c.erases_remaining = blk.erases_remaining /\ c.pages_invalid = blk.pages_invalid
      BY <2>3 DEF BlockRec
    <2>5. ASSUME BlockFits(blk), \A p \in ps : blk.page[p] = "EMPTY"
          PROVE  BlockFits(c)
      <3>1. In(c, "INVALID") = In(blk, "INVALID")
        BY <2>1, <2>4, <2>5 DEF In
      <3>2. Filled(c) = Filled(blk) \cup ps /\ Filled(blk) \cap ps = {}
        BY <2>1, <2>4, <2>5 DEF Filled
      <3>3. PICK F : F = Filled(blk) /\ F \subseteq Pages
        BY DEF Filled
      <3>4. Cardinality(F \cup ps) = Cardinality(F) + Cardinality(ps) - Cardinality(F \cap ps)
        BY <3>3, PagesFinite, FS_Union
      <3>5. Cardinality(Filled(c)) = Cardinality(Filled(blk)) + Cardinality(ps)
            /\ Cardinality(Filled(blk)) \in Nat
        BY <3>2, <3>3, <3>4, PagesFinite, FS_EmptySet
      <3>6. c.pages_valid \in 0 .. Cardinality(Filled(c))
        BY <1>2, <2>2, <2>4, <2>5, <3>5 DEF BlockFits
      <3>7. PICK q \in Pages : q \in ps /\ c.page[q] = "VALID"
        BY <1>4, <2>1, <2>4
      <3> QED BY <2>4, <2>5, <3>1, <3>6, <3>7 DEF BlockFits
    <2> QED BY <1>4, <2>1, <2>2, <2>4, <2>5
  <1> QED BY <1>3, <1>4

\* Block::invalidate_page, of any page.
BlockInvalidated(blk, c, p) ==
    /\ c \in BlockRec /\ c.erases_remaining = blk.erases_remaining
    /\ \A q \in Pages : c.page[q] = IF q = p THEN "INVALID" ELSE blk.page[q]
    /\ c.pages_valid = blk.pages_valid
    /\ c.state = "FREE" => blk.state = "FREE"
    /\ BlockFits(blk) => BlockFits(c)

LEMMA InvalidateFits ==
    ASSUME NEW n, NEW i, NEW k, NEW blk \in BlockRec, NEW p \in Pages,
           NEW c, c = Chip(n, i, k)!BlockInvalidate(blk, p)
    PROVE  BlockInvalidated(blk, c, p)
  <1> USE DEF BlockInvalidated
  <1>1. CASE blk.page[p] = "INVALID"
    <2>1. c = blk
      BY <1>1 DEF Chip!BlockInvalidate
    <2> QED BY <1>1, <2>1
  <1>2. CASE blk.page[p] # "INVALID"
    <2>1. PICK pg \in [Pages -> PageStates] :
              /\ pg = [blk.page EXCEPT ![p] = "INVALID"]
              /\ \A q \in Pages : pg[q] = IF q = p THEN "INVALID" ELSE blk.page[q]
      <3>1. blk.page \in [Pages -> PageStates]
        BY DEF BlockRec
      <3>2. LET h == [blk.page EXCEPT ![p] = "INVALID"]
            IN h \in [Pages -> PageStates] /\ \A q \in Pages : h[q] = IF q = p THEN "INVALID" ELSE blk.page[q]
        BY <3>1 DEF PageStates
      <3> QED BY <3>2
    <2>2. PICK m \in Int : m = blk.pages_invalid + 1
      BY DEF BlockRec
    <2>3. PICK st \in {"ACTIVE", "INACTIVE"} : st = IF m >= BlockSize THEN "INACTIVE" ELSE "ACTIVE"
      OBVIOUS
    <2>4. c = [blk EXCEPT !.page = pg, !.pages_invalid = m, !.state = st]
      BY <1>2, <2>1, <2>2, <2>3 DEF Chip!BlockInvalidate, BlockRec
    <2>5. /\ c \in BlockRec /\ c.page = pg /\ c.pages_invalid = m /\ c.state = st
          /\ c.erases_remaining = blk.erases_remaining /\ c.pages_valid = blk.pages_valid
      BY <2>4 DEF BlockRec
    <2>6. ASSUME BlockFits(blk) PROVE BlockFits(c)
      <3>1. In(c, "INVALID") = In(blk, "INVALID") \cup {p} /\ p \notin In(blk, "INVALID")
        BY <1>2, <2>1, <2>5 DEF In
      <3>2. PICK S : S = In(blk, "INVALID") /\ S \subseteq Pages
        BY DEF In
      <3>3. Cardinality(S \cup {p}) = Cardinality(S) + 1 /\ Cardinality(S) \in Nat
        BY <3>1, <3>2, PagesFinite, FS_AddElement
      <3>4. m = Cardinality(In(c, "INVALID"))
        BY <2>2, <2>6, <3>1, <3>2, <3>3 DEF BlockFits
      <3>5. PICK T : T = In(c, "INVALID") /\ T \subseteq Pages
        BY DEF In
      <3>6. st = "INACTIVE" <=> T = Pages
        <4>1. /\ Cardinality(T) \in Nat /\ Cardinality(T) = m
              /\ Cardinality(T) >= BlockSize => T = Pages
          BY <3>4, <3>5, PagesFinite
        <4>2. Cardinality(Pages) >= BlockSize
          BY FS_Interval, Sizes DEF Pages
        <4> QED BY <2>3, <4>1, <4>2
      <3>7. T = Pages <=> \A q \in Pages : c.page[q] = "INVALID"
        BY <3>5 DEF In
      <3>8. Filled(blk) \subseteq Filled(c)
        BY <2>1, <2>5 DEF Filled
      <3>13. PICK F : F = Filled(blk) /\ F \subseteq Pages
        BY DEF Filled
      <3>9. PICK G : G = Filled(c) /\ G \subseteq Pages
        BY DEF Filled
      <3>10. Cardinality(F) <= Cardinality(G) /\ Cardinality(F) \in Nat /\ Cardinality(G) \in Nat
        <4>1. IsFiniteSet(G) /\ F \subseteq G /\ Cardinality(F) \in Nat /\ Cardinality(G) \in Nat
          BY <3>8, <3>9, <3>13, PagesFinite
        <4> QED BY <4>1, FS_Subset
      <3>11. c.pages_valid \in 0 .. Cardinality(Filled(c))
        BY <2>5, <2>6, <3>9, <3>10, <3>13 DEF BlockFits
      <3>12. c.page[p] = "INVALID" /\ c.state # "FREE"
        BY <2>1, <2>3, <2>5
      <3> QED BY <2>5, <2>6, <3>4, <3>6, <3>7, <3>11, <3>12 DEF BlockFits
    <2> QED BY <2>1, <2>3, <2>5, <2>6
  <1> QED BY <1>1, <1>2

\* Block::_erase.
BlockErased(blk, c) ==
    /\ c \in BlockRec /\ c.erases_remaining = blk.erases_remaining - 1
    /\ \A p \in Pages : c.page[p] = "EMPTY"
    /\ c.pages_valid = 0 /\ c.state = "FREE"
    /\ BlockFits(blk) /\ ~(blk.erases_remaining < 1) => BlockFits(c)

LEMMA EraseFits ==
    ASSUME NEW n, NEW i, NEW k, NEW blk \in BlockRec, NEW c, c = Chip(n, i, k)!BlockErase(blk)
    PROVE  BlockErased(blk, c)
  <1> USE DEF BlockErased
  <1>1. PICK new : /\ new = Chip(n, i, k)!NewBlock /\ BlockFits(new) /\ new.state = "FREE"
                   /\ new.pages_valid = 0 /\ \A p \in Pages : new.page[p] = "EMPTY"
    BY NewBlockFits
  <1>2. PICK e \in Int : e = blk.erases_remaining - 1
    BY DEF BlockRec
  <1>3. c = [new EXCEPT !.erases_remaining = e] /\ new \in BlockRec
    BY <1>1, <1>2 DEF Chip!BlockErase, BlockFits
  <1>4. /\ c \in BlockRec /\ c.erases_remaining = e /\ c.page = new.page /\ c.state = new.state
        /\ c.pages_valid = new.pages_valid /\ c.pages_invalid = new.pages_invalid
    BY <1>3 DEF BlockRec
  <1>5. ASSUME BlockFits(blk), ~(blk.erases_remaining < 1) PROVE BlockFits(c)
    <2>1. In(c, "INVALID") = In(new, "INVALID") /\ Filled(c) = Filled(new)
      BY <1>4 DEF In, Filled
    <2>2. e \in 0 .. BlockErases
      BY <1>2, <1>5, Sizes DEF BlockFits
    <2> QED BY <1>1, <1>4, <2>1, <2>2 DEF BlockFits
  <1> QED BY <1>1, <1>2, <1>4, <1>5

-----------------------------------------------------------------------------
\* A drive of n planes with tables in M.  Nothing is said of what the counters count.
Causes == {"none", "no free block", "page not empty", "block worn out", "too many log blocks",
           "empty cost index", "bad address", "no victim", "no empty page"}
PlaneRec == [free_blocks : Int, least_worn : 0 .. PlaneSize - 1]
Drives(n, M) ==
    [block : [BlocksOf(n) -> BlockRec], plane : [PlanesOf(n) -> PlaneRec],
     data : [AddressesOf(n) -> Int], abort : Causes, simpleCurrentFree : Nat,
     free_list : Seq(BlocksOf(n)), invalid_list : Seq(BlocksOf(n)), log_active : Int,
     data_active : Int, map : M]

\* Every block tells the truth, and no plane counts too few free blocks.
FreeIn(n, s, pl) == {b \in BlocksOf(n) : PlaneOf(b) = pl /\ s.block[b].state = "FREE"}
Fits(n, s) ==
    /\ \A b \in BlocksOf(n) : BlockFits(s.block[b])
    /\ \A pl \in PlanesOf(n) : s.plane[pl].free_blocks >= Cardinality(FreeIn(n, s, pl))

SameManager(s, t) ==
    /\ t.simpleCurrentFree = s.simpleCurrentFree /\ t.free_list = s.free_list
    /\ t.invalid_list = s.invalid_list
    /\ t.log_active = s.log_active /\ t.data_active = s.data_active
SameFlash(s, t) == t.block = s.block /\ t.plane = s.plane /\ t.data = s.data

LEMMA FreeFinite ==
    ASSUME NEW n \in Nat \ {0}, NEW s, NEW pl
    PROVE  IsFiniteSet(FreeIn(n, s, pl)) /\ Cardinality(FreeIn(n, s, pl)) \in Nat
  <1>1. IsFiniteSet(BlocksOf(n))
    <2>1. PlaneSize * n - 1 \in Int /\ 0 \in Int
      BY Geometry
    <2> QED BY <2>1, FS_Interval DEF BlocksOf
  <1>2. IsFiniteSet(FreeIn(n, s, pl))
    BY <1>1, FS_Subset DEF FreeIn
  <1> QED BY <1>2, FS_CardinalityType

\* Blocks leave the state FREE, and planes count at least what they did.
LEMMA FitsWith ==
    ASSUME NEW n \in Nat \ {0}, NEW M, NEW s \in Drives(n, M), NEW t \in Drives(n, M), Fits(n, s),
           \A b \in BlocksOf(n) : BlockFits(t.block[b]),
           \A b \in BlocksOf(n) : t.block[b].state = "FREE" => s.block[b].state = "FREE",
           t.plane = s.plane
    PROVE  Fits(n, t)
  <1> SUFFICES ASSUME NEW pl \in PlanesOf(n)
               PROVE  t.plane[pl].free_blocks >= Cardinality(FreeIn(n, t, pl))
    BY DEF Fits
  <1>1. FreeIn(n, t, pl) \subseteq FreeIn(n, s, pl)
    BY DEF FreeIn
  <1>2. Cardinality(FreeIn(n, t, pl)) <= Cardinality(FreeIn(n, s, pl))
    BY <1>1, FreeFinite, FS_Subset
  <1>3. s.plane[pl].free_blocks >= Cardinality(FreeIn(n, s, pl))
    BY DEF Fits
  <1>4. s.plane[pl].free_blocks \in Int
    BY DEF Drives, PlaneRec
  <1> QED BY <1>2, <1>3, <1>4, FreeFinite

\* assert(): only the cause of the end changes.
Ended(s, t, ok, name) ==
    /\ SameFlash(s, t) /\ SameManager(s, t) /\ t.map = s.map
    /\ t.abort = IF ok \/ s.abort # "none" THEN s.abort ELSE name

LEMMA Asserted ==
    ASSUME NEW n, NEW i, NEW k, NEW M, NEW s \in Drives(n, M), NEW ok \in BOOLEAN, NEW name \in Causes,
           NEW t, t = Chip(n, i, k)!Assert(s, ok, name)
    PROVE  t \in Drives(n, M) /\ Ended(s, t, ok, name)
  BY DEF Chip!Assert, Drives, SameFlash, SameManager, Ended

\* Block::invalidate_page of a block of the drive.
Updated(D, f, g, b, x) == g[b] = x /\ \A c \in D : c # b => g[c] = f[c]

LEMMA Update ==
    ASSUME NEW D, NEW R, NEW f \in [D -> R], NEW b \in D, NEW x \in R,
           NEW g, g = [f EXCEPT ![b] = x]
    PROVE  g \in [D -> R] /\ Updated(D, f, g, b, x)
  BY DEF Updated

\* The state of a page, and the pages written of a block.
PageAt(s, x) == s.block[BlockOf(x)].page[PageOf(x)]
Used(s, b) == s.block[b].pages_valid

LEMMA SameAddress ==
    ASSUME NEW n \in Nat \ {0}, NEW x \in AddressesOf(n), NEW a \in AddressesOf(n),
           BlockOf(x) = BlockOf(a), PageOf(x) = PageOf(a)
    PROVE  x = a
  <1>1. x = Linear(BlockOf(x), PageOf(x)) /\ a = Linear(BlockOf(a), PageOf(a))
    BY Geometry
  <1> QED BY <1>1

\* Plane::replace
Invalidates(n, s, t, a) ==
    /\ t.map = s.map /\ SameManager(s, t) /\ t.abort = s.abort /\ t.data = s.data
    /\ \A x \in AddressesOf(n) : PageAt(t, x) = IF x = a THEN "INVALID" ELSE PageAt(s, x)
    /\ \A c \in BlocksOf(n) : Used(t, c) = Used(s, c)
    /\ Fits(n, s) => Fits(n, t)

LEMMA Invalidated ==
    ASSUME NEW n \in Nat \ {0}, NEW i, NEW k, NEW M, NEW s \in Drives(n, M), NEW a \in AddressesOf(n),
           NEW t, t = Chip(n, i, k)!PlaneReplace(s, a)
    PROVE  t \in Drives(n, M) /\ Invalidates(n, s, t, a)
  <1>1. PICK b \in BlocksOf(n) : b = BlockOf(a)
    BY Geometry
  <1>2. PICK p \in Pages : p = PageOf(a)
    BY Geometry
  <1>3. s.block \in [BlocksOf(n) -> BlockRec]
    BY DEF Drives
  <1>4. PICK old \in BlockRec : old = s.block[b]
    BY <1>3
  <1>5. PICK blk : blk = Chip(n, i, k)!BlockInvalidate(old, p)
    OBVIOUS
  <1>6. /\ blk \in BlockRec
        /\ \A q \in Pages : blk.page[q] = IF q = p THEN "INVALID" ELSE old.page[q]
        /\ blk.pages_valid = old.pages_valid
        /\ blk.state = "FREE" => old.state = "FREE"
        /\ BlockFits(old) => BlockFits(blk)
    <2>1. BlockInvalidated(old, blk, p)
      BY <1>5, InvalidateFits
    <2> QED BY <2>1 DEF BlockInvalidated
  <1>7. PICK f : f = [s.block EXCEPT ![b] = blk]
    OBVIOUS
  <1>8. f \in [BlocksOf(n) -> BlockRec] /\ f[b] = blk /\ \A c \in BlocksOf(n) : c # b => f[c] = s.block[c]
    BY <1>3, <1>6, <1>7, Update DEF Updated
  <1>9. a # -1
    BY Geometry DEF AddressesOf
  <1>10. t = [s EXCEPT !.block = f]
    BY <1>1, <1>2, <1>4, <1>5, <1>7, <1>9
       DEF Chip!PlaneReplace, Chip!BlockOf, Chip!PageOf, Chip!None, BlockOf, PageOf
  <1>11. /\ t \in Drives(n, M) /\ t.block = f /\ t.map = s.map /\ SameManager(s, t)
         /\ t.abort = s.abort /\ t.data = s.data /\ t.plane = s.plane
    BY <1>8, <1>10 DEF Drives, SameManager
  <1>12. ASSUME Fits(n, s) PROVE Fits(n, t)
    <2>1. ASSUME NEW c \in BlocksOf(n)
          PROVE  BlockFits(f[c]) /\ (f[c].state = "FREE" => s.block[c].state = "FREE")
      <3>1. BlockFits(s.block[c])
        BY <1>12 DEF Fits
      <3> QED BY <1>4, <1>6, <1>8, <3>1
    <2> QED BY <1>11, <1>12, <2>1, FitsWith
  <1>13. ASSUME NEW x \in AddressesOf(n)
         PROVE  PageAt(t, x) = IF x = a THEN "INVALID" ELSE PageAt(s, x)
    <2>1. BlockOf(x) \in BlocksOf(n) /\ PageOf(x) \in Pages
      BY Geometry
    <2>2. x # a => BlockOf(x) # b \/ PageOf(x) # p
      BY <1>1, <1>2, SameAddress
    <2> QED BY <1>1, <1>2, <1>4, <1>6, <1>8, <1>11, <2>1, <2>2 DEF PageAt
  <1>14. \A c \in BlocksOf(n) : Used(t, c) = Used(s, c)
    BY <1>4, <1>6, <1>8, <1>11 DEF Used
  <1> QED BY <1>11, <1>12, <1>13, <1>14 DEF Invalidates

\* Plane::write
Programs(n, s, t, b, ps, payload) ==
    /\ t.map = s.map /\ SameManager(s, t)
    /\ \A a \in AddressesOf(n) : t.data[a] = IF BlockOf(a) = b /\ PageOf(a) \in ps
                                             THEN payload[PageOf(a)] ELSE s.data[a]
    /\ \A x \in AddressesOf(n) : PageAt(t, x) = IF BlockOf(x) = b /\ PageOf(x) \in ps
                                                THEN "VALID" ELSE PageAt(s, x)
    /\ \A c \in BlocksOf(n) : c # b => Used(t, c) = Used(s, c)
    /\ Used(t, b) = Used(s, b) + Cardinality(ps)
    /\ (\A p \in ps : s.block[b].page[p] = "EMPTY") \/ s.abort # "none" => t.abort = s.abort
    /\ (\E p \in ps : s.block[b].page[p] # "EMPTY") => t.abort # "none"
    /\ Fits(n, s) /\ (\A p \in ps : s.block[b].page[p] = "EMPTY") => Fits(n, t)

LEMMA Programmed ==
    ASSUME NEW n \in Nat \ {0}, NEW i, NEW k, NEW M, NEW s \in Drives(n, M), NEW b \in BlocksOf(n),
           NEW ps, ps \subseteq Pages, NEW payload, \A p \in ps : payload[p] \in Int,
           NEW t, t = Chip(n, i, k)!PlaneWrite(s, b, ps, payload)
    PROVE  t \in Drives(n, M) /\ Programs(n, s, t, b, ps, payload)
  <1>1. PICK ok \in BOOLEAN : ok = (\A p \in ps : s.block[b].page[p] = "EMPTY")
    BY Zenon
  <1>2. PICK u : u = Chip(n, i, k)!Assert(s, ok, "page not empty")
    OBVIOUS
  <1>3. /\ u \in Drives(n, M) /\ SameFlash(s, u) /\ SameManager(s, u) /\ u.map = s.map
        /\ u.abort = IF ok \/ s.abort # "none" THEN s.abort ELSE "page not empty"
    <2>1. PICK name \in Causes : name = "page not empty"
      BY DEF Causes
    <2>2. u = Chip(n, i, k)!Assert(s, ok, name)
      BY <1>2, <2>1
    <2>3. u \in Drives(n, M) /\ Ended(s, u, ok, name)
      BY <2>2, Asserted
    <2> QED BY <2>1, <2>3 DEF Ended
  <1>4. s.block \in [BlocksOf(n) -> BlockRec] /\ s.data \in [AddressesOf(n) -> Int]
        /\ s.plane \in [PlanesOf(n) -> PlaneRec]
    BY DEF Drives
  <1>5. PICK old \in BlockRec : old = s.block[b]
    BY <1>4
  <1>6. PICK blk : blk = Chip(n, i, k)!BlockWrite(old, ps)
    OBVIOUS
  <1>7. /\ blk \in BlockRec
        /\ \A p \in Pages : blk.page[p] = IF p \in ps THEN "VALID" ELSE old.page[p]
        /\ blk.pages_valid = old.pages_valid + Cardinality(ps)
        /\ blk.state = "FREE" => old.state = "FREE"
        /\ ps # {} => blk.state # "FREE"
        /\ BlockFits(old) /\ (\A p \in ps : old.page[p] = "EMPTY") => BlockFits(blk)
    <2>1. BlockWritten(old, blk, ps)
      BY <1>6, WriteFits
    <2> QED BY <2>1 DEF BlockWritten
  <1>8. PICK f : f = [s.block EXCEPT ![b] = blk]
    OBVIOUS
  <1>9. f \in [BlocksOf(n) -> BlockRec] /\ f[b] = blk /\ \A c \in BlocksOf(n) : c # b => f[c] = s.block[c]
    BY <1>4, <1>7, <1>8, Update DEF Updated
  <1>10. PICK d \in [AddressesOf(n) -> Int] :
            d = [a \in AddressesOf(n) |-> IF BlockOf(a) = b /\ PageOf(a) \in ps
                                          THEN payload[PageOf(a)] ELSE s.data[a]]
    BY <1>4
  <1>11. PICK w : w = [u EXCEPT !.block = f, !.data = d]
    OBVIOUS
  <1>12. /\ w \in Drives(n, M) /\ w.block = f /\ w.data = d /\ w.plane = s.plane /\ w.map = s.map
         /\ SameManager(s, w) /\ w.abort = u.abort
    BY <1>3, <1>9, <1>11 DEF Drives, SameManager, SameFlash
  <1>13. PICK pl \in PlanesOf(n) : pl = PlaneOf(b)
    BY Geometry
  <1>14. PICK z \in PlaneRec : z = s.plane[pl]
    BY <1>4
  <1>15. PICK r : r = [z EXCEPT !.free_blocks = z.free_blocks - 1]
    OBVIOUS
  <1>16. r \in PlaneRec /\ r.free_blocks = z.free_blocks - 1
    BY <1>15 DEF PlaneRec
  <1>17. PICK g : g = [s.plane EXCEPT ![pl] = r]
    OBVIOUS
  <1>18. g \in [PlanesOf(n) -> PlaneRec] /\ g[pl] = r /\ \A c \in PlanesOf(n) : c # pl => g[c] = s.plane[c]
    BY <1>4, <1>16, <1>17, Update DEF Updated
  <1>19. PICK fresh \in BOOLEAN : fresh = (old.state = "FREE" /\ ps # {})
    BY Zenon
  <1>20. t = IF fresh THEN [w EXCEPT !.plane = g] ELSE w
    <2>1. u.block = s.block /\ u.data = s.data
      BY <1>3 DEF SameFlash
    <2>2. Chip(n, i, k)!Addresses = AddressesOf(n)
      BY DEF Chip!Addresses, Chip!NumBlocks, AddressesOf
    <2>3. t = IF s.block[b].state = "FREE" /\ ps # {}
              THEN [w EXCEPT !.plane[PlaneOf(b)].free_blocks = @ - 1] ELSE w
      <3>1. d = [a \in Chip(n, i, k)!Addresses |->
                    IF Chip(n, i, k)!BlockOf(a) = b /\ Chip(n, i, k)!PageOf(a) \in ps
                    THEN payload[Chip(n, i, k)!PageOf(a)] ELSE u.data[a]]
        BY <1>10, <2>1, <2>2, Zenon DEF Chip!BlockOf, Chip!PageOf, BlockOf, PageOf
      <3>2. f = [u.block EXCEPT ![b] = Chip(n, i, k)!BlockWrite(u.block[b], ps)]
        BY <1>5, <1>6, <1>8, <2>1, Zenon
      <3>3. w = [u EXCEPT !.block[b] = Chip(n, i, k)!BlockWrite(@, ps),
                          !.data = [a \in Chip(n, i, k)!Addresses |->
                                        IF Chip(n, i, k)!BlockOf(a) = b /\ Chip(n, i, k)!PageOf(a) \in ps
                                        THEN payload[Chip(n, i, k)!PageOf(a)] ELSE @[a]]]
        BY <1>11, <3>1, <3>2, Zenon
      <3>4. u = Chip(n, i, k)!Assert(s, \A p \in ps : s.block[b].page[p] = "EMPTY", "page not empty")
        BY <1>1, <1>2, Zenon
      <3> QED BY <3>3, <3>4, Zenon DEF Chip!PlaneWrite, Chip!PlaneOf, PlaneOf
    <2>4. t = IF fresh THEN [w EXCEPT !.plane[pl].free_blocks = @ - 1] ELSE w
      BY <1>5, <1>13, <1>19, <2>3, Zenon
    <2>5. [w EXCEPT !.plane[pl].free_blocks = @ - 1] = [w EXCEPT !.plane = g]
      <3>1. w.plane = s.plane
        BY <1>12
      <3> QED BY <1>14, <1>15, <1>17, <3>1, Zenon
    <2> QED BY <2>4, <2>5, Zenon
  <1>21. /\ t \in Drives(n, M) /\ t.block = f /\ t.data = d /\ t.map = s.map
         /\ SameManager(s, t) /\ t.abort = u.abort
         /\ fresh => t.plane = g
         /\ ~fresh => t.plane = s.plane
    <2>1. CASE fresh
      BY <1>12, <1>18, <1>20, <2>1 DEF Drives, SameManager
    <2>2. CASE ~fresh
      BY <1>12, <1>20, <2>2
    <2> QED BY <2>1, <2>2
  <1>22. ASSUME Fits(n, s), \A p \in ps : s.block[b].page[p] = "EMPTY" PROVE Fits(n, t)
    <2>1. ASSUME NEW c \in BlocksOf(n)
          PROVE  BlockFits(f[c]) /\ (f[c].state = "FREE" => s.block[c].state = "FREE")
      <3>1. BlockFits(s.block[c])
        BY <1>22 DEF Fits
      <3> QED BY <1>5, <1>7, <1>9, <1>22, <3>1
    <2>2. CASE ~fresh
      BY <1>21, <1>22, <2>1, <2>2, FitsWith
    <2>3. CASE fresh
      <3>0. old.state = "FREE" /\ blk.state # "FREE"
        BY <1>7, <1>19, <2>3
      <3> SUFFICES ASSUME NEW x \in PlanesOf(n)
                   PROVE  g[x].free_blocks >= Cardinality(FreeIn(n, t, x))
        BY <1>21, <2>1, <2>3 DEF Fits
      <3>1. s.plane[x].free_blocks >= Cardinality(FreeIn(n, s, x)) /\ s.plane[x].free_blocks \in Int
        BY <1>4, <1>22 DEF Fits, PlaneRec
      <3>2. CASE x # pl
        <4>1. FreeIn(n, t, x) = FreeIn(n, s, x)
          BY <1>9, <1>13, <1>21, <3>2 DEF FreeIn
        <4> QED BY <1>18, <3>1, <3>2, <4>1
      <3>3. CASE x = pl
        <4>1. FreeIn(n, t, x) = FreeIn(n, s, x) \ {b} /\ b \in FreeIn(n, s, x)
          BY <1>5, <1>9, <1>13, <1>21, <3>0, <3>3 DEF FreeIn
        <4>2. PICK S : S = FreeIn(n, s, x) /\ IsFiniteSet(S) /\ Cardinality(S) \in Nat
          BY FreeFinite
        <4>3. Cardinality(S \ {b}) = Cardinality(S) - 1
          BY <4>1, <4>2, FS_RemoveElement
        <4> QED BY <1>14, <1>16, <1>18, <3>1, <3>3, <4>1, <4>2, <4>3
      <3> QED BY <3>2, <3>3
    <2> QED BY <2>2, <2>3
  <1>23. /\ (\A p \in ps : s.block[b].page[p] = "EMPTY") \/ s.abort # "none" => t.abort = s.abort
         /\ (\E p \in ps : s.block[b].page[p] # "EMPTY") => t.abort # "none"
    <2>1. t.abort = IF ok \/ s.abort # "none" THEN s.abort ELSE "page not empty"
      BY <1>3, <1>21
    <2>2. CASE ok
      <3>1. (\A p \in ps : s.block[b].page[p] = "EMPTY") /\ t.abort = s.abort
        BY <1>1, <2>1, <2>2
      <3> QED BY <3>1
    <2>3. CASE ~ok
      <3>1. ~(\A p \in ps : s.block[b].page[p] = "EMPTY")
        BY <1>1, <2>3
      <3> QED BY <2>1, <2>3, <3>1
    <2> QED BY <2>2, <2>3
  <1>24. ASSUME NEW x \in AddressesOf(n)
         PROVE  PageAt(t, x) = IF BlockOf(x) = b /\ PageOf(x) \in ps THEN "VALID" ELSE PageAt(s, x)
    <2>1. BlockOf(x) \in BlocksOf(n) /\ PageOf(x) \in Pages
      BY Geometry
    <2> QED BY <1>5, <1>7, <1>9, <1>21, <2>1 DEF PageAt
  <1>25. /\ \A c \in BlocksOf(n) : c # b => Used(t, c) = Used(s, c)
         /\ Used(t, b) = Used(s, b) + Cardinality(ps)
    BY <1>5, <1>7, <1>9, <1>21 DEF Used
  <1> QED BY <1>10, <1>21, <1>22, <1>23, <1>24, <1>25 DEF Programs

\* A drive with new tables.
LEMMA SetMap ==
    ASSUME NEW n, NEW M, NEW s \in Drives(n, M), NEW o \in M, NEW t, t = [s EXCEPT !.map = o]
    PROVE  t \in Drives(n, M) /\ t.map = o /\ SameFlash(s, t) /\ SameManager(s, t) /\ t.abort = s.abort
  BY DEF Drives, SameFlash, SameManager

-----------------------------------------------------------------------------
\* Plane::erase, and the block manager.
LEMMA NatMin ==
    ASSUME NEW S, S \subseteq Nat, S # {}
    PROVE  \E x \in S : \A y \in S : x <= y
  <1>1. PICK x \in S : \A y \in S : ~ (<<y, x>> \in OpToRel(<, Nat))
    BY NatLessThanWellFounded, WFMin
  <1>2. \A y \in S : ~ (y < x)
    BY <1>1 DEF OpToRel
  <1> QED BY <1>2

LEMMA NatMax ==
    ASSUME NEW m \in Nat, NEW S, S \subseteq 0 .. m, S # {}
    PROVE  \E x \in S : \A y \in S : y <= x
  <1> DEFINE D == {m - x : x \in S}
  <1>0. \A x \in S : m - x \in Nat
    OBVIOUS
  <1>1. D \subseteq Nat /\ D # {}
    BY <1>0
  <1>2. PICK d \in D : \A e \in D : d <= e
    BY <1>1, NatMin
  <1>3. PICK x \in S : d = m - x
    BY <1>2
  <1>4. \A y \in S : m - x <= m - y
    BY <1>2, <1>3
  <1> QED BY <1>3, <1>4

LastOf(S) == IF S = {} THEN 0 ELSE CHOOSE i \in S : \A j \in S : j <= i

LEMMA LastOfRange ==
    ASSUME NEW m \in Nat \ {0}, NEW S, S \subseteq 1 .. m - 1
    PROVE  LastOf(S) \in 0 .. m - 1
  <1>1. CASE S = {}
    BY <1>1 DEF LastOf
  <1>2. CASE S # {}
    <2>1. m - 1 \in Nat /\ S \subseteq 0 .. m - 1
      OBVIOUS
    <2>2. \E i \in S : \A j \in S : j <= i
      BY <1>2, <2>1, NatMax
    <2>3. LastOf(S) \in S
      BY <1>2, <2>2 DEF LastOf
    <2> QED BY <2>1, <2>3
  <1> QED BY <1>1, <1>2

LEMMA LeastWornRange ==
    ASSUME NEW n, NEW i, NEW k, NEW f, NEW pl
    PROVE  Chip(n, i, k)!LeastWorn(f, pl) \in 0 .. PlaneSize - 1
  <1>1. PICK S : S = {j \in 1 .. PlaneSize - 1 : f[pl * PlaneSize + j].erases_remaining
                                              > f[pl * PlaneSize + 0].erases_remaining}
    OBVIOUS
  <1>2. Chip(n, i, k)!LeastWorn(f, pl) = LastOf(S)
    BY <1>1 DEF Chip!LeastWorn, LastOf
  <1>3. S \subseteq 1 .. PlaneSize - 1
    BY <1>1
  <1> QED BY <1>2, <1>3, LastOfRange, Sizes

\* The first assertion that fails is kept; none that fails is about a page or a victim.
Harmless == {"none", "no free block", "block worn out", "too many log blocks",
             "empty cost index", "bad address", "no empty page"}
Sticky(s, t) == /\ s.abort # "none" => t.abort = s.abort
                /\ s.abort = "none" => t.abort \in Harmless

LEMMA StickyChain ==
    ASSUME NEW s, NEW t, NEW u, Sticky(s, t), Sticky(t, u)
    PROVE  Sticky(s, u) /\ (u.abort = "none" => t.abort = "none")
                        /\ (t.abort = "none" => s.abort = "none")
  BY DEF Sticky

LEMMA StickySame ==
    ASSUME NEW s, NEW t, t.abort = s.abort
    PROVE  Sticky(s, t)
  BY DEF Sticky, Harmless

\* An assertion that fails.
Fails(s, t) == /\ SameFlash(s, t) /\ SameManager(s, t) /\ t.map = s.map /\ Sticky(s, t)
               /\ t.abort # "none"

LEMMA Failed ==
    ASSUME NEW n, NEW i, NEW k, NEW M, NEW s \in Drives(n, M), NEW name \in Causes, name # "none",
           name \in Harmless, NEW t, t = Chip(n, i, k)!Assert(s, FALSE, name)
    PROVE  t \in Drives(n, M) /\ Fails(s, t)
  <1>1. CASE s.abort # "none"
    <2>1. t = s
      BY <1>1, Zenon DEF Chip!Assert
    <2>2. Sticky(s, t) /\ t.abort # "none"
      BY <1>1, <2>1, StickySame
    <2> QED BY <2>1, <2>2 DEF Fails, SameFlash, SameManager
  <1>2. CASE s.abort = "none"
    <2>1. t = [s EXCEPT !.abort = name]
      BY <1>2, Zenon DEF Chip!Assert
    <2>2. /\ t \in Drives(n, M) /\ SameFlash(s, t) /\ SameManager(s, t) /\ t.map = s.map /\ t.abort = name
      BY <2>1 DEF Drives, SameFlash, SameManager
    <2>3. Sticky(s, t)
      BY <1>2, <2>2 DEF Sticky
    <2> QED BY <2>2, <2>3 DEF Fails
  <1> QED BY <1>1, <1>2

LEMMA StickyVia ==
    ASSUME NEW s, NEW t, NEW u, Sticky(s, t), u.abort = t.abort
    PROVE  Sticky(s, u)
  BY DEF Sticky

\* Plane::erase
Erases(n, s, t, b) ==
    /\ \A x \in AddressesOf(n) : PageAt(t, x) = IF BlockOf(x) = b THEN "EMPTY" ELSE PageAt(s, x)
    /\ \A c \in BlocksOf(n) : Used(t, c) = IF c = b THEN 0 ELSE Used(s, c)
    /\ \A a \in AddressesOf(n) : t.data[a] = IF BlockOf(a) = b THEN None ELSE s.data[a]
    /\ Fits(n, s) => Fits(n, t)
Erasing(n, s, t, b) ==
    /\ t.map = s.map /\ SameManager(s, t) /\ Sticky(s, t)
    /\ s.block[b].erases_remaining >= 1 => t.abort = s.abort /\ Erases(n, s, t, b)
    /\ s.block[b].erases_remaining < 1 => SameFlash(s, t) /\ t.abort # "none"

LEMMA Erased ==
    ASSUME NEW n \in Nat \ {0}, NEW i, NEW k, NEW M, NEW s \in Drives(n, M), NEW b \in BlocksOf(n),
           NEW t, t = Chip(n, i, k)!PlaneErase(s, b)
    PROVE  t \in Drives(n, M) /\ Erasing(n, s, t, b)
  <1>1. s.block \in [BlocksOf(n) -> BlockRec] /\ s.data \in [AddressesOf(n) -> Int]
        /\ s.plane \in [PlanesOf(n) -> PlaneRec] /\ s.abort \in Causes
    BY DEF Drives
  <1>2. PICK old \in BlockRec : old = s.block[b]
    BY <1>1
  <1>3. old.erases_remaining \in Int
    BY DEF BlockRec
  <1>4. CASE old.erases_remaining < 1
    <2>1. PICK name \in Causes : name = "block worn out" /\ name # "none" /\ name \in Harmless
      BY DEF Causes, Harmless
    <2>2. t = Chip(n, i, k)!Assert(s, FALSE, name)
      BY <1>2, <1>4, <2>1, Zenon DEF Chip!PlaneErase
    <2>3. t \in Drives(n, M) /\ Fails(s, t)
      BY <2>1, <2>2, Failed, Zenon
    <2> QED BY <1>2, <1>3, <1>4, <2>3 DEF Erasing, Fails
  <1>5. CASE ~(old.erases_remaining < 1)
    <2>1. PICK blk : blk = Chip(n, i, k)!BlockErase(old)
      OBVIOUS
    <2>2. BlockErased(old, blk)
      BY <2>1, EraseFits
    <2>3. PICK f : f = [s.block EXCEPT ![b] = blk]
      OBVIOUS
    <2>4. f \in [BlocksOf(n) -> BlockRec] /\ f[b] = blk
          /\ \A c \in BlocksOf(n) : c # b => f[c] = s.block[c]
      BY <1>1, <2>2, <2>3, Update DEF Updated, BlockErased
    <2>5. PICK d \in [AddressesOf(n) -> Int] :
              d = [a \in AddressesOf(n) |-> IF BlockOf(a) = b THEN None ELSE s.data[a]]
      <3>1. None \in Int
        BY DEF None
      <3> QED BY <1>1, <3>1
    <2>6. PICK pl \in PlanesOf(n) : pl = PlaneOf(b)
      BY Geometry
    <2>7. PICK z \in PlaneRec : z = s.plane[pl]
      BY <1>1
    <2>8. PICK r : r = [free_blocks |-> z.free_blocks + 1, least_worn |-> Chip(n, i, k)!LeastWorn(f, pl)]
      OBVIOUS
    <2>9. r \in PlaneRec /\ r.free_blocks = z.free_blocks + 1
      BY <2>8, LeastWornRange DEF PlaneRec
    <2>10. PICK g : g = [s.plane EXCEPT ![pl] = r]
      OBVIOUS
    <2>11. g \in [PlanesOf(n) -> PlaneRec] /\ g[pl] = r /\ \A c \in PlanesOf(n) : c # pl => g[c] = s.plane[c]
      BY <1>1, <2>9, <2>10, Update DEF Updated
    <2>12. t = [s EXCEPT !.block = f, !.plane = g, !.data = d]
      <3>1. d = [a \in Chip(n, i, k)!Addresses |->
                    IF Chip(n, i, k)!BlockOf(a) = b THEN Chip(n, i, k)!None ELSE s.data[a]]
        <4>1. Chip(n, i, k)!Addresses = AddressesOf(n)
          BY DEF Chip!Addresses, Chip!NumBlocks, AddressesOf
        <4> QED BY <2>5, <4>1, Zenon DEF Chip!BlockOf, Chip!None, BlockOf, None
      <3>2. f = [s.block EXCEPT ![b] = Chip(n, i, k)!BlockErase(@)]
        BY <1>2, <2>1, <2>3, Zenon
      <3>3. g = [s.plane EXCEPT ![pl] = [free_blocks |-> @.free_blocks + 1,
                                         least_worn |-> Chip(n, i, k)!LeastWorn(f, pl)]]
        BY <2>7, <2>8, <2>10, Zenon
      <3>4. ~(s.block[b].erases_remaining < 1)
        BY <1>2, <1>5
      <3>5. t = [s EXCEPT !.block = f,
                   !.plane[pl] = [free_blocks |-> @.free_blocks + 1,
                                  least_worn |-> Chip(n, i, k)!LeastWorn(f, pl)],
                   !.data = [a \in Chip(n, i, k)!Addresses |->
                    IF Chip(n, i, k)!BlockOf(a) = b THEN Chip(n, i, k)!None ELSE @[a]]]
        BY <2>6, <3>2, <3>4, Zenon DEF Chip!PlaneErase, Chip!PlaneOf, PlaneOf
      <3> QED BY <3>1, <3>3, <3>5, Zenon
    <2>13. /\ t \in Drives(n, M) /\ t.block = f /\ t.plane = g /\ t.data = d /\ t.map = s.map
           /\ SameManager(s, t) /\ t.abort = s.abort
      BY <2>4, <2>5, <2>11, <2>12 DEF Drives, SameManager
    <2>14. ASSUME Fits(n, s) PROVE Fits(n, t)
      <3>1. ASSUME NEW c \in BlocksOf(n) PROVE BlockFits(f[c])
        <4>1. BlockFits(s.block[c]) /\ BlockFits(s.block[b])
          BY <2>14 DEF Fits
        <4>2. BlockFits(blk)
          BY <1>2, <1>5, <2>2, <4>1 DEF BlockErased
        <4> QED BY <2>4, <4>1, <4>2
      <3> SUFFICES ASSUME NEW x \in PlanesOf(n)
                   PROVE  g[x].free_blocks >= Cardinality(FreeIn(n, t, x))
        BY <2>13, <3>1 DEF Fits
      <3>2. s.plane[x].free_blocks >= Cardinality(FreeIn(n, s, x)) /\ s.plane[x].free_blocks \in Int
        BY <1>1, <2>14 DEF Fits, PlaneRec
      <3>3. CASE x # pl
        <4>1. FreeIn(n, t, x) = FreeIn(n, s, x)
          BY <2>4, <2>6, <2>13, <3>3 DEF FreeIn
        <4> QED BY <2>11, <3>2, <3>3, <4>1
      <3>4. CASE x = pl
        <4>0. blk.state = "FREE"
          BY <2>2 DEF BlockErased
        <4>1. FreeIn(n, t, x) = FreeIn(n, s, x) \cup {b}
          BY <2>4, <2>6, <2>13, <3>4, <4>0 DEF FreeIn
        <4>2. PICK S : S = FreeIn(n, s, x) /\ IsFiniteSet(S) /\ Cardinality(S) \in Nat
          BY FreeFinite
        <4>3. Cardinality(S \cup {b}) <= Cardinality(S) + 1 /\ Cardinality(S \cup {b}) \in Int
          <5>1. CASE b \in S
            <6>1. S \cup {b} = S
              BY <5>1
            <6>2. Cardinality(S \cup {b}) = Cardinality(S)
              BY <6>1, Zenon
            <6> QED BY <4>2, <6>2
          <5>2. CASE b \notin S
            <6>1. Cardinality(S \cup {b}) = Cardinality(S) + 1
              BY <4>2, <5>2, FS_AddElement
            <6> QED BY <4>2, <6>1
          <5> QED BY <5>1, <5>2
        <4> QED BY <2>7, <2>9, <2>11, <3>2, <3>4, <4>1, <4>2, <4>3
      <3> QED BY <3>3, <3>4
    <2>15. Erases(n, s, t, b)
      <3>1. ASSUME NEW x \in AddressesOf(n)
            PROVE  PageAt(t, x) = IF BlockOf(x) = b THEN "EMPTY" ELSE PageAt(s, x)
        <4>1. BlockOf(x) \in BlocksOf(n) /\ PageOf(x) \in Pages
          BY Geometry
        <4> QED BY <2>2, <2>4, <2>13, <4>1 DEF PageAt, BlockErased
      <3>2. \A c \in BlocksOf(n) : Used(t, c) = IF c = b THEN 0 ELSE Used(s, c)
        BY <2>2, <2>4, <2>13 DEF Used, BlockErased
      <3> QED BY <2>5, <2>13, <2>14, <3>1, <3>2 DEF Erases
    <2>16. Sticky(s, t)
      BY <2>13 DEF Sticky, Harmless
    <2> QED BY <1>2, <1>5, <2>13, <2>15, <2>16 DEF Erasing
  <1> QED BY <1>4, <1>5

\* Controller::issue of a write of content v to page a, which replaces page r.
Issues(n, s, t, a, r, v) ==
    /\ t.map = s.map /\ SameManager(s, t)
    /\ PageAt(s, a) = "EMPTY" \/ s.abort # "none" => t.abort = s.abort
    /\ PageAt(s, a) # "EMPTY" => t.abort # "none"
    /\ \A x \in AddressesOf(n) : t.data[x] = IF x = a THEN v ELSE s.data[x]
    /\ \A x \in AddressesOf(n) : PageAt(t, x) = IF x = r THEN "INVALID"
                                                ELSE IF x = a THEN "VALID" ELSE PageAt(s, x)
    /\ \A c \in BlocksOf(n) : Used(t, c) = IF c = BlockOf(a) THEN Used(s, c) + 1 ELSE Used(s, c)
    /\ Fits(n, s) /\ PageAt(s, a) = "EMPTY" => Fits(n, t)

LEMMA Issued ==
    ASSUME NEW n \in Nat \ {0}, NEW i, NEW k, NEW M, NEW s \in Drives(n, M), NEW a \in AddressesOf(n),
           NEW r, r = None \/ r \in AddressesOf(n), NEW v \in Int,
           NEW t, t = Chip(n, i, k)!IssueWrite(s, a, r, v)
    PROVE  t \in Drives(n, M) /\ Issues(n, s, t, a, r, v)
  <1>1. PICK b \in BlocksOf(n) : b = BlockOf(a)
    BY Geometry
  <1>2. PICK p \in Pages : p = PageOf(a)
    BY Geometry
  <1>3. PICK ps : ps = {p}
    OBVIOUS
  <1>4. PICK payload : payload = [q \in Pages |-> v]
    OBVIOUS
  <1>5. PICK u : u = Chip(n, i, k)!PlaneWrite(s, b, ps, payload)
    OBVIOUS
  <1>6. u \in Drives(n, M) /\ Programs(n, s, u, b, ps, payload)
    <2>1. ps \subseteq Pages /\ \A q \in ps : payload[q] \in Int
      BY <1>3, <1>4
    <2> QED BY <1>5, <2>1, Programmed
  <1>7. t = Chip(n, i, k)!PlaneReplace(u, r)
    BY <1>1, <1>2, <1>3, <1>4, <1>5, Zenon
       DEF Chip!IssueWrite, Chip!BlockOf, Chip!PageOf, Chip!Pages, BlockOf, PageOf, Pages
  <1>8. \A x \in AddressesOf(n) : BlockOf(x) = b /\ PageOf(x) \in ps <=> x = a
    BY <1>1, <1>2, <1>3, SameAddress
  <1>9. \A x \in AddressesOf(n) : u.data[x] = IF x = a THEN v ELSE s.data[x]
    <2>1. \A x \in AddressesOf(n) : u.data[x] = IF BlockOf(x) = b /\ PageOf(x) \in ps
                                                THEN payload[PageOf(x)] ELSE s.data[x]
      BY <1>6 DEF Programs
    <2> QED BY <1>2, <1>4, <1>8, <2>1
  <1>10. \A x \in AddressesOf(n) : PageAt(u, x) = IF x = a THEN "VALID" ELSE PageAt(s, x)
    BY <1>6, <1>8 DEF Programs
  <1>11. \A c \in BlocksOf(n) : Used(u, c) = IF c = BlockOf(a) THEN Used(s, c) + 1 ELSE Used(s, c)
    <2>1. Cardinality(ps) = 1
      BY <1>3, FS_Singleton
    <2> QED BY <1>1, <1>6, <2>1 DEF Programs
  <1>12. /\ u.map = s.map /\ SameManager(s, u)
         /\ PageAt(s, a) = "EMPTY" \/ s.abort # "none" => u.abort = s.abort
         /\ PageAt(s, a) # "EMPTY" => u.abort # "none"
         /\ Fits(n, s) /\ PageAt(s, a) = "EMPTY" => Fits(n, u)
    BY <1>1, <1>2, <1>3, <1>6 DEF Programs, PageAt
  <1>13. CASE r = None
    <2>1. t = u
      BY <1>7, <1>13 DEF Chip!PlaneReplace, Chip!None, None
    <2>2. \A x \in AddressesOf(n) : x # r
      BY <1>13, Geometry DEF AddressesOf, None
    <2> QED BY <1>6, <1>9, <1>10, <1>11, <1>12, <2>1, <2>2 DEF Issues
  <1>14. CASE r \in AddressesOf(n)
    <2>1. t \in Drives(n, M) /\ Invalidates(n, u, t, r)
      BY <1>6, <1>7, <1>14, Invalidated
    <2>2. /\ t.map = s.map /\ SameManager(s, t) /\ t.abort = u.abort /\ t.data = u.data
          /\ Fits(n, u) => Fits(n, t)
      BY <1>12, <2>1 DEF Invalidates, SameManager
    <2>3. \A x \in AddressesOf(n) : PageAt(t, x) = IF x = r THEN "INVALID"
                                                ELSE IF x = a THEN "VALID" ELSE PageAt(s, x)
      BY <1>10, <2>1 DEF Invalidates
    <2>4. \A c \in BlocksOf(n) : Used(t, c) = IF c = BlockOf(a) THEN Used(s, c) + 1 ELSE Used(s, c)
      BY <1>11, <2>1 DEF Invalidates
    <2> QED BY <1>9, <1>12, <2>1, <2>2, <2>3, <2>4 DEF Issues
  <1> QED BY <1>13, <1>14

\* A write or a trim makes every stored copy of logical page v out of date.
SameBlocks(s, t) == t.block = s.block /\ t.plane = s.plane
Outdates(n, s, t, v) ==
    /\ t.map = s.map /\ SameManager(s, t) /\ t.abort = s.abort /\ SameBlocks(s, t)
    /\ \A x \in AddressesOf(n) : t.data[x] = IF s.data[x] = v THEN None ELSE s.data[x]

LEMMA Outdated ==
    ASSUME NEW n \in Nat \ {0}, NEW i, NEW k, NEW M, NEW s \in Drives(n, M), NEW v \in Int,
           NEW t, t = Chip(n, i, k)!Outdate(s, v)
    PROVE  t \in Drives(n, M) /\ Outdates(n, s, t, v)
  <1>1. s.data \in [AddressesOf(n) -> Int]
    BY DEF Drives
  <1>2. PICK d \in [AddressesOf(n) -> Int] :
            d = [x \in AddressesOf(n) |-> IF s.data[x] = v THEN None ELSE s.data[x]]
    <2>1. None \in Int
      BY DEF None
    <2> QED BY <1>1, <2>1
  <1>3. t = [s EXCEPT !.data = d]
    <2>1. Chip(n, i, k)!Addresses = AddressesOf(n)
      BY DEF Chip!Addresses, Chip!NumBlocks, AddressesOf
    <2> QED BY <1>2, <2>1, Zenon DEF Chip!Outdate, Chip!None, None
  <1>4. /\ t \in Drives(n, M) /\ t.data = d /\ t.map = s.map /\ SameManager(s, t)
        /\ t.abort = s.abort /\ SameBlocks(s, t)
    BY <1>2, <1>3 DEF Drives, SameManager, SameBlocks
  <1>5. \A x \in AddressesOf(n) : d[x] = IF s.data[x] = v THEN None ELSE s.data[x]
    BY <1>2
  <1> QED BY <1>4, <1>5 DEF Outdates

\* What only the pages decide does not depend on the data.
LEMMA SameFits ==
    ASSUME NEW n, NEW s, NEW t, SameBlocks(s, t)
    PROVE  /\ Fits(n, s) => Fits(n, t)
           /\ \A x : PageAt(t, x) = PageAt(s, x)
           /\ \A b : Used(t, b) = Used(s, b)
  BY DEF SameBlocks, Fits, FreeIn, PageAt, Used
-----------------------------------------------------------------------------
\* The block manager, with nothing waiting to be erased.
LEMMA NothingToErase ==
    ASSUME NEW n \in Nat \ {0}, NEW i, NEW k, NEW M, NEW s \in Drives(n, M), s.invalid_list = << >>
    PROVE  Chip(n, i, k)!EraseInvalid(s) = s
  <1> DEFINE F(e) == [m \in 0 .. 0 |->
                        IF m = 0 THEN s
                        ELSE LET b == s.invalid_list[m + 1]
                             IN [Chip(n, i, k)!PlaneErase(e[m + 1], b) EXCEPT !.free_list = Append(@, b)]]
             g == [m \in 0 .. 0 |-> s]
             step == CHOOSE e : e = F(e)
  <1>1. g = F(g)
    OBVIOUS
  <1>2. step = F(step)
    <2> HIDE DEF F, g
    <2> QED BY <1>1
  <1>3. step[0] = s
    <2>1. F(step)[0] = s
      <3> HIDE DEF step
      <3> QED OBVIOUS
    <2> HIDE DEF F, step
    <2> QED BY <1>2, <2>1
  <1>4. Chip(n, i, k)!EraseInvalid(s) = [step[0] EXCEPT !.invalid_list = SubSeq(@, 1, 0)]
    <2>1. Len(s.invalid_list) = 0
      OBVIOUS
    <2> QED BY <2>1 DEF Chip!EraseInvalid
  <1>5. SubSeq(s.invalid_list, 1, 0) = << >>
    OBVIOUS
  <1> HIDE DEF step
  <1> QED BY <1>3, <1>4, <1>5 DEF Drives

\* Block_manager::insert_events with nothing to erase: at most an assertion fails.
Pauses(s, t) == SameFlash(s, t) /\ SameManager(s, t) /\ t.map = s.map /\ Sticky(s, t)

LEMMA Inserted ==
    ASSUME NEW n \in Nat \ {0}, NEW i, NEW k, NEW M, NEW s \in Drives(n, M), s.invalid_list = << >>,
           NEW t, t = Chip(n, i, k)!InsertEvents(s)
    PROVE  t \in Drives(n, M) /\ Pauses(s, t)
  <1>1. CASE t = s
    BY <1>1, StickySame DEF Pauses, SameFlash, SameManager
  <1>2. CASE t # s
    <2>1. PICK name \in Causes : name = "empty cost index" /\ name # "none" /\ name \in Harmless
      BY DEF Causes, Harmless
    <2>2. t = Chip(n, i, k)!Assert(s, FALSE, name)
      BY <1>2, <2>1, NothingToErase, Zenon DEF Chip!InsertEvents, Chip!Assert
    <2>3. t \in Drives(n, M) /\ Fails(s, t)
      BY <2>1, <2>2, Failed, Zenon
    <2> QED BY <2>3 DEF Fails, Pauses
  <1> QED BY <1>1, <1>2

LEMMA Replenishes ==
    ASSUME NEW n \in Nat \ {0}, NEW i, NEW k, NEW M, NEW s \in Drives(n, M), s.invalid_list = << >>,
           NEW t, t = Chip(n, i, k)!Replenished(s)
    PROVE  t \in Drives(n, M) /\ Pauses(s, t)
  <1>1. CASE t = s
    BY <1>1, StickySame DEF Pauses, SameFlash, SameManager
  <1>2. CASE t # s
    <2>1. t = Chip(n, i, k)!InsertEvents(s)
      BY <1>2 DEF Chip!Replenished
    <2> QED BY <2>1, Inserted
  <1> QED BY <1>1, <1>2

\* Block_manager::get_free_block hands out block b: the next one never used, or
\* the one erased first.
Takes(n, s, t, b) ==
    \/ /\ s.simpleCurrentFree < PlaneSize * n /\ b = s.simpleCurrentFree
       /\ t.simpleCurrentFree = s.simpleCurrentFree + 1 /\ t.free_list = s.free_list
    \/ /\ s.simpleCurrentFree >= PlaneSize * n /\ s.free_list # << >> /\ b = Head(s.free_list)
       /\ t.simpleCurrentFree = s.simpleCurrentFree /\ t.free_list = Tail(s.free_list)
Allocates(n, s, t, b, type) ==
    /\ SameFlash(s, t) /\ t.map = s.map /\ t.invalid_list = s.invalid_list /\ Sticky(s, t)
    /\ t.log_active = (IF type = "DATA" THEN s.log_active ELSE s.log_active + 1)
    /\ t.data_active = (IF type = "DATA" THEN s.data_active + 1 ELSE s.data_active)
    /\ t.abort = "none" => Takes(n, s, t, b)

LEMMA TakesNext ==
    ASSUME NEW n \in Nat \ {0}, NEW i, NEW k, NEW M, NEW s \in Drives(n, M),
           NEW b, b = Chip(n, i, k)!NextFree(s), NEW t, t = Chip(n, i, k)!TakeNextFree(s)
    PROVE  /\ b \in BlocksOf(n) /\ t \in Drives(n, M)
           /\ SameFlash(s, t) /\ t.map = s.map /\ t.invalid_list = s.invalid_list /\ Sticky(s, t)
           /\ t.log_active = s.log_active /\ t.data_active = s.data_active
           /\ t.abort = "none" => Takes(n, s, t, b)
  <1>1. PICK m \in Nat \ {0} : m = PlaneSize * n
    BY Geometry
  <1>2. BlocksOf(n) = 0 .. m - 1 /\ Chip(n, i, k)!NumBlocks = m
    BY <1>1 DEF BlocksOf, Chip!NumBlocks
  <1>3. s.simpleCurrentFree \in Nat /\ s.free_list \in Seq(BlocksOf(n))
    BY DEF Drives
  <1>4. CASE s.simpleCurrentFree < m
    <2>1. b = s.simpleCurrentFree
      BY <1>2, <1>4 DEF Chip!NextFree
    <2>0. PICK c \in Nat : c = s.simpleCurrentFree + 1
      BY <1>3
    <2>2. t = [s EXCEPT !.simpleCurrentFree = c]
      BY <1>2, <1>4, <2>0 DEF Chip!TakeNextFree
    <2>3. /\ t \in Drives(n, M) /\ SameFlash(s, t) /\ t.map = s.map /\ t.invalid_list = s.invalid_list
          /\ t.abort = s.abort /\ t.log_active = s.log_active /\ t.data_active = s.data_active
          /\ t.simpleCurrentFree = c /\ t.free_list = s.free_list
      BY <2>2 DEF Drives, SameFlash
    <2>4. Sticky(s, t)
      BY <2>3, StickySame
    <2>5. Takes(n, s, t, b)
      BY <1>1, <1>4, <2>0, <2>1, <2>3 DEF Takes
    <2>6. b \in BlocksOf(n)
      BY <1>2, <1>3, <1>4, <2>1
    <2> QED BY <2>3, <2>4, <2>5, <2>6
  <1>5. CASE ~(s.simpleCurrentFree < m) /\ s.free_list = << >>
    <2>1. b = 0
      BY <1>2, <1>5 DEF Chip!NextFree
    <2>2. PICK name \in Causes : name = "no free block" /\ name # "none" /\ name \in Harmless
      BY DEF Causes, Harmless
    <2>4. t = Chip(n, i, k)!Assert(s, FALSE, name)
      <3>1. ~(s.simpleCurrentFree < Chip(n, i, k)!NumBlocks) /\ s.free_list = << >>
        BY <1>2, <1>5
      <3> QED BY <2>2, <3>1, Zenon DEF Chip!TakeNextFree
    <2>5. t \in Drives(n, M) /\ Fails(s, t)
      BY <2>2, <2>4, Failed, Zenon
    <2>6. /\ SameFlash(s, t) /\ t.map = s.map /\ t.invalid_list = s.invalid_list /\ Sticky(s, t)
          /\ t.log_active = s.log_active /\ t.data_active = s.data_active /\ t.abort # "none"
      BY <2>5 DEF Fails, SameManager
    <2>7. b \in BlocksOf(n)
      BY <1>2, <2>1
    <2> QED BY <2>5, <2>6, <2>7
  <1>6. CASE ~(s.simpleCurrentFree < m) /\ s.free_list # << >>
    <2>1. b = Head(s.free_list)
      BY <1>2, <1>6 DEF Chip!NextFree
    <2>2. PICK q \in Seq(BlocksOf(n)) : q = Tail(s.free_list)
      BY <1>3, <1>6, HeadTailProperties
    <2>3. t = [s EXCEPT !.free_list = q]
      BY <1>2, <1>6, <2>2 DEF Chip!TakeNextFree
    <2>4. /\ t \in Drives(n, M) /\ SameFlash(s, t) /\ t.map = s.map /\ t.invalid_list = s.invalid_list
          /\ t.abort = s.abort /\ t.log_active = s.log_active /\ t.data_active = s.data_active
          /\ t.simpleCurrentFree = s.simpleCurrentFree /\ t.free_list = q
      BY <2>3 DEF Drives, SameFlash
    <2>5. Sticky(s, t)
      BY <2>4, StickySame
    <2>6. s.simpleCurrentFree >= PlaneSize * n
      BY <1>1, <1>3, <1>6
    <2>7. Takes(n, s, t, b)
      BY <1>6, <2>1, <2>2, <2>4, <2>6 DEF Takes
    <2>8. b \in BlocksOf(n)
      BY <1>3, <1>6, <2>1, HeadTailProperties
    <2> QED BY <2>4, <2>5, <2>7, <2>8
  <1> QED BY <1>4, <1>5, <1>6

LEMMA Counts ==
    ASSUME NEW n \in Nat \ {0}, NEW i, NEW k, NEW M, NEW s \in Drives(n, M), NEW type,
           NEW t, t = Chip(n, i, k)!CountBlock(s, type)
    PROVE  /\ t \in Drives(n, M) /\ SameFlash(s, t) /\ t.map = s.map /\ Sticky(s, t)
           /\ t.simpleCurrentFree = s.simpleCurrentFree /\ t.free_list = s.free_list
           /\ t.invalid_list = s.invalid_list
           /\ t.log_active = (IF type = "DATA" THEN s.log_active ELSE s.log_active + 1)
           /\ t.data_active = (IF type = "DATA" THEN s.data_active + 1 ELSE s.data_active)
  <1>1. CASE type = "DATA"
    <2>0. PICK c \in Int : c = s.data_active + 1
      BY DEF Drives
    <2>1. t = [s EXCEPT !.data_active = c]
      BY <1>1, <2>0 DEF Chip!CountBlock
    <2>2. /\ t \in Drives(n, M) /\ SameFlash(s, t) /\ t.map = s.map /\ t.abort = s.abort
          /\ t.simpleCurrentFree = s.simpleCurrentFree /\ t.free_list = s.free_list
          /\ t.invalid_list = s.invalid_list
          /\ t.log_active = s.log_active /\ t.data_active = c
      BY <2>1 DEF Drives, SameFlash
    <2> QED BY <1>1, <2>0, <2>2, StickySame
  <1>2. CASE type # "DATA"
    <2>1. PICK u : u = Chip(n, i, k)!Assert(s, s.log_active \in 0 .. Chip(n, i, k)!MaxLogBlocks,
                                          "too many log blocks")
      BY Zenon
    <2>2. u \in Drives(n, M) /\ SameFlash(s, u) /\ SameManager(s, u) /\ u.map = s.map /\ Sticky(s, u)
      <3>1. CASE u = s
        BY <3>1, StickySame DEF SameFlash, SameManager
      <3>2. CASE u # s
        <4>1. PICK name \in Causes : /\ name = "too many log blocks" /\ name # "none"
                                    /\ name \in Harmless
          BY DEF Causes, Harmless
        <4>2. u = Chip(n, i, k)!Assert(s, FALSE, name)
          BY <2>1, <3>2, <4>1, Zenon DEF Chip!Assert
        <4>3. u \in Drives(n, M) /\ Fails(s, u)
          BY <4>1, <4>2, Failed, Zenon
        <4> QED BY <4>3 DEF Fails
      <3> QED BY <3>1, <3>2
    <2>3. PICK c \in Int : c = u.log_active + 1
      BY <2>2 DEF Drives
    <2>4. t = [u EXCEPT !.log_active = c]
      BY <1>2, <2>1, <2>3, Zenon DEF Chip!CountBlock
    <2>5. /\ t \in Drives(n, M) /\ SameFlash(u, t) /\ t.map = u.map /\ t.abort = u.abort
          /\ t.simpleCurrentFree = u.simpleCurrentFree /\ t.free_list = u.free_list
          /\ t.invalid_list = u.invalid_list
          /\ t.log_active = c /\ t.data_active = u.data_active
      BY <2>2, <2>4 DEF Drives, SameFlash
    <2>6. Sticky(s, t)
      BY <2>2, <2>5, StickyVia
    <2> QED BY <1>2, <2>2, <2>3, <2>5, <2>6 DEF SameFlash, SameManager
  <1> QED BY <1>1, <1>2

LEMMA Allocated ==
    ASSUME NEW n \in Nat \ {0}, NEW i, NEW k, NEW M, NEW s \in Drives(n, M), s.invalid_list = << >>,
           NEW type, NEW g, g = Chip(n, i, k)!GetFreeBlock(s, type)
    PROVE  g.block \in BlocksOf(n) /\ g.state \in Drives(n, M) /\ Allocates(n, s, g.state, g.block, type)
  <1>1. PICK u : u = Chip(n, i, k)!Replenished(s)
    OBVIOUS
  <1>2. u \in Drives(n, M) /\ Pauses(s, u)
    BY <1>1, Replenishes
  <1>3. PICK b : b = Chip(n, i, k)!NextFree(u)
    OBVIOUS
  <1>4. PICK w : w = Chip(n, i, k)!TakeNextFree(u)
    OBVIOUS
  <1>5. /\ b \in BlocksOf(n) /\ w \in Drives(n, M)
        /\ SameFlash(u, w) /\ w.map = u.map /\ w.invalid_list = u.invalid_list /\ Sticky(u, w)
        /\ w.log_active = u.log_active /\ w.data_active = u.data_active
        /\ w.abort = "none" => Takes(n, u, w, b)
    BY <1>2, <1>3, <1>4, TakesNext
  <1>6. PICK t : t = Chip(n, i, k)!CountBlock(w, type)
    OBVIOUS
  <1>7. /\ t \in Drives(n, M) /\ SameFlash(w, t) /\ t.map = w.map /\ Sticky(w, t)
        /\ t.simpleCurrentFree = w.simpleCurrentFree /\ t.free_list = w.free_list
        /\ t.invalid_list = w.invalid_list
        /\ t.log_active = (IF type = "DATA" THEN w.log_active ELSE w.log_active + 1)
        /\ t.data_active = (IF type = "DATA" THEN w.data_active + 1 ELSE w.data_active)
    BY <1>5, <1>6, Counts
  <1>8. g.block = b /\ g.state = t
    BY <1>1, <1>3, <1>4, <1>6 DEF Chip!GetFreeBlock, Chip!HandOut
  <1>9. Sticky(s, t) /\ (t.abort = "none" => w.abort = "none")
    <2>1. Sticky(s, u) /\ Sticky(u, w) /\ Sticky(w, t)
      BY <1>2, <1>5, <1>7 DEF Pauses
    <2> QED BY <2>1, StickyChain
  <1>10. t.abort = "none" => Takes(n, s, t, b)
    BY <1>2, <1>5, <1>7, <1>9 DEF Takes, Pauses, SameManager
  <1>11. SameFlash(s, t) /\ t.map = s.map /\ t.invalid_list = s.invalid_list
    BY <1>2, <1>5, <1>7 DEF Pauses, SameManager, SameFlash
  <1>12. /\ t.log_active = (IF type = "DATA" THEN s.log_active ELSE s.log_active + 1)
         /\ t.data_active = (IF type = "DATA" THEN s.data_active + 1 ELSE s.data_active)
    BY <1>2, <1>5, <1>7 DEF Pauses, SameManager
  <1>13. Allocates(n, s, t, b, type)
    BY <1>9, <1>10, <1>11, <1>12 DEF Allocates
  <1> QED BY <1>5, <1>7, <1>8, <1>13

\* Block_manager::erase_and_invalidate and promote_block.
Releases(n, s, t, b, type) ==
    /\ t.map = s.map /\ t.simpleCurrentFree = s.simpleCurrentFree /\ t.invalid_list = s.invalid_list
    /\ t.free_list = Append(s.free_list, b) /\ Sticky(s, t)
    /\ t.log_active = (IF type = "DATA" THEN s.log_active ELSE s.log_active - 1)
    /\ t.data_active = (IF type = "DATA" THEN s.data_active - 1 ELSE s.data_active)
    /\ t.abort = "none" => Erases(n, s, t, b)

LEMMA SameErases ==
    ASSUME NEW n, NEW s, NEW t, NEW u, NEW b, SameFlash(t, u), Erases(n, s, t, b)
    PROVE  Erases(n, s, u, b)
  BY DEF SameFlash, Erases, Fits, FreeIn, PageAt, Used

LEMMA Released ==
    ASSUME NEW n \in Nat \ {0}, NEW i, NEW k, NEW M, NEW s \in Drives(n, M), NEW b \in BlocksOf(n), NEW type,
           NEW t, t = Chip(n, i, k)!EraseAndInvalidate(s, b, type)
    PROVE  t \in Drives(n, M) /\ Releases(n, s, t, b, type)
  <1>1. PICK u : u = Chip(n, i, k)!PlaneErase(s, b)
    OBVIOUS
  <1>2. u \in Drives(n, M) /\ Erasing(n, s, u, b)
    BY <1>1, Erased
  <1>3. PICK q \in Seq(BlocksOf(n)) : q = Append(u.free_list, b)
    <2>1. u.free_list \in Seq(BlocksOf(n))
      BY <1>2 DEF Drives
    <2> QED BY <2>1, AppendProperties
  <1>4. PICK w : w = [u EXCEPT !.free_list = q]
    OBVIOUS
  <1>5. /\ w \in Drives(n, M) /\ SameFlash(u, w) /\ w.map = u.map /\ w.abort = u.abort
        /\ w.simpleCurrentFree = u.simpleCurrentFree /\ w.free_list = q
        /\ w.invalid_list = u.invalid_list
        /\ w.log_active = u.log_active /\ w.data_active = u.data_active
    BY <1>2, <1>4 DEF Drives, SameFlash
  <1>6. t = IF type = "DATA" THEN [w EXCEPT !.data_active = w.data_active - 1]
            ELSE [w EXCEPT !.log_active = w.log_active - 1]
    BY <1>1, <1>3, <1>4, Zenon DEF Chip!EraseAndInvalidate
  <1>7. /\ t \in Drives(n, M) /\ SameFlash(w, t) /\ t.map = w.map /\ t.abort = w.abort
        /\ t.simpleCurrentFree = w.simpleCurrentFree /\ t.free_list = w.free_list
        /\ t.invalid_list = w.invalid_list
        /\ t.log_active = (IF type = "DATA" THEN w.log_active ELSE w.log_active - 1)
        /\ t.data_active = (IF type = "DATA" THEN w.data_active - 1 ELSE w.data_active)
    <2>1. CASE type = "DATA"
      <3>1. PICK c \in Int : c = w.data_active - 1
        BY <1>5 DEF Drives
      <3>2. t = [w EXCEPT !.data_active = c]
        BY <1>6, <2>1, <3>1
      <3>3. /\ t \in Drives(n, M) /\ SameFlash(w, t) /\ t.map = w.map /\ t.abort = w.abort
            /\ t.simpleCurrentFree = w.simpleCurrentFree /\ t.free_list = w.free_list
            /\ t.invalid_list = w.invalid_list /\ t.log_active = w.log_active /\ t.data_active = c
        BY <1>5, <3>2 DEF Drives, SameFlash
      <3> QED BY <2>1, <3>1, <3>3
    <2>2. CASE type # "DATA"
      <3>1. PICK c \in Int : c = w.log_active - 1
        BY <1>5 DEF Drives
      <3>2. t = [w EXCEPT !.log_active = c]
        BY <1>6, <2>2, <3>1
      <3>3. /\ t \in Drives(n, M) /\ SameFlash(w, t) /\ t.map = w.map /\ t.abort = w.abort
            /\ t.simpleCurrentFree = w.simpleCurrentFree /\ t.free_list = w.free_list
            /\ t.invalid_list = w.invalid_list /\ t.log_active = c /\ t.data_active = w.data_active
        BY <1>5, <3>2 DEF Drives, SameFlash
      <3> QED BY <2>2, <3>1, <3>3
    <2> QED BY <2>1, <2>2
  <1>8. SameFlash(u, t) /\ t.abort = u.abort
    BY <1>5, <1>7 DEF SameFlash
  <1>9. ASSUME t.abort = "none" PROVE Erases(n, s, t, b)
    <2>1. u.abort = "none"
      BY <1>8, <1>9
    <2>2. s.block[b].erases_remaining \in Int
      BY DEF Drives, BlockRec
    <2>3. Erases(n, s, u, b)
      BY <1>2, <2>1, <2>2 DEF Erasing
    <2> QED BY <1>8, <2>3, SameErases
  <1>10. Sticky(s, t) /\ SameManager(s, u) /\ u.map = s.map
    BY <1>2, <1>8, StickyVia DEF Erasing
  <1>11. /\ t.simpleCurrentFree = s.simpleCurrentFree /\ t.invalid_list = s.invalid_list /\ t.map = s.map
         /\ t.free_list = Append(s.free_list, b)
         /\ t.log_active = (IF type = "DATA" THEN s.log_active ELSE s.log_active - 1)
         /\ t.data_active = (IF type = "DATA" THEN s.data_active - 1 ELSE s.data_active)
    BY <1>3, <1>5, <1>7, <1>10 DEF SameManager
  <1> QED BY <1>7, <1>9, <1>10, <1>11 DEF Releases

-----------------------------------------------------------------------------
\* The blocks that are nobody's, and the counters of the block manager, for the
\* layers that give blocks back.
Listed(q, b) == \E j \in 1 .. Len(q) : q[j] = b
Idle(s, b) == b >= s.simpleCurrentFree \/ Listed(s.free_list, b)
Stock(n, s) ==
    /\ s.simpleCurrentFree <= PlaneSize * n /\ s.invalid_list = << >>
    /\ s.simpleCurrentFree = Len(s.free_list) + s.log_active + s.data_active
    /\ \A j \in 1 .. Len(s.free_list) : s.free_list[j] < s.simpleCurrentFree
    /\ \A j, h \in 1 .. Len(s.free_list) : s.free_list[j] = s.free_list[h] => j = h

LEMMA SameStock ==
    ASSUME NEW n, NEW s, NEW t, SameManager(s, t)
    PROVE  (Stock(n, s) => Stock(n, t)) /\ \A b : Idle(t, b) <=> Idle(s, b)
  BY DEF SameManager, Stock, Idle, Listed

\* A block is handed out: it was nobody's, and the others stay what they are.
LEMMA Taken ==
    ASSUME NEW n \in Nat \ {0}, NEW M, NEW s \in Drives(n, M), Stock(n, s), NEW t \in Drives(n, M),
           NEW b \in BlocksOf(n), Takes(n, s, t, b), t.invalid_list = s.invalid_list,
           t.log_active + t.data_active = s.log_active + s.data_active + 1
    PROVE  /\ Stock(n, t) /\ Idle(s, b)
           /\ \A c \in BlocksOf(n) : Idle(t, c) <=> Idle(s, c) /\ c # b
  <1>1. PICK m \in Nat \ {0} : m = PlaneSize * n
    BY Geometry
  <1>2. PICK f \in Nat : f = s.simpleCurrentFree
    BY DEF Drives
  <1>3. PICK g \in Nat : g = t.simpleCurrentFree
    BY DEF Drives
  <1>4. PICK q \in Seq(BlocksOf(n)) : q = s.free_list
    BY DEF Drives
  <1>5. PICK r \in Seq(BlocksOf(n)) : r = t.free_list
    BY DEF Drives
  <1>6. PICK u \in Int : u = s.log_active + s.data_active
    BY DEF Drives
  <1>7. /\ f <= m /\ f = Len(q) + u /\ s.invalid_list = << >>
        /\ \A j \in 1 .. Len(q) : q[j] < f
        /\ \A j, h \in 1 .. Len(q) : q[j] = q[h] => j = h
    <2>1. Len(q) \in Nat /\ s.log_active \in Int /\ s.data_active \in Int
      BY LenProperties DEF Drives
    <2> QED BY <1>1, <1>2, <1>4, <1>6, <2>1 DEF Stock
  <1>8. t.log_active + t.data_active = u + 1 /\ t.log_active \in Int /\ t.data_active \in Int
    BY <1>6 DEF Drives
  <1>9. BlocksOf(n) = 0 .. m - 1
    BY <1>1 DEF BlocksOf
  <1>10. CASE f < m /\ b = f /\ g = f + 1 /\ r = q
    <2>1. Len(r) \in Nat
      BY LenProperties
    <2>2. g <= m /\ g = Len(r) + t.log_active + t.data_active
      BY <1>7, <1>8, <1>10, <2>1
    <2>3. \A j \in 1 .. Len(r) : r[j] < g
      <3>1. ASSUME NEW j \in 1 .. Len(r) PROVE r[j] < g
        <4>1. r[j] \in Int /\ r[j] < f
          BY <1>7, <1>9, <1>10, <2>1, ElementOfSeq
        <4> QED BY <1>10, <4>1
      <3> QED BY <3>1
    <2>4. Stock(n, t)
      BY <1>1, <1>3, <1>5, <1>7, <1>10, <2>2, <2>3 DEF Stock
    <2>5. Idle(s, b)
      BY <1>2, <1>10 DEF Idle
    <2>6. ASSUME NEW c \in BlocksOf(n) PROVE Idle(t, c) <=> Idle(s, c) /\ c # b
      <3>1. c \in Int
        BY <1>9
      <3>2. Listed(q, c) => c # f
        BY <1>7 DEF Listed
      <3> QED BY <1>2, <1>3, <1>4, <1>5, <1>10, <3>1, <3>2 DEF Idle
    <2> QED BY <2>4, <2>5, <2>6
  <1>11. CASE f >= m /\ q # << >> /\ b = Head(q) /\ g = f /\ r = Tail(q)
    <2>1. /\ Len(q) \in Nat \ {0} /\ Len(r) = Len(q) - 1 /\ b = q[1] /\ \A j \in 1 .. Len(r) : r[j] = q[j + 1]
      <3>1. Len(q) \in Nat /\ Len(q) # 0
        BY <1>11, EmptySeq, LenProperties
      <3> QED BY <1>11, <3>1, HeadTailProperties
    <2>2. g <= m /\ g = Len(r) + t.log_active + t.data_active
      BY <1>7, <1>8, <1>11, <2>1
    <2>3. \A j \in 1 .. Len(r) : r[j] < g
      BY <1>7, <1>11, <2>1
    <2>4. ASSUME NEW j \in 1 .. Len(r), NEW h \in 1 .. Len(r), r[j] = r[h] PROVE j = h
      <3>0. r[j] = q[j + 1] /\ r[h] = q[h + 1]
        BY <2>1
      <3>1. q[j + 1] = q[h + 1]
        BY <2>4, <3>0
      <3>3. PICK c \in Nat : c = Len(q) /\ Len(r) = c - 1
        BY <2>1
      <3>4. j + 1 \in 1 .. Len(q) /\ h + 1 \in 1 .. Len(q)
        BY <3>3
      <3>2. j + 1 = h + 1
        BY <1>7, <3>1, <3>4
      <3> QED BY <3>2
    <2>5. Stock(n, t)
      BY <1>1, <1>3, <1>5, <1>7, <2>2, <2>3, <2>4 DEF Stock
    <2>6. Idle(s, b)
      <3>1. 1 \in 1 .. Len(q)
        BY <2>1
      <3> QED BY <1>4, <2>1, <3>1 DEF Idle, Listed
    <2>7. ASSUME NEW c \in BlocksOf(n) PROVE Idle(t, c) <=> Idle(s, c) /\ c # b
      <3>1. c \in Int /\ c < f
        BY <1>9, <1>11
      <3>2. Listed(r, c) => Listed(q, c) /\ c # b
        <4>1. ASSUME NEW j \in 1 .. Len(r), r[j] = c PROVE Listed(q, c) /\ c # b
          <5>1. j + 1 \in 1 .. Len(q) /\ q[j + 1] = c /\ 1 \in 1 .. Len(q) /\ j + 1 # 1
            BY <2>1, <4>1
          <5> QED BY <1>7, <2>1, <5>1 DEF Listed
        <4> QED BY <4>1 DEF Listed
      <3>3. Listed(q, c) /\ c # b => Listed(r, c)
        <4>1. ASSUME NEW j \in 1 .. Len(q), q[j] = c, c # b PROVE Listed(r, c)
          <5>1. j # 1 /\ j - 1 \in 1 .. Len(r)
            BY <2>1, <4>1
          <5>2. r[j - 1] = q[(j - 1) + 1]
            BY <2>1, <5>1
          <5>3. r[j - 1] = c
            BY <4>1, <5>2
          <5> QED BY <5>1, <5>3 DEF Listed
        <4> QED BY <4>1 DEF Listed
      <3>4. ~(c >= f)
        BY <3>1
      <3> QED BY <1>2, <1>3, <1>4, <1>5, <1>11, <3>2, <3>3, <3>4 DEF Idle
    <2> QED BY <2>5, <2>6, <2>7
  <1> QED BY <1>1, <1>2, <1>3, <1>4, <1>5, <1>10, <1>11 DEF Takes

\* A block is given back.
LEMMA Returned ==
    ASSUME NEW n \in Nat \ {0}, NEW M, NEW s \in Drives(n, M), Stock(n, s), NEW t \in Drives(n, M),
           NEW b \in BlocksOf(n), ~Idle(s, b), t.simpleCurrentFree = s.simpleCurrentFree,
           t.free_list = Append(s.free_list, b), t.invalid_list = s.invalid_list,
           t.log_active + t.data_active = s.log_active + s.data_active - 1
    PROVE  /\ Stock(n, t)
           /\ \A c \in BlocksOf(n) : Idle(t, c) <=> Idle(s, c) \/ c = b
  <1>2. PICK f \in Nat : f = s.simpleCurrentFree
    BY DEF Drives
  <1>4. PICK q \in Seq(BlocksOf(n)) : q = s.free_list
    BY DEF Drives
  <1>5. PICK r \in Seq(BlocksOf(n)) : r = t.free_list
    BY DEF Drives
  <1>6. PICK u \in Int : u = s.log_active + s.data_active
    BY DEF Drives
  <1>7. /\ f <= PlaneSize * n /\ f = Len(q) + u /\ s.invalid_list = << >>
        /\ \A j \in 1 .. Len(q) : q[j] < f
        /\ \A j, h \in 1 .. Len(q) : q[j] = q[h] => j = h
    <2>1. Len(q) \in Nat /\ s.log_active \in Int /\ s.data_active \in Int
      BY LenProperties DEF Drives
    <2> QED BY <1>2, <1>4, <1>6, <2>1 DEF Stock
  <1>8. t.log_active + t.data_active = u - 1 /\ t.log_active \in Int /\ t.data_active \in Int
    BY <1>6 DEF Drives
  <1>9. /\ Len(q) \in Nat /\ Len(r) = Len(q) + 1 /\ r[Len(r)] = b /\ \A j \in 1 .. Len(q) : r[j] = q[j]
    <2>1. r = Append(q, b)
      BY <1>4, <1>5
    <2>2. Len(q) \in Nat
      BY LenProperties
    <2> QED BY <2>1, <2>2, AppendProperties
  <1>10. b \in Int /\ b < f /\ ~Listed(q, b)
    <2>1. b \in Int
      BY Geometry DEF BlocksOf
    <2> QED BY <1>2, <1>4, <2>1 DEF Idle
  <1>11. \A j \in 1 .. Len(r) : j \in 1 .. Len(q) \/ j = Len(r)
    BY <1>9
  <1>12. \A j \in 1 .. Len(r) : r[j] < f
    BY <1>7, <1>9, <1>10, <1>11
  <1>13. ASSUME NEW j \in 1 .. Len(r), NEW h \in 1 .. Len(r), r[j] = r[h] PROVE j = h
    <2>1. CASE j \in 1 .. Len(q) /\ h \in 1 .. Len(q)
      BY <1>7, <1>9, <1>13, <2>1
    <2>2. CASE j = Len(r) /\ h = Len(r)
      BY <2>2
    <2>3. CASE j \in 1 .. Len(q) /\ h = Len(r)
      BY <1>9, <1>10, <1>13, <2>3 DEF Listed
    <2>4. CASE j = Len(r) /\ h \in 1 .. Len(q)
      BY <1>9, <1>10, <1>13, <2>4 DEF Listed
    <2> QED BY <1>11, <2>1, <2>2, <2>3, <2>4
  <1>14. f = Len(r) + t.log_active + t.data_active
    BY <1>7, <1>8, <1>9
  <1>15. Stock(n, t)
    BY <1>2, <1>5, <1>7, <1>12, <1>13, <1>14 DEF Stock
  <1>16. ASSUME NEW c PROVE Listed(r, c) <=> Listed(q, c) \/ c = b
    <2>1. Listed(r, c) => Listed(q, c) \/ c = b
      BY <1>9, <1>11 DEF Listed
    <2>2. Listed(q, c) => Listed(r, c)
      <3>1. \A j \in 1 .. Len(q) : j \in 1 .. Len(r)
        BY <1>9
      <3> QED BY <1>9, <3>1 DEF Listed
    <2>3. Listed(r, b)
      <3>1. Len(r) \in 1 .. Len(r)
        BY <1>9
      <3> QED BY <1>9, <3>1 DEF Listed
    <2> QED BY <2>1, <2>2, <2>3
  <1>17. \A c \in BlocksOf(n) : Idle(t, c) <=> Idle(s, c) \/ c = b
    BY <1>4, <1>5, <1>16 DEF Idle
  <1> QED BY <1>15, <1>17

-----------------------------------------------------------------------------
\* What every layer's drive shows: types, and blocks that tell the truth.
Bounded(n, s) ==
    /\ s.simpleCurrentFree <= PlaneSize * n
    /\ s.log_active <= PlaneSize * n /\ s.data_active <= PlaneSize * n
    /\ \A x \in AddressesOf(n) : s.data[x] \in LogicalPages \cup {None}

LEMMA Typed ==
    ASSUME NEW n \in Nat \ {0}, NEW i, NEW k, NEW M, drive \in Drives(n, M), Fits(n, drive),
           Bounded(n, drive), live \subseteq LogicalPages, lost \subseteq LogicalPages
    PROVE  Chip(n, i, k)!FlashTypeOK /\ Chip(n, i, k)!ActiveWithinDrive
  <1>1. PICK s \in Drives(n, M) : s = drive
    OBVIOUS
  <1>2. PICK B : B = BlocksOf(n)
    OBVIOUS
  <1>3. Chip(n, i, k)!Blocks = BlocksOf(n) /\ Chip(n, i, k)!Planes = PlanesOf(n)
        /\ Chip(n, i, k)!Addresses = AddressesOf(n) /\ Chip(n, i, k)!LogicalPages = LogicalPages
        /\ Chip(n, i, k)!NumBlocks = PlaneSize * n /\ Chip(n, i, k)!None = None
        /\ Chip(n, i, k)!Pages = Pages /\ Chip(n, i, k)!PageStates = PageStates
        /\ Chip(n, i, k)!Aborts = Causes /\ Chip(n, i, k)!BlockStates = {"FREE", "ACTIVE", "INACTIVE"}
    BY Zenon DEF Chip!Blocks, Chip!Planes, Chip!Addresses, Chip!LogicalPages, Chip!NumBlocks, Chip!None,
       Chip!Pages, Chip!PageStates, Chip!Aborts, Chip!BlockStates, BlocksOf, PlanesOf, AddressesOf, LogicalPages, None, Pages,
       PageStates, Causes
  <1>4. s.block \in [BlocksOf(n) -> Chip(n, i, k)!BlockType]
    <2>1. ASSUME NEW b \in BlocksOf(n) PROVE s.block[b] \in Chip(n, i, k)!BlockType
      <3>1. PICK blk \in BlockRec : blk = s.block[b]
        BY DEF Drives
      <3>2. BlockFits(blk)
        BY <1>1, <3>1 DEF Fits
      <3>3. Cardinality(Filled(blk)) \in 0 .. BlockSize /\ Cardinality(In(blk, "INVALID")) \in 0 .. BlockSize
        BY PagesFinite, Sizes DEF Filled, In
      <3>4. blk.pages_valid \in 0 .. BlockSize /\ blk.pages_invalid \in 0 .. BlockSize
            /\ blk.erases_remaining \in 0 .. BlockErases
        <4>1. PICK y \in 0 .. BlockSize : y = Cardinality(Filled(blk))
          BY <3>3
        <4>2. PICK z \in 0 .. BlockSize : z = Cardinality(In(blk, "INVALID"))
          BY <3>3
        <4>3. blk.pages_valid \in 0 .. y /\ blk.pages_invalid = z /\ blk.erases_remaining \in 0 .. BlockErases
          BY <3>2, <4>1, <4>2 DEF BlockFits
        <4> QED BY <4>3, Sizes
      <3>5. blk \in Chip(n, i, k)!BlockType
        BY <1>3, <3>4 DEF Chip!BlockType, BlockRec
      <3> QED BY <3>1, <3>5
    <2> QED BY <2>1 DEF Drives
  <1>5. s.plane \in [PlanesOf(n) -> Chip(n, i, k)!PlaneType]
    <2>1. ASSUME NEW p \in PlanesOf(n) PROVE s.plane[p] \in Chip(n, i, k)!PlaneType
      <3>1. PICK r \in PlaneRec : r = s.plane[p]
        BY DEF Drives
      <3>2. r.free_blocks >= Cardinality(FreeIn(n, s, p)) /\ Cardinality(FreeIn(n, s, p)) \in Nat
        BY <1>1, <3>1, FreeFinite DEF Fits
      <3>3. r.free_blocks \in Nat
        BY <3>2 DEF PlaneRec
      <3>4. r \in Chip(n, i, k)!PlaneType
        BY <3>3 DEF Chip!PlaneType, PlaneRec
      <3> QED BY <3>1, <3>4
    <2> QED BY <2>1 DEF Drives
  <1>6. s.data \in [AddressesOf(n) -> LogicalPages \cup {None}]
    BY <1>1 DEF Drives, Bounded
  <1>7. s.simpleCurrentFree \in 0 .. PlaneSize * n
    <2>1. PlaneSize * n \in Nat /\ s.simpleCurrentFree \in Nat
      BY Geometry DEF Drives
    <2> QED BY <1>1, <2>1 DEF Bounded
  <1>8. s.abort \in Causes /\ s.free_list \in Seq(BlocksOf(n)) /\ s.invalid_list \in Seq(BlocksOf(n))
    BY DEF Drives
  <1>9. s.log_active \in Int /\ s.data_active \in Int
    BY DEF Drives
  <1>10. lost \subseteq Chip(n, i, k)!Everything
    BY <1>3 DEF Chip!Everything
  <1> QED BY <1>1, <1>3, <1>4, <1>5, <1>6, <1>7, <1>8, <1>9, <1>10, Zenon
          DEF Chip!FlashTypeOK, Chip!ActiveWithinDrive, Bounded

LEMMA Truthful ==
    ASSUME NEW n \in Nat \ {0}, NEW i, NEW k, Fits(n, drive)
    PROVE  Chip(n, i, k)!BlockStateMatchesPages
  <1>1. Chip(n, i, k)!Blocks = BlocksOf(n) /\ Chip(n, i, k)!Pages = Pages
    BY Zenon DEF Chip!Blocks, Chip!NumBlocks, Chip!Pages, BlocksOf, Pages
  <1>2. ASSUME NEW b \in BlocksOf(n)
        PROVE  /\ (drive.block[b].state = "FREE") = ({p \in Pages : drive.block[b].page[p] = "EMPTY"} = Pages)
               /\ (drive.block[b].state = "INACTIVE") = ({p \in Pages : drive.block[b].page[p] = "INVALID"} = Pages)
               /\ drive.block[b].pages_invalid = Cardinality({p \in Pages : drive.block[b].page[p] = "INVALID"})
    <2>1. PICK blk : blk = drive.block[b]
      OBVIOUS
    <2>2. BlockFits(blk)
      BY <2>1 DEF Fits
    <2>3. (blk.state = "FREE") <=> ({p \in Pages : blk.page[p] = "EMPTY"} = Pages)
      BY <2>2 DEF BlockFits
    <2>4. (blk.state = "INACTIVE") <=> ({p \in Pages : blk.page[p] = "INVALID"} = Pages)
      BY <2>2 DEF BlockFits
    <2>5. blk.pages_invalid = Cardinality({p \in Pages : blk.page[p] = "INVALID"})
      BY <2>2, Zenon DEF BlockFits, In
    <2> QED BY <2>1, <2>3, <2>4, <2>5, Zenon
  <1>3. ASSUME NEW S PROVE Chip(n, i, k)!Cardinality(S) = Cardinality(S)
    BY DEF Chip!Cardinality, Cardinality
  <1> QED BY <1>1, <1>2, <1>3, Zenon DEF Chip!BlockStateMatchesPages

\* A drive that has just been made.
IsNew(n, s, m) ==
    /\ Fits(n, s) /\ s.abort = "none" /\ s.simpleCurrentFree = 0 /\ s.map = m
    /\ s.free_list = << >> /\ s.invalid_list = << >> /\ s.log_active = 0 /\ s.data_active = 0
    /\ \A x \in AddressesOf(n) : PageAt(s, x) = "EMPTY" /\ s.data[x] = None
    /\ \A b \in BlocksOf(n) : Used(s, b) = 0

LEMMA NewDriveFits ==
    ASSUME NEW n \in Nat \ {0}, NEW i, NEW k, NEW M, NEW m \in M, NEW s, s = Chip(n, i, k)!NewDrive(m)
    PROVE  s \in Drives(n, M) /\ IsNew(n, s, m)
  <1>1. PICK blk : blk = Chip(n, i, k)!NewBlock
    OBVIOUS
  <1>2. /\ BlockFits(blk) /\ blk.pages_valid = 0 /\ blk.state = "FREE"
        /\ \A p \in Pages : blk.page[p] = "EMPTY"
    BY <1>1, NewBlockFits
  <1>3. blk \in BlockRec
    BY <1>2 DEF BlockFits
  <1>4. PICK pl \in PlaneRec : pl = Chip(n, i, k)!NewPlane /\ pl.free_blocks = PlaneSize
    <2>1. Chip(n, i, k)!NewPlane = [free_blocks |-> PlaneSize, least_worn |-> 0]
      BY Zenon DEF Chip!NewPlane
    <2>2. PlaneSize \in Int /\ 0 \in 0 .. PlaneSize - 1
      BY Sizes
    <2>3. PICK pl : pl = [free_blocks |-> PlaneSize, least_worn |-> 0]
      OBVIOUS
    <2>4. pl \in PlaneRec /\ pl.free_blocks = PlaneSize
      BY <2>2, <2>3 DEF PlaneRec
    <2> QED BY <2>1, <2>3, <2>4, Zenon
  <1>5. s = [block |-> [b \in BlocksOf(n) |-> blk], plane |-> [p \in PlanesOf(n) |-> pl],
             data |-> [a \in AddressesOf(n) |-> None], abort |-> "none", simpleCurrentFree |-> 0,
             free_list |-> << >>, invalid_list |-> << >>, log_active |-> 0, data_active |-> 0, map |-> m]
    BY <1>1, <1>4, Zenon DEF Chip!NewDrive, Chip!Blocks, Chip!Planes, Chip!Addresses, Chip!NumBlocks, Chip!None,
       BlocksOf, PlanesOf, AddressesOf, None
  <1>6. /\ s.block = [b \in BlocksOf(n) |-> blk] /\ s.plane = [p \in PlanesOf(n) |-> pl]
        /\ s.data = [a \in AddressesOf(n) |-> None]
        /\ s.abort = "none" /\ s.simpleCurrentFree = 0 /\ s.map = m
        /\ s.free_list = << >> /\ s.invalid_list = << >> /\ s.log_active = 0 /\ s.data_active = 0
    BY <1>5
  <1>7. s \in Drives(n, M)
    BY <1>3, <1>5 DEF Drives, Causes, None
  <1>8. \A p \in PlanesOf(n) : s.plane[p].free_blocks >= Cardinality(FreeIn(n, s, p))
    <2> SUFFICES ASSUME NEW p \in PlanesOf(n) PROVE PlaneSize >= Cardinality(FreeIn(n, s, p))
      BY <1>4, <1>6
    <2>1. PICK z \in Nat : z = p * PlaneSize
      BY Sizes, Times DEF PlanesOf
    <2>2. FreeIn(n, s, p) \subseteq z .. z + PlaneSize - 1
      <3> SUFFICES ASSUME NEW b \in BlocksOf(n), PlaneOf(b) = p PROVE b \in z .. z + PlaneSize - 1
        BY DEF FreeIn
      <3>1. b \in Nat
        BY Geometry DEF BlocksOf
      <3>2. b % PlaneSize \in 0 .. PlaneSize - 1 /\ b = (b \div PlaneSize) * PlaneSize + (b % PlaneSize)
        BY <3>1, Sizes, Split
      <3>3. b = z + (b % PlaneSize)
        BY <2>1, <3>2 DEF PlaneOf
      <3>4. PICK y \in 0 .. PlaneSize - 1 : y = b % PlaneSize
        BY <3>2
      <3> QED BY <3>3, <3>4, Sizes
    <2>3. IsFiniteSet(z .. z + PlaneSize - 1) /\ Cardinality(z .. z + PlaneSize - 1) = PlaneSize
      <3>1. PICK y \in Int : y = z + PlaneSize - 1 /\ z \in Int /\ y - z + 1 = PlaneSize /\ z <= y
        BY Sizes
      <3>2. IsFiniteSet(z .. y) /\ Cardinality(z .. y) = IF z > y THEN 0 ELSE y - z + 1
        BY <3>1, FS_Interval
      <3> QED BY <3>1, <3>2
    <2>4. Cardinality(FreeIn(n, s, p)) <= Cardinality(z .. z + PlaneSize - 1)
      BY <2>2, <2>3, FS_Subset
    <2>5. Cardinality(FreeIn(n, s, p)) \in Nat
      BY FreeFinite
    <2> QED BY <2>3, <2>4, <2>5, Sizes
  <1>9. \A b \in BlocksOf(n) : s.block[b] = blk
    BY <1>6
  <1>10. Fits(n, s)
    BY <1>2, <1>8, <1>9 DEF Fits
  <1>11. \A x \in AddressesOf(n) : PageAt(s, x) = "EMPTY" /\ s.data[x] = None
    BY <1>2, <1>6, <1>9, Geometry DEF PageAt
  <1>12. \A b \in BlocksOf(n) : Used(s, b) = 0
    BY <1>2, <1>9 DEF Used
  <1> QED BY <1>6, <1>7, <1>10, <1>11, <1>12 DEF IsNew

\* A drive that ends in an assertion.
LEMMA Abandoned ==
    ASSUME NEW n, NEW M, NEW s \in Drives(n, M), NEW c \in Harmless, NEW t, t = [s EXCEPT !.abort = c]
    PROVE  t \in Drives(n, M) /\ SameFlash(s, t) /\ SameManager(s, t) /\ t.map = s.map /\ t.abort = c
  BY DEF Drives, SameFlash, SameManager, Causes, Harmless

-----------------------------------------------------------------------------
\* BAST.  A block is nobody's, a log block or a data block.
BastLog(n) == [block : BlockSlots(n), pages : [Pages -> Pages \cup {None}]]
BastMaps(n) == [log_map : [LBAs -> BastLog(n)], data_list : [LBAs -> BlockSlots(n)]]
BastDrives == Drives(BastPlanes, BastMaps(BastPlanes))

LogOf(s, l) == s.map.log_map[l].block
OffsetOf(s, l, p) == s.map.log_map[l].pages[p]
DataOf(s, l) == s.map.data_list[l]
Cell(s, b, p) == PageAt(s, Linear(b, p))
Datum(s, b, p) == s.data[Linear(b, p)]
Stored(s, b, p, v) == Cell(s, b, p) = "VALID" /\ Datum(s, b, p) = v

\* The logical blocks that have a block, in a table; and whose blocks are whose,
\* with J the blocks that are nobody's, f the log blocks and d the data blocks.
Held(f) == {l \in LBAs : f[l] # None}
Owns(n, J, f, d, x, y) ==
    /\ \A b \in BlocksOf(n) : b \in J \/ \E l \in LBAs : b = f[l] \/ b = d[l]
    /\ \A l \in LBAs : f[l] # None => f[l] \notin J /\ \A k \in LBAs : d[k] # f[l] /\ (f[k] = f[l] => k = l)
    /\ \A l \in LBAs : d[l] # None => d[l] \notin J /\ \A k \in LBAs : d[k] = d[l] => k = l
    /\ x = Cardinality(Held(f)) /\ y = Cardinality(Held(d))
Idles(n, s) == {b \in BlocksOf(n) : Idle(s, b)}
LogTable(s) == [l \in LBAs |-> LogOf(s, l)]

\* A block that is nobody's is erased.
BastFlash(s) ==
    /\ s \in BastDrives /\ Fits(BastPlanes, s) /\ Stock(BastPlanes, s)
    /\ \A x \in AddressesOf(BastPlanes) : s.data[x] \in LogicalPages \cup {None}
    /\ \A b \in BlocksOf(BastPlanes) :
           Idle(s, b) => Used(s, b) = 0 /\ \A p \in Pages : Cell(s, b, p) = "EMPTY"

\* A log block is filled from its first page, and its page map leads to pages that
\* hold what is alive; what is alive and in no log block is in the data block.
BlockKept(s, alive, l) ==
    /\ LogOf(s, l) = None => \A p \in Pages : OffsetOf(s, l, p) = None
    /\ LogOf(s, l) # None => \A p \in Pages : Cell(s, LogOf(s, l), p) = "EMPTY" <=> p >= Used(s, LogOf(s, l))
    /\ \A p \in Pages : OffsetOf(s, l, p) # None =>
           Linear(l, p) \in alive /\ Stored(s, LogOf(s, l), OffsetOf(s, l, p), Linear(l, p))
    /\ \A p \in Pages : Linear(l, p) \in alive /\ OffsetOf(s, l, p) = None =>
           DataOf(s, l) # None /\ Stored(s, DataOf(s, l), p, Linear(l, p))

\* A valid page of a data block belongs to a page that is in told.
DataKept(s, told, l) ==
    \A p \in Pages : DataOf(s, l) # None /\ Cell(s, DataOf(s, l), p) = "VALID" => Linear(l, p) \in told

BastWhole(s, alive, told) ==
    /\ BastFlash(s)
    /\ Owns(BastPlanes, Idles(BastPlanes, s), LogTable(s), s.map.data_list, s.log_active, s.data_active)
    /\ \A l \in LBAs : BlockKept(s, alive, l) /\ DataKept(s, told, l)
BastOk(s, alive, told) ==
    /\ s \in BastDrives /\ s.invalid_list = << >> /\ s.abort \in Harmless
    /\ s.abort = "none" => BastWhole(s, alive, told)
BastKept(s, alive) == BastWhole(s, alive, alive) /\ s.abort \in Harmless
BastInv == ftl = "BAST" => BastKept(drive, live) /\ live \subseteq LogicalPages /\ lost = {}

LEMMA BastSizes == BastPlanes \in Nat \ {0} /\ BastLogBlocks \in Nat \ {0}
  BY FtlsAssumption

LEMMA BastNames ==
    /\ Bast!None = None /\ Bast!Pages = Pages /\ Bast!LBAs = LBAs /\ Bast!LogicalPages = LogicalPages
    /\ \A a : Bast!BlockOf(a) = BlockOf(a) /\ Bast!PageOf(a) = PageOf(a)
    /\ \A b, p : Bast!Linear(b, p) = Linear(b, p)
    /\ \A s, a : Bast!PageState(s, a) = PageAt(s, a)
    /\ \A S : Bast!Cardinality(S) = Cardinality(S)
  <1>1. Bast!None = None /\ Bast!Pages = Pages /\ Bast!LBAs = LBAs /\ Bast!LogicalPages = LogicalPages
    BY Zenon DEF Bast!None, None, Bast!Pages, Pages, Bast!LBAs, LBAs, Bast!LogicalPages, LogicalPages
  <1>2. ASSUME NEW a PROVE Bast!BlockOf(a) = BlockOf(a) /\ Bast!PageOf(a) = PageOf(a)
    BY Zenon DEF Bast!BlockOf, BlockOf, Bast!PageOf, PageOf
  <1>3. ASSUME NEW b, NEW p PROVE Bast!Linear(b, p) = Linear(b, p)
    BY Zenon DEF Bast!Linear, Linear
  <1>4. ASSUME NEW s, NEW a PROVE Bast!PageState(s, a) = PageAt(s, a)
    BY Zenon DEF Bast!PageState, PageAt, Bast!BlockOf, BlockOf, Bast!PageOf, PageOf
  <1>5. ASSUME NEW S PROVE Bast!Cardinality(S) = Cardinality(S)
    BY Zenon DEF Bast!Cardinality, Cardinality
  <1> QED BY <1>1, <1>2, <1>3, <1>4, <1>5, Zenon

LEMMA BastChip ==
    /\ \A m : Bast!NewDrive(m) = Chip(BastPlanes, "BAST", BastLogBlocks)!NewDrive(m)
    /\ \A s, type : Bast!GetFreeBlock(s, type) = Chip(BastPlanes, "BAST", BastLogBlocks)!GetFreeBlock(s, type)
    /\ \A s, v : Bast!Outdate(s, v) = Chip(BastPlanes, "BAST", BastLogBlocks)!Outdate(s, v)
    /\ \A s, a, r, v : Bast!IssueWrite(s, a, r, v) = Chip(BastPlanes, "BAST", BastLogBlocks)!IssueWrite(s, a, r, v)
    /\ \A s, a : Bast!PlaneReplace(s, a) = Chip(BastPlanes, "BAST", BastLogBlocks)!PlaneReplace(s, a)
    /\ \A s, b, ps, d : Bast!PlaneWrite(s, b, ps, d) = Chip(BastPlanes, "BAST", BastLogBlocks)!PlaneWrite(s, b, ps, d)
    /\ \A s, b, type : Bast!EraseAndInvalidate(s, b, type) = Chip(BastPlanes, "BAST", BastLogBlocks)!EraseAndInvalidate(s, b, type)
  <1>1. ASSUME NEW m
        PROVE  Bast!NewDrive(m) = Chip(BastPlanes, "BAST", BastLogBlocks)!NewDrive(m)
    BY Zenon DEF Bast!NewDrive, Chip!NewDrive, Bast!NewBlock, Chip!NewBlock, Bast!NewPlane,
        Chip!NewPlane, Bast!Blocks, Chip!Blocks, Bast!Planes, Chip!Planes, Bast!Pages,
        Chip!Pages, Bast!Addresses, Chip!Addresses, Bast!NumBlocks, Chip!NumBlocks, Bast!None,
        Chip!None
  <1>2. ASSUME NEW s
        PROVE  Bast!EraseInvalid(s) = Chip(BastPlanes, "BAST", BastLogBlocks)!EraseInvalid(s)
    BY Zenon DEF Bast!EraseInvalid, Chip!EraseInvalid, Bast!PlaneErase, Chip!PlaneErase,
        Bast!Assert, Chip!Assert, Bast!PlaneOf, Chip!PlaneOf, Bast!BlockErase, Chip!BlockErase,
        Bast!NewBlock, Chip!NewBlock, Bast!Pages, Chip!Pages, Bast!LeastWorn, Chip!LeastWorn,
        Bast!Addresses, Chip!Addresses, Bast!NumBlocks, Chip!NumBlocks, Bast!BlockOf,
        Chip!BlockOf, Bast!None, Chip!None
  <1>3. ASSUME NEW s
        PROVE  Bast!InsertEvents(s) = Chip(BastPlanes, "BAST", BastLogBlocks)!InsertEvents(s)
    BY <1>2, Zenon DEF Bast!InsertEvents, Chip!InsertEvents, Bast!BelowThreshold,
        Chip!BelowThreshold, Bast!NumBlocks, Chip!NumBlocks, Bast!ImplDftl, Chip!ImplDftl,
        Bast!ImplBimodal, Chip!ImplBimodal, Bast!Assert, Chip!Assert
  <1>4. ASSUME NEW s
        PROVE  Bast!Replenished(s) = Chip(BastPlanes, "BAST", BastLogBlocks)!Replenished(s)
    BY <1>3, Zenon DEF Bast!Replenished, Chip!Replenished, Bast!NumBlocks, Chip!NumBlocks
  <1>5. ASSUME NEW s
        PROVE  Bast!NextFree(s) = Chip(BastPlanes, "BAST", BastLogBlocks)!NextFree(s)
    BY Zenon DEF Bast!NextFree, Chip!NextFree, Bast!NumBlocks, Chip!NumBlocks
  <1>6. ASSUME NEW s
        PROVE  Bast!TakeNextFree(s) = Chip(BastPlanes, "BAST", BastLogBlocks)!TakeNextFree(s)
    BY Zenon DEF Bast!TakeNextFree, Chip!TakeNextFree, Bast!NumBlocks, Chip!NumBlocks,
        Bast!Assert, Chip!Assert
  <1>7. ASSUME NEW s, NEW type
        PROVE  Bast!CountBlock(s, type) = Chip(BastPlanes, "BAST", BastLogBlocks)!CountBlock(s, type)
    BY Zenon DEF Bast!CountBlock, Chip!CountBlock, Bast!Assert, Chip!Assert, Bast!MaxLogBlocks,
        Chip!MaxLogBlocks, Bast!ImplFast, Chip!ImplFast, Bast!NumBlocks, Chip!NumBlocks
  <1>8. ASSUME NEW s, NEW type
        PROVE  Bast!GetFreeBlock(s, type) = Chip(BastPlanes, "BAST", BastLogBlocks)!GetFreeBlock(s, type)
    BY <1>4, <1>5, <1>6, <1>7, Zenon DEF Bast!GetFreeBlock, Chip!GetFreeBlock, Bast!HandOut,
        Chip!HandOut
  <1>9. ASSUME NEW s, NEW v
        PROVE  Bast!Outdate(s, v) = Chip(BastPlanes, "BAST", BastLogBlocks)!Outdate(s, v)
    BY Zenon DEF Bast!Outdate, Chip!Outdate, Bast!Addresses, Chip!Addresses, Bast!NumBlocks,
        Chip!NumBlocks, Bast!None, Chip!None
  <1>10. ASSUME NEW s, NEW a
        PROVE  Bast!PlaneReplace(s, a) = Chip(BastPlanes, "BAST", BastLogBlocks)!PlaneReplace(s, a)
    BY Zenon DEF Bast!PlaneReplace, Chip!PlaneReplace, Bast!BlockInvalidate,
        Chip!BlockInvalidate, Bast!BlockOf, Chip!BlockOf, Bast!PageOf, Chip!PageOf, Bast!None,
        Chip!None
  <1>11. ASSUME NEW s, NEW b, NEW ps, NEW d
        PROVE  Bast!PlaneWrite(s, b, ps, d) = Chip(BastPlanes, "BAST", BastLogBlocks)!PlaneWrite(s, b, ps, d)
    BY Zenon DEF Bast!PlaneWrite, Chip!PlaneWrite, Bast!Assert, Chip!Assert, Bast!BlockWrite,
        Chip!BlockWrite, Bast!Cardinality, Chip!Cardinality, Bast!Pages, Chip!Pages,
        Bast!Addresses, Chip!Addresses, Bast!NumBlocks, Chip!NumBlocks, Bast!BlockOf,
        Chip!BlockOf, Bast!PageOf, Chip!PageOf, Bast!PlaneOf, Chip!PlaneOf
  <1>12. ASSUME NEW s, NEW a, NEW r, NEW v
        PROVE  Bast!IssueWrite(s, a, r, v) = Chip(BastPlanes, "BAST", BastLogBlocks)!IssueWrite(s, a, r, v)
    BY <1>10, <1>11, Zenon DEF Bast!IssueWrite, Chip!IssueWrite, Bast!BlockOf, Chip!BlockOf,
        Bast!PageOf, Chip!PageOf, Bast!Pages, Chip!Pages
  <1>13. ASSUME NEW s, NEW b
        PROVE  Bast!PlaneErase(s, b) = Chip(BastPlanes, "BAST", BastLogBlocks)!PlaneErase(s, b)
    BY Zenon DEF Bast!PlaneErase, Chip!PlaneErase, Bast!Assert, Chip!Assert, Bast!PlaneOf,
        Chip!PlaneOf, Bast!BlockErase, Chip!BlockErase, Bast!NewBlock, Chip!NewBlock,
        Bast!Pages, Chip!Pages, Bast!LeastWorn, Chip!LeastWorn, Bast!Addresses, Chip!Addresses,
        Bast!NumBlocks, Chip!NumBlocks, Bast!BlockOf, Chip!BlockOf, Bast!None, Chip!None
  <1>14. ASSUME NEW s, NEW b, NEW type
        PROVE  Bast!EraseAndInvalidate(s, b, type) = Chip(BastPlanes, "BAST", BastLogBlocks)!EraseAndInvalidate(s, b, type)
    BY <1>13, Zenon DEF Bast!EraseAndInvalidate, Chip!EraseAndInvalidate
  <1> QED BY <1>1, <1>8, <1>9, <1>12, <1>10, <1>11, <1>14, Zenon

-----------------------------------------------------------------------------
\* Whose blocks are whose, as tables change in one place.
LEMMA LBAsFinite ==
    ASSUME NEW S, S \subseteq LBAs
    PROVE  IsFiniteSet(S) /\ Cardinality(S) \in Nat
  <1>1. IsFiniteSet(LBAs)
    <2>1. LogicalBlocks - 1 \in Int /\ 0 \in Int
      BY Sizes
    <2> QED BY <2>1, FS_Interval DEF LBAs
  <1>2. IsFiniteSet(S)
    BY <1>1, FS_Subset
  <1> QED BY <1>2, FS_CardinalityType

LEMMA HeldMore ==
    ASSUME NEW l \in LBAs, NEW f, NEW g, NEW x, x # None, f[l] = None, Updated(LBAs, f, g, l, x)
    PROVE  Cardinality(Held(g)) = Cardinality(Held(f)) + 1 /\ Cardinality(Held(f)) \in Nat
  <1>1. PICK S : S = Held(f) /\ S \subseteq LBAs
    BY DEF Held
  <1>2. Held(g) = S \cup {l} /\ l \notin S
    BY <1>1 DEF Held, Updated
  <1>3. IsFiniteSet(S) /\ Cardinality(S) \in Nat
    BY <1>1, LBAsFinite
  <1>4. Cardinality(S \cup {l}) = Cardinality(S) + 1
    BY <1>2, <1>3, FS_AddElement
  <1> QED BY <1>1, <1>2, <1>3, <1>4

LEMMA HeldLess ==
    ASSUME NEW l \in LBAs, NEW f, NEW g, f[l] # None, Updated(LBAs, f, g, l, None)
    PROVE  Cardinality(Held(g)) = Cardinality(Held(f)) - 1 /\ Cardinality(Held(f)) \in Nat
  <1>1. PICK S : S = Held(f) /\ S \subseteq LBAs
    BY DEF Held
  <1>2. Held(g) = S \ {l} /\ l \in S
    BY <1>1 DEF Held, Updated
  <1>3. IsFiniteSet(S) /\ Cardinality(S) \in Nat
    BY <1>1, LBAsFinite
  <1>4. Cardinality(S \ {l}) = Cardinality(S) - 1
    BY <1>2, <1>3, FS_RemoveElement
  <1> QED BY <1>1, <1>2, <1>3, <1>4

LEMMA OwnsLog ==
    ASSUME NEW n, NEW J, NEW f, NEW d, NEW x, NEW y, Owns(n, J, f, d, x, y), NEW b \in J, b # None,
           NEW l \in LBAs, f[l] = None, NEW g, Updated(LBAs, f, g, l, b)
    PROVE  Owns(n, J \ {b}, g, d, x + 1, y)
  <1>1. Cardinality(Held(g)) = x + 1 /\ y = Cardinality(Held(d))
    BY HeldMore DEF Owns
  <1>2. g[l] = b /\ \A k \in LBAs : k # l => g[k] = f[k]
    BY DEF Updated
  <1>3. \A c \in BlocksOf(n) : c \in J \ {b} \/ \E k \in LBAs : c = g[k] \/ c = d[k]
    <2>1. ASSUME NEW c \in BlocksOf(n), c \notin J PROVE \E k \in LBAs : c = g[k] \/ c = d[k]
      <3>1. CASE \E k \in LBAs : c = d[k]
        BY <3>1
      <3>2. CASE \E k \in LBAs : c = f[k] /\ k # l
        BY <1>2, <3>2
      <3>3. CASE c = f[l]
        <4>1. c = None
          BY <3>3
        <4> QED BY <4>1, <1>2, <2>1 DEF Owns, BlocksOf, None
      <3> QED BY <2>1, <3>1, <3>2, <3>3 DEF Owns
    <2>2. ASSUME NEW c \in BlocksOf(n), c = b PROVE \E k \in LBAs : c = g[k] \/ c = d[k]
      BY <1>2, <2>2
    <2> QED BY <2>1, <2>2
  <1>4. \A k \in LBAs : f[k] # b /\ d[k] # b
    BY DEF Owns
  <1>5. ASSUME NEW k \in LBAs, g[k] # None
        PROVE  g[k] \notin J \ {b} /\ \A h \in LBAs : d[h] # g[k] /\ (g[h] = g[k] => h = k)
    <2>1. CASE k = l
      BY <1>2, <1>4, <2>1
    <2>2. CASE k # l
      BY <1>2, <1>4, <1>5, <2>2 DEF Owns
    <2> QED BY <2>1, <2>2
  <1>6. \A k \in LBAs : d[k] # None => d[k] \notin J \ {b} /\ \A h \in LBAs : d[h] = d[k] => h = k
    BY DEF Owns
  <1> QED BY <1>1, <1>3, <1>5, <1>6 DEF Owns

LEMMA OwnsData ==
    ASSUME NEW n, NEW J, NEW f, NEW d, NEW x, NEW y, Owns(n, J, f, d, x, y), NEW b \in J, b # None,
           NEW l \in LBAs, d[l] = None, NEW e, Updated(LBAs, d, e, l, b)
    PROVE  Owns(n, J \ {b}, f, e, x, y + 1)
  <1>1. Cardinality(Held(e)) = y + 1 /\ x = Cardinality(Held(f))
    BY HeldMore DEF Owns
  <1>2. e[l] = b /\ \A k \in LBAs : k # l => e[k] = d[k]
    BY DEF Updated
  <1>3. \A c \in BlocksOf(n) : c \in J \ {b} \/ \E k \in LBAs : c = f[k] \/ c = e[k]
    <2>1. ASSUME NEW c \in BlocksOf(n), c \notin J PROVE \E k \in LBAs : c = f[k] \/ c = e[k]
      <3>1. CASE \E k \in LBAs : c = f[k]
        BY <3>1
      <3>2. CASE \E k \in LBAs : c = d[k] /\ k # l
        BY <1>2, <3>2
      <3>3. CASE c = d[l]
        <4>1. c = None
          BY <3>3
        <4> QED BY <4>1, <1>2, <2>1 DEF Owns, BlocksOf, None
      <3> QED BY <2>1, <3>1, <3>2, <3>3 DEF Owns
    <2>2. ASSUME NEW c \in BlocksOf(n), c = b PROVE \E k \in LBAs : c = f[k] \/ c = e[k]
      BY <1>2, <2>2
    <2> QED BY <2>1, <2>2
  <1>4. \A k \in LBAs : f[k] # b /\ d[k] # b
    BY DEF Owns
  <1>5. ASSUME NEW k \in LBAs, e[k] # None
        PROVE  e[k] \notin J \ {b} /\ \A h \in LBAs : e[h] = e[k] => h = k
    <2>1. CASE k = l
      BY <1>2, <1>4, <2>1
    <2>2. CASE k # l
      BY <1>2, <1>4, <1>5, <2>2 DEF Owns
    <2> QED BY <2>1, <2>2
  <1>6. ASSUME NEW k \in LBAs, f[k] # None
        PROVE  f[k] \notin J \ {b} /\ \A h \in LBAs : e[h] # f[k] /\ (f[h] = f[k] => h = k)
    <2>1. \A h \in LBAs : d[h] # f[k] /\ (f[h] = f[k] => h = k)
      BY <1>6 DEF Owns
    <2>2. \A h \in LBAs : e[h] = b \/ e[h] = d[h]
      BY <1>2
    <2> QED BY <1>4, <1>6, <2>1, <2>2 DEF Owns
  <1> QED BY <1>1, <1>3, <1>5, <1>6 DEF Owns

LEMMA DisownsLog ==
    ASSUME NEW n, NEW J, NEW f, NEW d, NEW x, NEW y, Owns(n, J, f, d, x, y),
           NEW l \in LBAs, NEW b, b = f[l], b # None, NEW g, Updated(LBAs, f, g, l, None)
    PROVE  Owns(n, J \cup {b}, g, d, x - 1, y)
  <1>1. Cardinality(Held(g)) = x - 1 /\ y = Cardinality(Held(d))
    BY HeldLess DEF Owns
  <1>2. g[l] = None /\ \A k \in LBAs : k # l => g[k] = f[k]
    BY DEF Updated
  <1>3. \A c \in BlocksOf(n) : c \in J \cup {b} \/ \E k \in LBAs : c = g[k] \/ c = d[k]
    <2>1. ASSUME NEW c \in BlocksOf(n), c \notin J, c # b PROVE \E k \in LBAs : c = g[k] \/ c = d[k]
      BY <1>2, <2>1 DEF Owns
    <2> QED BY <2>1
  <1>4. \A k \in LBAs : (f[k] = b => k = l) /\ d[k] # b
    BY DEF Owns
  <1>5. ASSUME NEW k \in LBAs, g[k] # None
        PROVE  g[k] \notin J \cup {b} /\ \A h \in LBAs : d[h] # g[k] /\ (g[h] = g[k] => h = k)
    <2>1. k # l /\ g[k] = f[k]
      BY <1>2, <1>5
    <2>2. \A h \in LBAs : d[h] # f[k] /\ (f[h] = f[k] => h = k)
      BY <1>5, <2>1 DEF Owns
    <2> QED BY <1>2, <1>4, <1>5, <2>1, <2>2 DEF Owns
  <1>6. \A k \in LBAs : d[k] # None => d[k] \notin J \cup {b} /\ \A h \in LBAs : d[h] = d[k] => h = k
    BY <1>4 DEF Owns
  <1> QED BY <1>1, <1>3, <1>5, <1>6 DEF Owns

LEMMA DisownsData ==
    ASSUME NEW n, NEW J, NEW f, NEW d, NEW x, NEW y, Owns(n, J, f, d, x, y),
           NEW l \in LBAs, NEW b, b = d[l], b # None, NEW e, Updated(LBAs, d, e, l, None)
    PROVE  Owns(n, J \cup {b}, f, e, x, y - 1)
  <1>1. Cardinality(Held(e)) = y - 1 /\ x = Cardinality(Held(f))
    BY HeldLess DEF Owns
  <1>2. e[l] = None /\ \A k \in LBAs : k # l => e[k] = d[k]
    BY DEF Updated
  <1>3. \A c \in BlocksOf(n) : c \in J \cup {b} \/ \E k \in LBAs : c = f[k] \/ c = e[k]
    <2>1. ASSUME NEW c \in BlocksOf(n), c \notin J, c # b PROVE \E k \in LBAs : c = f[k] \/ c = e[k]
      BY <1>2, <2>1 DEF Owns
    <2> QED BY <2>1
  <1>4. \A k \in LBAs : (d[k] = b => k = l) /\ f[k] # b
    BY DEF Owns
  <1>5. ASSUME NEW k \in LBAs, e[k] # None
        PROVE  e[k] \notin J \cup {b} /\ \A h \in LBAs : e[h] = e[k] => h = k
    <2>1. k # l /\ e[k] = d[k]
      BY <1>2, <1>5
    <2>2. \A h \in LBAs : d[h] = d[k] => h = k
      BY <1>5, <2>1 DEF Owns
    <2> QED BY <1>2, <1>4, <1>5, <2>1, <2>2 DEF Owns
  <1>6. ASSUME NEW k \in LBAs, f[k] # None
        PROVE  f[k] \notin J \cup {b} /\ \A h \in LBAs : e[h] # f[k] /\ (f[h] = f[k] => h = k)
    <2>1. \A h \in LBAs : d[h] # f[k] /\ (f[h] = f[k] => h = k)
      BY <1>6 DEF Owns
    <2>2. \A h \in LBAs : e[h] = None \/ e[h] = d[h]
      BY <1>2
    <2> QED BY <1>4, <1>6, <2>1, <2>2 DEF Owns
  <1> QED BY <1>1, <1>3, <1>5, <1>6 DEF Owns

LEMMA OwnsSwitched ==
    ASSUME NEW n, NEW J, NEW f, NEW d, NEW x, NEW y, Owns(n, J, f, d, x, y),
           NEW l \in LBAs, NEW b, b = f[l], b # None, d[l] = None,
           NEW g, Updated(LBAs, f, g, l, None), NEW e, Updated(LBAs, d, e, l, b)
    PROVE  Owns(n, J, g, e, x - 1, y + 1)
  <1>1. Cardinality(Held(g)) = x - 1 /\ Cardinality(Held(e)) = y + 1
    BY HeldLess, HeldMore DEF Owns
  <1>2. g[l] = None /\ e[l] = b /\ \A k \in LBAs : k # l => g[k] = f[k] /\ e[k] = d[k]
    BY DEF Updated
  <1>3. \A c \in BlocksOf(n) : c \in J \/ \E k \in LBAs : c = g[k] \/ c = e[k]
    <2>1. ASSUME NEW c \in BlocksOf(n), c \notin J PROVE \E k \in LBAs : c = g[k] \/ c = e[k]
      <3>1. PICK k \in LBAs : c = f[k] \/ c = d[k]
        BY <2>1 DEF Owns
      <3>2. c # None
        BY <2>1 DEF BlocksOf, None
      <3> QED BY <1>2, <3>1, <3>2
    <2> QED BY <2>1
  <1>4. \A k \in LBAs : (f[k] = b => k = l) /\ d[k] # b /\ b \notin J
    BY DEF Owns
  <1>5. ASSUME NEW k \in LBAs, g[k] # None
        PROVE  g[k] \notin J /\ \A h \in LBAs : e[h] # g[k] /\ (g[h] = g[k] => h = k)
    <2>1. k # l /\ g[k] = f[k] /\ f[k] # b
      BY <1>2, <1>4, <1>5
    <2>2. f[k] \notin J /\ \A h \in LBAs : d[h] # f[k] /\ (f[h] = f[k] => h = k)
      BY <1>5, <2>1 DEF Owns
    <2> QED BY <1>2, <1>5, <2>1, <2>2
  <1>6. ASSUME NEW k \in LBAs, e[k] # None
        PROVE  e[k] \notin J /\ \A h \in LBAs : e[h] = e[k] => h = k
    <2>1. CASE k = l
      BY <1>2, <1>4, <2>1
    <2>2. CASE k # l
      <3>1. e[k] = d[k] /\ d[k] \notin J /\ \A h \in LBAs : d[h] = d[k] => h = k
        BY <1>2, <1>6, <2>2 DEF Owns
      <3> QED BY <1>2, <1>4, <3>1
    <2> QED BY <2>1, <2>2
  <1> QED BY <1>1, <1>3, <1>5, <1>6 DEF Owns

-----------------------------------------------------------------------------
\* One step on the drive at a time.  A block keeps its pages, but for those that
\* hold page v, which are out of date.
SameCells(s, t, c, v) ==
    /\ Used(t, c) = Used(s, c)
    /\ \A p \in Pages : /\ Cell(t, c, p) = Cell(s, c, p)
                        /\ Datum(t, c, p) = IF Datum(s, c, p) = v THEN None ELSE Datum(s, c, p)

LEMMA SameCellsChain ==
    ASSUME NEW s, NEW t, NEW u, NEW c, NEW v,
           (SameCells(s, t, c, v) /\ SameCells(t, u, c, None)) \/ (SameCells(s, t, c, None) /\ SameCells(t, u, c, v))
    PROVE  SameCells(s, u, c, v)
  BY DEF SameCells

LEMMA SameCellsFlash ==
    ASSUME NEW s, NEW t, SameFlash(s, t)
    PROVE  \A c : SameCells(s, t, c, None)
  BY DEF SameFlash, SameCells, Cell, Datum, PageAt, Used

LEMMA SameIdles ==
    ASSUME NEW n, NEW s, NEW t, SameManager(s, t)
    PROVE  Idles(n, t) = Idles(n, s)
  <1>1. \A b : Idle(t, b) <=> Idle(s, b)
    BY SameStock
  <1> QED BY <1>1 DEF Idles

\* Block_manager::get_free_block.
BastTook(s, t, b, type) ==
    /\ BastFlash(t) /\ SameFlash(s, t) /\ t.map = s.map /\ Idle(s, b) /\ ~Idle(t, b)
    /\ Idles(BastPlanes, t) = Idles(BastPlanes, s) \ {b}
    /\ t.log_active = (IF type = "DATA" THEN s.log_active ELSE s.log_active + 1)
    /\ t.data_active = (IF type = "DATA" THEN s.data_active + 1 ELSE s.data_active)
BastAllocates(s, t, b, type) ==
    /\ b \in BlocksOf(BastPlanes) /\ t \in BastDrives /\ t.invalid_list = << >> /\ Sticky(s, t)
    /\ t.map = s.map
    /\ BastFlash(s) /\ t.abort = "none" => BastTook(s, t, b, type)

LEMMA BastTaken ==
    ASSUME NEW s \in BastDrives, s.invalid_list = << >>, NEW type, NEW g, g = Bast!GetFreeBlock(s, type)
    PROVE  BastAllocates(s, g.state, g.block, type)
  <1>1. PICK n \in Nat \ {0} : n = BastPlanes
    BY BastSizes
  <1>2. PICK M : M = BastMaps(n)
    OBVIOUS
  <1>3. s \in Drives(n, M)
    BY <1>1, <1>2 DEF BastDrives
  <1>4. PICK i, k : i = "BAST" /\ k = BastLogBlocks
    OBVIOUS
  <1>5. g = Chip(n, i, k)!GetFreeBlock(s, type)
    BY <1>1, <1>4, BastChip, Zenon
  <1>6. PICK b : b = g.block
    OBVIOUS
  <1>7. PICK t : t = g.state
    OBVIOUS
  <1>8. b \in BlocksOf(n) /\ t \in Drives(n, M) /\ Allocates(n, s, t, b, type)
    BY <1>3, <1>5, <1>6, <1>7, Allocated, Zenon
  <1>9. /\ SameFlash(s, t) /\ t.map = s.map /\ t.invalid_list = s.invalid_list /\ Sticky(s, t)
        /\ t.log_active = (IF type = "DATA" THEN s.log_active ELSE s.log_active + 1)
        /\ t.data_active = (IF type = "DATA" THEN s.data_active + 1 ELSE s.data_active)
        /\ t.abort = "none" => Takes(n, s, t, b)
    BY <1>8 DEF Allocates
  <1>10. ASSUME BastFlash(s), t.abort = "none"
         PROVE  BastTook(s, t, b, type)
    <2>1. t.log_active + t.data_active = s.log_active + s.data_active + 1
      <3>1. s.log_active \in Int /\ s.data_active \in Int
        BY <1>3 DEF Drives
      <3> QED BY <1>9, <3>1
    <2>2. Stock(n, s) /\ Takes(n, s, t, b)
      BY <1>1, <1>9, <1>10 DEF BastFlash
    <2>3. /\ Stock(n, t) /\ Idle(s, b)
          /\ \A c \in BlocksOf(n) : Idle(t, c) <=> Idle(s, c) /\ c # b
      BY <1>3, <1>8, <1>9, <2>1, <2>2, Taken, Zenon
    <2>4. Idles(n, t) = Idles(n, s) \ {b} /\ ~Idle(t, b)
      BY <1>8, <2>3 DEF Idles
    <2>5. \A c : SameCells(s, t, c, None)
      BY <1>9, SameCellsFlash
    <2>6. \A c \in BlocksOf(n) : Idle(t, c) => Used(t, c) = 0 /\ \A p \in Pages : Cell(t, c, p) = "EMPTY"
      <3>1. ASSUME NEW c \in BlocksOf(n), Idle(t, c) PROVE Used(t, c) = 0 /\ \A p \in Pages : Cell(t, c, p) = "EMPTY"
        <4>1. Used(s, c) = 0 /\ \A p \in Pages : Cell(s, c, p) = "EMPTY"
          BY <1>1, <1>10, <2>3, <3>1 DEF BastFlash
        <4> QED BY <2>5, <4>1 DEF SameCells
      <3> QED BY <3>1
    <2>7. Fits(n, t) /\ \A x \in AddressesOf(n) : t.data[x] \in LogicalPages \cup {None}
      <3>1. Fits(n, s) /\ \A x \in AddressesOf(n) : s.data[x] \in LogicalPages \cup {None}
        BY <1>1, <1>10 DEF BastFlash
      <3>2. SameBlocks(s, t) /\ t.data = s.data
        BY <1>9 DEF SameFlash, SameBlocks
      <3> QED BY <3>1, <3>2, SameFits
    <2>8. BastFlash(t)
      BY <1>1, <1>2, <1>8, <2>3, <2>6, <2>7 DEF BastFlash, BastDrives
    <2> QED BY <1>1, <1>9, <2>3, <2>4, <2>8 DEF BastTook
  <1>11. t \in BastDrives
    BY <1>1, <1>2, <1>8 DEF BastDrives
  <1>12. BastAllocates(s, t, b, type)
    BY <1>1, <1>8, <1>9, <1>10, <1>11 DEF BastAllocates
  <1> QED BY <1>6, <1>7, <1>12

\* Block_manager::erase_and_invalidate.
BastFreed(s, t, b, type) ==
    /\ BastFlash(t) /\ Idles(BastPlanes, t) = Idles(BastPlanes, s) \cup {b}
    /\ t.log_active = (IF type = "DATA" THEN s.log_active ELSE s.log_active - 1)
    /\ t.data_active = (IF type = "DATA" THEN s.data_active - 1 ELSE s.data_active)
    /\ \A c \in BlocksOf(BastPlanes) : c # b => SameCells(s, t, c, None) /\ (Idle(t, c) <=> Idle(s, c))
BastReleases(s, t, b, type) ==
    /\ t \in BastDrives /\ t.invalid_list = s.invalid_list /\ Sticky(s, t) /\ t.map = s.map
    /\ BastFlash(s) /\ ~Idle(s, b) /\ t.abort = "none" => BastFreed(s, t, b, type)

LEMMA BastReleased ==
    ASSUME NEW s \in BastDrives, NEW b \in BlocksOf(BastPlanes), NEW type,
           NEW t, t = Bast!EraseAndInvalidate(s, b, type)
    PROVE  BastReleases(s, t, b, type)
  <1>1. PICK n \in Nat \ {0} : n = BastPlanes
    BY BastSizes
  <1>2. PICK M : M = BastMaps(n)
    OBVIOUS
  <1>3. s \in Drives(n, M) /\ b \in BlocksOf(n)
    BY <1>1, <1>2 DEF BastDrives
  <1>4. PICK i, k : i = "BAST" /\ k = BastLogBlocks
    OBVIOUS
  <1>5. t = Chip(n, i, k)!EraseAndInvalidate(s, b, type)
    BY <1>1, <1>4, BastChip, Zenon
  <1>6. t \in Drives(n, M) /\ Releases(n, s, t, b, type)
    BY <1>3, <1>5, Released, Zenon
  <1>7. /\ t.map = s.map /\ t.simpleCurrentFree = s.simpleCurrentFree /\ t.invalid_list = s.invalid_list
        /\ t.free_list = Append(s.free_list, b) /\ Sticky(s, t)
        /\ t.log_active = (IF type = "DATA" THEN s.log_active ELSE s.log_active - 1)
        /\ t.data_active = (IF type = "DATA" THEN s.data_active - 1 ELSE s.data_active)
        /\ t.abort = "none" => Erases(n, s, t, b)
    BY <1>6 DEF Releases
  <1>8. ASSUME BastFlash(s), ~Idle(s, b), t.abort = "none"
        PROVE  BastFreed(s, t, b, type)
    <2>1. t.log_active + t.data_active = s.log_active + s.data_active - 1
      <3>1. s.log_active \in Int /\ s.data_active \in Int
        BY <1>3 DEF Drives
      <3> QED BY <1>7, <3>1
    <2>2. Stock(n, s)
      BY <1>1, <1>8 DEF BastFlash
    <2>3. Stock(n, t) /\ \A c \in BlocksOf(n) : Idle(t, c) <=> Idle(s, c) \/ c = b
      BY <1>3, <1>6, <1>7, <1>8, <2>1, <2>2, Returned, Zenon
    <2>4. Idles(n, t) = Idles(n, s) \cup {b}
      BY <1>3, <2>3 DEF Idles
    <2>5. /\ \A x \in AddressesOf(n) : PageAt(t, x) = IF BlockOf(x) = b THEN "EMPTY" ELSE PageAt(s, x)
          /\ \A c \in BlocksOf(n) : Used(t, c) = IF c = b THEN 0 ELSE Used(s, c)
          /\ \A a \in AddressesOf(n) : t.data[a] = IF BlockOf(a) = b THEN None ELSE s.data[a]
          /\ Fits(n, t)
      BY <1>1, <1>7, <1>8 DEF Erases, BastFlash
    <2>6. ASSUME NEW c \in BlocksOf(n), NEW p \in Pages
          PROVE  /\ Cell(t, c, p) = IF c = b THEN "EMPTY" ELSE Cell(s, c, p)
                 /\ c # b => Datum(t, c, p) = Datum(s, c, p)
      <3>1. PICK x \in AddressesOf(n) : x = Linear(c, p) /\ BlockOf(x) = c
        BY Geometry
      <3> QED BY <2>5, <3>1 DEF Cell, Datum
    <2>7. ASSUME NEW c \in BlocksOf(n), c # b
          PROVE  SameCells(s, t, c, None) /\ (Idle(t, c) <=> Idle(s, c))
      BY <2>3, <2>5, <2>6, <2>7 DEF SameCells
    <2>8. ASSUME NEW c \in BlocksOf(n), Idle(t, c)
          PROVE  Used(t, c) = 0 /\ \A p \in Pages : Cell(t, c, p) = "EMPTY"
      <3>1. CASE c = b
        BY <2>5, <2>6, <3>1
      <3>2. CASE c # b
        <4>1. Used(s, c) = 0 /\ \A p \in Pages : Cell(s, c, p) = "EMPTY"
          BY <1>1, <1>8, <2>3, <2>8, <3>2 DEF BastFlash
        <4> QED BY <2>5, <2>6, <3>2, <4>1
      <3> QED BY <3>1, <3>2
    <2>9. \A x \in AddressesOf(n) : t.data[x] \in LogicalPages \cup {None}
      <3>1. \A x \in AddressesOf(n) : s.data[x] \in LogicalPages \cup {None}
        BY <1>1, <1>8 DEF BastFlash
      <3> QED BY <2>5, <3>1
    <2>10. BastFlash(t)
      BY <1>1, <1>2, <1>6, <2>3, <2>5, <2>8, <2>9 DEF BastFlash, BastDrives
    <2> QED BY <1>1, <1>7, <2>4, <2>7, <2>10 DEF BastFreed
  <1>9. t \in BastDrives
    BY <1>1, <1>2, <1>6 DEF BastDrives
  <1> QED BY <1>7, <1>8, <1>9 DEF BastReleases

\* Plane::write of empty pages of a block in use.
BastWrote(s, t, b, ps, payload) ==
    /\ BastFlash(t)
    /\ \A c \in BlocksOf(BastPlanes) : c # b => SameCells(s, t, c, None)
    /\ Used(t, b) = Used(s, b) + Cardinality(ps)
    /\ \A p \in Pages : /\ Cell(t, b, p) = IF p \in ps THEN "VALID" ELSE Cell(s, b, p)
                        /\ Datum(t, b, p) = IF p \in ps THEN payload[p] ELSE Datum(s, b, p)
BastWrites(s, t, b, ps, payload) ==
    /\ t \in BastDrives /\ SameManager(s, t) /\ t.map = s.map
    /\ (\A p \in ps : Cell(s, b, p) = "EMPTY") \/ s.abort # "none" => t.abort = s.abort
    /\ BastFlash(s) /\ ~Idle(s, b) /\ (\A p \in ps : Cell(s, b, p) = "EMPTY" /\ payload[p] \in LogicalPages \cup {None})
          => BastWrote(s, t, b, ps, payload)

LEMMA BastProgrammed ==
    ASSUME NEW s \in BastDrives, NEW b \in BlocksOf(BastPlanes), NEW ps, ps \subseteq Pages, NEW payload,
           \A p \in ps : payload[p] \in Int,
           NEW t, t = Bast!PlaneWrite(s, b, ps, payload)
    PROVE  BastWrites(s, t, b, ps, payload)
  <1>1. PICK n \in Nat \ {0} : n = BastPlanes
    BY BastSizes
  <1>2. PICK M : M = BastMaps(n)
    OBVIOUS
  <1>3. s \in Drives(n, M) /\ b \in BlocksOf(n)
    BY <1>1, <1>2 DEF BastDrives
  <1>4. PICK i, k : i = "BAST" /\ k = BastLogBlocks
    OBVIOUS
  <1>5. t = Chip(n, i, k)!PlaneWrite(s, b, ps, payload)
    BY <1>1, <1>4, BastChip, Zenon
  <1>7. t \in Drives(n, M) /\ Programs(n, s, t, b, ps, payload)
    BY <1>3, <1>5, Programmed, Zenon
  <1>8. /\ t.map = s.map /\ SameManager(s, t)
        /\ \A a \in AddressesOf(n) : t.data[a] = IF BlockOf(a) = b /\ PageOf(a) \in ps
                                                 THEN payload[PageOf(a)] ELSE s.data[a]
        /\ \A x \in AddressesOf(n) : PageAt(t, x) = IF BlockOf(x) = b /\ PageOf(x) \in ps
                                                    THEN "VALID" ELSE PageAt(s, x)
        /\ \A c \in BlocksOf(n) : c # b => Used(t, c) = Used(s, c)
        /\ Used(t, b) = Used(s, b) + Cardinality(ps)
    BY <1>7 DEF Programs
  <1>9. \A p \in ps : Cell(s, b, p) = s.block[b].page[p]
    <2>1. ASSUME NEW p \in ps PROVE Cell(s, b, p) = s.block[b].page[p]
      <3>1. BlockOf(Linear(b, p)) = b /\ PageOf(Linear(b, p)) = p
        BY <1>3, Geometry
      <3> QED BY <3>1 DEF Cell, PageAt
    <2> QED BY <2>1
  <1>10. (\A p \in ps : Cell(s, b, p) = "EMPTY") \/ s.abort # "none" => t.abort = s.abort
    BY <1>7, <1>9 DEF Programs
  <1>11. ASSUME NEW c \in BlocksOf(n), NEW p \in Pages
         PROVE  /\ Cell(t, c, p) = IF c = b /\ p \in ps THEN "VALID" ELSE Cell(s, c, p)
                /\ Datum(t, c, p) = IF c = b /\ p \in ps THEN payload[p] ELSE Datum(s, c, p)
    <2>1. PICK x \in AddressesOf(n) : x = Linear(c, p) /\ BlockOf(x) = c /\ PageOf(x) = p
      BY Geometry
    <2> QED BY <1>8, <2>1 DEF Cell, Datum
  <1>12. ASSUME BastFlash(s), ~Idle(s, b),
                \A p \in ps : Cell(s, b, p) = "EMPTY" /\ payload[p] \in LogicalPages \cup {None}
         PROVE  BastWrote(s, t, b, ps, payload)
    <2>1. Fits(n, t)
      <3>1. Fits(n, s) /\ \A p \in ps : s.block[b].page[p] = "EMPTY"
        BY <1>1, <1>9, <1>12 DEF BastFlash
      <3> QED BY <1>7, <3>1 DEF Programs
    <2>2. Stock(n, t) /\ \A c : Idle(t, c) <=> Idle(s, c)
      <3>1. Stock(n, s)
        BY <1>1, <1>12 DEF BastFlash
      <3> QED BY <1>8, <3>1, SameStock
    <2>3. ASSUME NEW c \in BlocksOf(n), c # b PROVE SameCells(s, t, c, None)
      BY <1>8, <1>11, <2>3 DEF SameCells
    <2>4. ASSUME NEW c \in BlocksOf(n), Idle(t, c)
          PROVE  Used(t, c) = 0 /\ \A p \in Pages : Cell(t, c, p) = "EMPTY"
      <3>1. c # b /\ Idle(s, c)
        BY <1>12, <2>2, <2>4
      <3>2. Used(s, c) = 0 /\ \A p \in Pages : Cell(s, c, p) = "EMPTY"
        BY <1>1, <1>12, <3>1 DEF BastFlash
      <3> QED BY <1>8, <1>11, <3>1, <3>2
    <2>5. \A x \in AddressesOf(n) : t.data[x] \in LogicalPages \cup {None}
      <3>1. \A x \in AddressesOf(n) : s.data[x] \in LogicalPages \cup {None}
        BY <1>1, <1>12 DEF BastFlash
      <3> QED BY <1>8, <1>12, <3>1
    <2>6. BastFlash(t)
      BY <1>1, <1>2, <1>7, <2>1, <2>2, <2>4, <2>5 DEF BastFlash, BastDrives
    <2> QED BY <1>1, <1>3, <1>8, <1>11, <2>3, <2>6 DEF BastWrote
  <1>13. t \in BastDrives
    BY <1>1, <1>2, <1>7 DEF BastDrives
  <1> QED BY <1>8, <1>10, <1>12, <1>13 DEF BastWrites

\* FtlImpl_Bast::write and trim make every copy of a page out of date.
BastOutdates(s, t, v) ==
    /\ t \in BastDrives /\ t.map = s.map /\ SameManager(s, t) /\ t.abort = s.abort
    /\ \A c \in BlocksOf(BastPlanes) : SameCells(s, t, c, v)
    /\ BastFlash(s) => BastFlash(t)

LEMMA BastOutdated ==
    ASSUME NEW s \in BastDrives, NEW v \in LogicalPages, NEW t, t = Bast!Outdate(s, v)
    PROVE  BastOutdates(s, t, v)
  <1>1. PICK n \in Nat \ {0} : n = BastPlanes
    BY BastSizes
  <1>2. PICK M : M = BastMaps(n)
    OBVIOUS
  <1>3. s \in Drives(n, M)
    BY <1>1, <1>2 DEF BastDrives
  <1>4. PICK i, k : i = "BAST" /\ k = BastLogBlocks
    OBVIOUS
  <1>5. t = Chip(n, i, k)!Outdate(s, v)
    BY <1>1, <1>4, BastChip, Zenon
  <1>6. v \in Int
    BY DEF LogicalPages
  <1>7. t \in Drives(n, M) /\ Outdates(n, s, t, v)
    BY <1>3, <1>5, <1>6, Outdated, Zenon
  <1>8. /\ t.map = s.map /\ SameManager(s, t) /\ t.abort = s.abort /\ SameBlocks(s, t)
        /\ \A x \in AddressesOf(n) : t.data[x] = IF s.data[x] = v THEN None ELSE s.data[x]
    BY <1>7 DEF Outdates
  <1>9. /\ Fits(n, s) => Fits(n, t)
        /\ \A x : PageAt(t, x) = PageAt(s, x)
        /\ \A b : Used(t, b) = Used(s, b)
    BY <1>8, SameFits
  <1>10. ASSUME NEW c \in BlocksOf(n) PROVE SameCells(s, t, c, v)
    <2>1. \A p \in Pages : Linear(c, p) \in AddressesOf(n)
      BY Geometry
    <2> QED BY <1>8, <1>9, <2>1 DEF SameCells, Cell, Datum
  <1>11. ASSUME BastFlash(s) PROVE BastFlash(t)
    <2>2. Stock(n, t) /\ \A c : Idle(t, c) <=> Idle(s, c)
      <3>1. Stock(n, s)
        BY <1>1, <1>11 DEF BastFlash
      <3> QED BY <1>8, <3>1, SameStock
    <2>3. \A b \in BlocksOf(n) : Idle(t, b) => Used(t, b) = 0 /\ \A p \in Pages : Cell(t, b, p) = "EMPTY"
      BY <1>1, <1>9, <1>11, <2>2 DEF BastFlash, Cell
    <2>4. \A x \in AddressesOf(n) : t.data[x] \in LogicalPages \cup {None}
      BY <1>1, <1>8, <1>11 DEF BastFlash
    <2> QED BY <1>1, <1>2, <1>7, <1>9, <1>11, <2>2, <2>3, <2>4 DEF BastFlash, BastDrives
  <1>12. t \in BastDrives
    BY <1>1, <1>2, <1>7 DEF BastDrives
  <1> QED BY <1>1, <1>8, <1>10, <1>11, <1>12 DEF BastOutdates

\* Plane::replace of a page of a block in use.
BastReplaces(s, t, b, p) ==
    /\ t \in BastDrives /\ t.map = s.map /\ SameManager(s, t) /\ t.abort = s.abort
    /\ \A c \in BlocksOf(BastPlanes) : c # b => SameCells(s, t, c, None)
    /\ Used(t, b) = Used(s, b)
    /\ \A q \in Pages : /\ Cell(t, b, q) = IF q = p THEN "INVALID" ELSE Cell(s, b, q)
                        /\ Datum(t, b, q) = Datum(s, b, q)
    /\ BastFlash(s) /\ ~Idle(s, b) => BastFlash(t)

LEMMA BastReplaced ==
    ASSUME NEW s \in BastDrives, NEW b \in BlocksOf(BastPlanes), NEW p \in Pages,
           NEW t, t = Bast!PlaneReplace(s, Linear(b, p))
    PROVE  BastReplaces(s, t, b, p)
  <1>1. PICK n \in Nat \ {0} : n = BastPlanes
    BY BastSizes
  <1>2. PICK M : M = BastMaps(n)
    OBVIOUS
  <1>3. s \in Drives(n, M) /\ b \in BlocksOf(n)
    BY <1>1, <1>2 DEF BastDrives
  <1>4. PICK i, k : i = "BAST" /\ k = BastLogBlocks
    OBVIOUS
  <1>5. PICK a \in AddressesOf(n) : a = Linear(b, p)
    BY <1>3, Geometry
  <1>6. t = Chip(n, i, k)!PlaneReplace(s, a)
    BY <1>1, <1>4, <1>5, BastChip, Zenon
  <1>7. t \in Drives(n, M) /\ Invalidates(n, s, t, a)
    BY <1>3, <1>6, Invalidated, Zenon
  <1>8. /\ t.map = s.map /\ SameManager(s, t) /\ t.abort = s.abort /\ t.data = s.data
        /\ \A x \in AddressesOf(n) : PageAt(t, x) = IF x = a THEN "INVALID" ELSE PageAt(s, x)
        /\ \A c \in BlocksOf(n) : Used(t, c) = Used(s, c)
        /\ Fits(n, s) => Fits(n, t)
    BY <1>7 DEF Invalidates
  <1>9. ASSUME NEW c \in BlocksOf(n), NEW q \in Pages
        PROVE  /\ Cell(t, c, q) = IF c = b /\ q = p THEN "INVALID" ELSE Cell(s, c, q)
               /\ Datum(t, c, q) = Datum(s, c, q)
    <2>1. PICK x \in AddressesOf(n) : x = Linear(c, q) /\ BlockOf(x) = c /\ PageOf(x) = q
      BY Geometry
    <2>2. BlockOf(a) = b /\ PageOf(a) = p
      BY <1>3, <1>5, Geometry
    <2>3. x = a <=> c = b /\ q = p
      BY <1>5, <2>1, <2>2
    <2> QED BY <1>8, <2>1, <2>3 DEF Cell, Datum
  <1>10. ASSUME NEW c \in BlocksOf(n), c # b PROVE SameCells(s, t, c, None)
    BY <1>8, <1>9, <1>10 DEF SameCells
  <1>11. ASSUME BastFlash(s), ~Idle(s, b) PROVE BastFlash(t)
    <2>2. Stock(n, t) /\ \A c : Idle(t, c) <=> Idle(s, c)
      <3>1. Stock(n, s)
        BY <1>1, <1>11 DEF BastFlash
      <3> QED BY <1>8, <3>1, SameStock
    <2>3. ASSUME NEW c \in BlocksOf(n), Idle(t, c)
          PROVE  Used(t, c) = 0 /\ \A q \in Pages : Cell(t, c, q) = "EMPTY"
      <3>1. c # b /\ Idle(s, c)
        BY <1>11, <2>2, <2>3
      <3>2. Used(s, c) = 0 /\ \A q \in Pages : Cell(s, c, q) = "EMPTY"
        BY <1>1, <1>11, <3>1 DEF BastFlash
      <3> QED BY <1>8, <1>9, <3>1, <3>2
    <2>4. \A x \in AddressesOf(n) : t.data[x] \in LogicalPages \cup {None}
      BY <1>1, <1>8, <1>11 DEF BastFlash
    <2> QED BY <1>1, <1>2, <1>7, <1>8, <1>11, <2>2, <2>3, <2>4 DEF BastFlash, BastDrives
  <1>12. t \in BastDrives
    BY <1>1, <1>2, <1>7 DEF BastDrives
  <1> QED BY <1>1, <1>3, <1>8, <1>9, <1>10, <1>11, <1>12 DEF BastReplaces

\* New tables.
BastSets(s, t, m) == t \in BastDrives /\ t.map = m /\ SameFlash(s, t) /\ SameManager(s, t) /\ t.abort = s.abort

LEMMA BastSet ==
    ASSUME NEW s \in BastDrives, NEW m \in BastMaps(BastPlanes), NEW t, t = [s EXCEPT !.map = m]
    PROVE  BastSets(s, t, m)
  <1>1. PICK n, M : n = BastPlanes /\ M = BastMaps(n)
    OBVIOUS
  <1>2. s \in Drives(n, M) /\ m \in M
    BY <1>1 DEF BastDrives
  <1>3. t \in Drives(n, M) /\ t.map = m /\ SameFlash(s, t) /\ SameManager(s, t) /\ t.abort = s.abort
    BY <1>2, SetMap
  <1> QED BY <1>1, <1>3 DEF BastSets, BastDrives

LEMMA BastFlashSame ==
    ASSUME NEW s, NEW t \in BastDrives, SameFlash(s, t), SameManager(s, t), BastFlash(s)
    PROVE  BastFlash(t)
  <1>1. PICK n \in Nat \ {0} : n = BastPlanes
    BY BastSizes
  <1>2. Stock(n, t) /\ \A c : Idle(t, c) <=> Idle(s, c)
    <2>1. Stock(n, s)
      BY <1>1 DEF BastFlash
    <2> QED BY <2>1, SameStock
  <1>3. SameBlocks(s, t) /\ t.data = s.data
    BY DEF SameFlash, SameBlocks
  <1>4. Fits(n, t) /\ \A x : PageAt(t, x) = PageAt(s, x)
    <2>1. Fits(n, s)
      BY <1>1 DEF BastFlash
    <2> QED BY <1>3, <2>1, SameFits
  <1>5. \A b : Used(t, b) = Used(s, b)
    BY <1>3, SameFits
  <1>6. \A b \in BlocksOf(n) : Idle(t, b) => Used(t, b) = 0 /\ \A p \in Pages : Cell(t, b, p) = "EMPTY"
    BY <1>1, <1>2, <1>4, <1>5 DEF BastFlash, Cell
  <1>7. \A x \in AddressesOf(n) : t.data[x] \in LogicalPages \cup {None}
    BY <1>1, <1>3 DEF BastFlash
  <1> QED BY <1>1, <1>2, <1>4, <1>6, <1>7 DEF BastFlash

-----------------------------------------------------------------------------
\* The tables, one entry at a time.
BastLogSets(s, t, l, e) ==
    /\ t \in BastDrives /\ SameFlash(s, t) /\ SameManager(s, t) /\ t.abort = s.abort
    /\ Updated(LBAs, s.map.log_map, t.map.log_map, l, e) /\ t.map.data_list = s.map.data_list
    /\ Updated(LBAs, LogTable(s), LogTable(t), l, e.block)
BastDataSets(s, t, l, b) ==
    /\ t \in BastDrives /\ SameFlash(s, t) /\ SameManager(s, t) /\ t.abort = s.abort
    /\ Updated(LBAs, s.map.data_list, t.map.data_list, l, b) /\ t.map.log_map = s.map.log_map
    /\ LogTable(t) = LogTable(s)

LEMMA BastFields ==
    ASSUME NEW s \in BastDrives
    PROVE  /\ s.map \in BastMaps(BastPlanes) /\ s.map.log_map \in [LBAs -> BastLog(BastPlanes)]
           /\ s.map.data_list \in [LBAs -> BlockSlots(BastPlanes)]
           /\ \A l \in LBAs : /\ s.map.log_map[l] \in BastLog(BastPlanes)
                              /\ LogOf(s, l) \in BlockSlots(BastPlanes) /\ DataOf(s, l) \in BlockSlots(BastPlanes)
                              /\ \A p \in Pages : OffsetOf(s, l, p) \in Pages \cup {None}
                              /\ LogTable(s)[l] = LogOf(s, l)
  <1>1. s.map \in BastMaps(BastPlanes)
    BY DEF BastDrives, Drives
  <1>2. s.map.log_map \in [LBAs -> BastLog(BastPlanes)] /\ s.map.data_list \in [LBAs -> BlockSlots(BastPlanes)]
    BY <1>1 DEF BastMaps
  <1>3. ASSUME NEW l \in LBAs
        PROVE  /\ s.map.log_map[l] \in BastLog(BastPlanes)
               /\ LogOf(s, l) \in BlockSlots(BastPlanes) /\ DataOf(s, l) \in BlockSlots(BastPlanes)
               /\ \A p \in Pages : OffsetOf(s, l, p) \in Pages \cup {None}
               /\ LogTable(s)[l] = LogOf(s, l)
    <2>1. PICK e \in BastLog(BastPlanes) : e = s.map.log_map[l]
      BY <1>2
    <2>2. e.block \in BlockSlots(BastPlanes) /\ \A p \in Pages : e.pages[p] \in Pages \cup {None}
      BY DEF BastLog
    <2>3. DataOf(s, l) \in BlockSlots(BastPlanes)
      BY <1>2 DEF DataOf
    <2> QED BY <2>1, <2>2, <2>3 DEF LogOf, OffsetOf, LogTable
  <1> QED BY <1>1, <1>2, <1>3

LEMMA BastLogSet ==
    ASSUME NEW s \in BastDrives, NEW l \in LBAs, NEW e \in BastLog(BastPlanes),
           NEW t, t = [s EXCEPT !.map.log_map[l] = e]
    PROVE  BastLogSets(s, t, l, e)
  <1>1. PICK f \in [LBAs -> BastLog(BastPlanes)] : f = s.map.log_map
    BY BastFields
  <1>2. PICK g : g = [f EXCEPT ![l] = e]
    OBVIOUS
  <1>3. g \in [LBAs -> BastLog(BastPlanes)] /\ Updated(LBAs, f, g, l, e)
    BY <1>2, Update, Zenon
  <1>4. PICK o \in BastMaps(BastPlanes) : o = s.map
    BY BastFields
  <1>5. PICK m : m = [o EXCEPT !.log_map = g]
    OBVIOUS
  <1>6. m \in BastMaps(BastPlanes) /\ m.log_map = g /\ m.data_list = o.data_list
    BY <1>3, <1>5 DEF BastMaps
  <1>7. t = [s EXCEPT !.map = m]
    BY <1>1, <1>2, <1>4, <1>5, Zenon
  <1>8. BastSets(s, t, m)
    BY <1>6, <1>7, BastSet, Zenon
  <1>9. t \in BastDrives /\ t.map = m /\ SameFlash(s, t) /\ SameManager(s, t) /\ t.abort = s.abort
    BY <1>8 DEF BastSets
  <1>10. Updated(LBAs, LogTable(s), LogTable(t), l, e.block)
    <2>1. \A k \in LBAs : LogTable(s)[k] = f[k].block /\ LogTable(t)[k] = g[k].block
      BY <1>1, <1>6, <1>9 DEF LogTable, LogOf
    <2> QED BY <1>3, <2>1 DEF Updated
  <1> QED BY <1>1, <1>3, <1>4, <1>6, <1>9, <1>10 DEF BastLogSets

LEMMA BastDataSet ==
    ASSUME NEW s \in BastDrives, NEW l \in LBAs, NEW b \in BlockSlots(BastPlanes),
           NEW t, t = [s EXCEPT !.map.data_list[l] = b]
    PROVE  BastDataSets(s, t, l, b)
  <1>1. PICK f \in [LBAs -> BlockSlots(BastPlanes)] : f = s.map.data_list
    BY BastFields
  <1>2. PICK g : g = [f EXCEPT ![l] = b]
    OBVIOUS
  <1>3. g \in [LBAs -> BlockSlots(BastPlanes)] /\ Updated(LBAs, f, g, l, b)
    BY <1>2, Update, Zenon
  <1>4. PICK o \in BastMaps(BastPlanes) : o = s.map
    BY BastFields
  <1>5. PICK m : m = [o EXCEPT !.data_list = g]
    OBVIOUS
  <1>6. m \in BastMaps(BastPlanes) /\ m.data_list = g /\ m.log_map = o.log_map
    BY <1>3, <1>5 DEF BastMaps
  <1>7. t = [s EXCEPT !.map = m]
    BY <1>1, <1>2, <1>4, <1>5, Zenon
  <1>8. BastSets(s, t, m)
    BY <1>6, <1>7, BastSet, Zenon
  <1>9. t \in BastDrives /\ t.map = m /\ SameFlash(s, t) /\ SameManager(s, t) /\ t.abort = s.abort
    BY <1>8 DEF BastSets
  <1>10. LogTable(t) = LogTable(s)
    BY <1>4, <1>6, <1>9 DEF LogTable, LogOf
  <1> QED BY <1>1, <1>3, <1>4, <1>6, <1>9, <1>10 DEF BastDataSets

LEMMA NoLogIs ==
    /\ Bast!NoLog \in BastLog(BastPlanes) /\ Bast!NoLog.block = None
    /\ \A p \in Pages : Bast!NoLog.pages[p] = None
  <1>1. PICK e : e = [block |-> None, pages |-> [p \in Pages |-> None]]
    OBVIOUS
  <1>2. e = Bast!NoLog
    BY <1>1, BastNames, Zenon DEF Bast!NoLog, Bast!NewLog
  <1>3. e \in BastLog(BastPlanes) /\ e.block = None /\ \A p \in Pages : e.pages[p] = None
    BY <1>1 DEF BastLog, BlockSlots
  <1> QED BY <1>2, <1>3

\* What another logical block has is left alone.
Elsewhere(s, t, l, v) ==
    \A k \in LBAs : k # l =>
        /\ t.map.log_map[k] = s.map.log_map[k] /\ t.map.data_list[k] = s.map.data_list[k]
        /\ LogOf(s, k) # None => SameCells(s, t, LogOf(s, k), v)
        /\ DataOf(s, k) # None => SameCells(s, t, DataOf(s, k), v)
AlikeElsewhere(l, A, B) == \A k \in LBAs, p \in Pages : k # l => (Linear(k, p) \in A <=> Linear(k, p) \in B)

LEMMA KeptElsewhere ==
    ASSUME NEW s \in BastDrives, NEW t, NEW l, NEW v, Elsewhere(s, t, l, v),
           \A k \in LBAs, p \in Pages : k # l => Linear(k, p) # v,
           NEW alive, NEW after, AlikeElsewhere(l, alive, after),
           NEW told, NEW then, AlikeElsewhere(l, told, then),
           NEW k \in LBAs, k # l, BlockKept(s, alive, k), DataKept(s, told, k)
    PROVE  BlockKept(t, after, k) /\ DataKept(t, then, k)
  <1>1. /\ LogOf(t, k) = LogOf(s, k) /\ DataOf(t, k) = DataOf(s, k)
        /\ \A p \in Pages : OffsetOf(t, k, p) = OffsetOf(s, k, p)
        /\ LogOf(s, k) # None => SameCells(s, t, LogOf(s, k), v)
        /\ DataOf(s, k) # None => SameCells(s, t, DataOf(s, k), v)
    BY DEF Elsewhere, LogOf, DataOf, OffsetOf
  <1>2. PICK b : b = LogOf(s, k)
    OBVIOUS
  <1>3. PICK d : d = DataOf(s, k)
    OBVIOUS
  <1>4. \A p \in Pages : OffsetOf(s, k, p) \in Pages \cup {None}
    BY BastFields
  <1>5. ASSUME b # None PROVE \A p \in Pages : Cell(t, b, p) = "EMPTY" <=> p >= Used(t, b)
    BY <1>1, <1>2, <1>5 DEF SameCells, BlockKept
  <1>6. ASSUME NEW p \in Pages, OffsetOf(s, k, p) # None
        PROVE  Linear(k, p) \in after /\ Stored(t, b, OffsetOf(s, k, p), Linear(k, p))
    <2>1. PICK q \in Pages : q = OffsetOf(s, k, p)
      BY <1>4, <1>6
    <2>2. b # None
      BY <1>2, <1>6 DEF BlockKept
    <2>3. Linear(k, p) \in alive /\ Stored(s, b, q, Linear(k, p)) /\ Linear(k, p) # v
      BY <1>2, <1>6, <2>1 DEF BlockKept
    <2>4. Stored(t, b, q, Linear(k, p))
      BY <1>1, <1>2, <2>2, <2>3 DEF SameCells, Stored
    <2> QED BY <2>1, <2>3, <2>4 DEF AlikeElsewhere
  <1>7. ASSUME NEW p \in Pages, Linear(k, p) \in after, OffsetOf(s, k, p) = None
        PROVE  d # None /\ Stored(t, d, p, Linear(k, p))
    <2>1. Linear(k, p) \in alive /\ Linear(k, p) # v
      BY <1>7 DEF AlikeElsewhere
    <2>2. d # None /\ Stored(s, d, p, Linear(k, p))
      BY <1>3, <1>7, <2>1 DEF BlockKept
    <2> QED BY <1>1, <1>3, <2>1, <2>2 DEF SameCells, Stored
  <1>8. BlockKept(t, after, k)
    <2>1. b = None => \A p \in Pages : OffsetOf(t, k, p) = None
      BY <1>1, <1>2 DEF BlockKept
    <2> QED BY <1>1, <1>2, <1>3, <1>5, <1>6, <1>7, <2>1 DEF BlockKept
  <1>9. DataKept(t, then, k)
    <2>1. ASSUME NEW p \in Pages, d # None, Cell(t, d, p) = "VALID" PROVE Linear(k, p) \in then
      <3>1. Cell(s, d, p) = "VALID"
        BY <1>1, <1>3, <2>1 DEF SameCells
      <3>2. Linear(k, p) \in told
        BY <1>3, <2>1, <3>1 DEF DataKept
      <3> QED BY <3>2 DEF AlikeElsewhere
    <2> QED BY <1>1, <1>3, <2>1 DEF DataKept
  <1> QED BY <1>8, <1>9

\* The blocks of a logical block are in use, and nobody else's.
BastApart(s, l) ==
    /\ LogOf(s, l) # None => LogOf(s, l) \in BlocksOf(BastPlanes) /\ ~Idle(s, LogOf(s, l))
    /\ DataOf(s, l) # None => DataOf(s, l) \in BlocksOf(BastPlanes) /\ ~Idle(s, DataOf(s, l))
    /\ LogOf(s, l) # None => DataOf(s, l) # LogOf(s, l)
    /\ \A k \in LBAs : k # l => /\ LogOf(s, k) # None => LogOf(s, k) \notin {LogOf(s, l), DataOf(s, l)}
                                /\ DataOf(s, k) # None => DataOf(s, k) \notin {LogOf(s, l), DataOf(s, l)}

LEMMA Apart ==
    ASSUME NEW s, NEW alive, NEW told, BastWhole(s, alive, told), NEW l \in LBAs
    PROVE  BastApart(s, l)
  <1>1. PICK f, d, J, x, y : /\ f = LogTable(s) /\ d = s.map.data_list /\ J = Idles(BastPlanes, s)
                             /\ x = s.log_active /\ y = s.data_active
    OBVIOUS
  <1>2. Owns(BastPlanes, J, f, d, x, y) /\ s \in BastDrives
    BY <1>1 DEF BastWhole, BastFlash
  <1>3. \A k \in LBAs : /\ LogOf(s, k) = f[k] /\ DataOf(s, k) = d[k]
                        /\ f[k] \in BlockSlots(BastPlanes) /\ d[k] \in BlockSlots(BastPlanes)
    BY <1>1, <1>2, BastFields DEF DataOf
  <1>4. \A b \in BlocksOf(BastPlanes) : b \in J <=> Idle(s, b)
    BY <1>1 DEF Idles
  <1>5. /\ \A k \in LBAs : f[k] # None => f[k] \notin J /\ \A h \in LBAs : d[h] # f[k] /\ (f[h] = f[k] => h = k)
        /\ \A k \in LBAs : d[k] # None => d[k] \notin J /\ \A h \in LBAs : d[h] = d[k] => h = k
    BY <1>2 DEF Owns
  <1>6. \A k \in LBAs : /\ f[k] # None => f[k] \in BlocksOf(BastPlanes)
                        /\ d[k] # None => d[k] \in BlocksOf(BastPlanes)
    BY <1>3 DEF BlockSlots
  <1> QED BY <1>3, <1>4, <1>5, <1>6 DEF BastApart

-----------------------------------------------------------------------------
\* FtlImpl_Bast::is_sequential, the switch.
LEMMA BastPromoted ==
    ASSUME NEW s \in BastDrives, NEW t, t = Bast!PromoteToData(s)
    PROVE  /\ t \in BastDrives /\ t.map = s.map /\ t.abort = s.abort /\ SameFlash(s, t)
           /\ t.invalid_list = s.invalid_list /\ \A b : Idle(t, b) <=> Idle(s, b)
           /\ t.log_active = s.log_active - 1 /\ t.data_active = s.data_active + 1
           /\ BastFlash(s) => BastFlash(t)
  <1>1. PICK n \in Nat \ {0} : n = BastPlanes
    BY BastSizes
  <1>2. PICK M : M = BastMaps(n)
    OBVIOUS
  <1>3. s \in Drives(n, M) /\ s.log_active \in Int /\ s.data_active \in Int
    BY <1>1, <1>2 DEF BastDrives, Drives
  <1>4. PICK x \in Int : x = s.log_active - 1
    BY <1>3
  <1>5. PICK y \in Int : y = s.data_active + 1
    BY <1>3
  <1>6. t = [s EXCEPT !.data_active = y, !.log_active = x]
    BY <1>4, <1>5, Zenon DEF Bast!PromoteToData
  <1>7. /\ t \in Drives(n, M) /\ t.map = s.map /\ t.abort = s.abort /\ SameFlash(s, t)
        /\ t.invalid_list = s.invalid_list /\ t.free_list = s.free_list
        /\ t.simpleCurrentFree = s.simpleCurrentFree /\ t.log_active = x /\ t.data_active = y
    BY <1>3, <1>6 DEF Drives, SameFlash
  <1>8. \A b : Idle(t, b) <=> Idle(s, b)
    BY <1>7 DEF Idle
  <1>9. ASSUME BastFlash(s) PROVE BastFlash(t)
    <2>1. Stock(n, s) /\ s.free_list \in Seq(BlocksOf(n)) /\ s.simpleCurrentFree \in Nat
      BY <1>1, <1>3, <1>9 DEF BastFlash, Drives
    <2>2. Len(s.free_list) \in Nat
      BY <2>1, LenProperties
    <2>3. t.simpleCurrentFree = Len(t.free_list) + t.log_active + t.data_active
      <3>1. PICK q \in Nat : q = Len(s.free_list)
        BY <2>2
      <3>2. PICK f \in Nat : f = s.simpleCurrentFree
        BY <2>1
      <3>3. PICK i \in Int : i = s.log_active
        BY <1>3
      <3>4. PICK j \in Int : j = s.data_active
        BY <1>3
      <3>5. s.simpleCurrentFree = Len(s.free_list) + s.log_active + s.data_active
        BY <2>1 DEF Stock
      <3>6. f = q + x + y
        <4>1. f = q + i + j
          BY <3>1, <3>2, <3>3, <3>4, <3>5, Zenon
        <4>2. x = i - 1 /\ y = j + 1
          BY <1>4, <1>5, <3>3, <3>4, Zenon
        <4> QED BY <4>1, <4>2
      <3> QED BY <1>7, <3>1, <3>2, <3>6
    <2>4. Stock(n, t)
      BY <1>7, <2>1, <2>3 DEF Stock
    <2>5. SameBlocks(s, t) /\ t.data = s.data
      BY <1>7 DEF SameFlash, SameBlocks
    <2>6. /\ Fits(n, t) /\ \A x1 : PageAt(t, x1) = PageAt(s, x1)
          /\ \A b : Used(t, b) = Used(s, b)
      <3>1. Fits(n, s)
        BY <1>1, <1>9 DEF BastFlash
      <3> QED BY <2>5, <3>1, SameFits
    <2>7. \A b \in BlocksOf(n) : Idle(t, b) => Used(t, b) = 0 /\ \A p \in Pages : Cell(t, b, p) = "EMPTY"
      BY <1>1, <1>8, <1>9, <2>6 DEF BastFlash, Cell
    <2>8. \A x1 \in AddressesOf(n) : t.data[x1] \in LogicalPages \cup {None}
      BY <1>1, <1>9, <2>5 DEF BastFlash
    <2> QED BY <1>1, <1>2, <1>7, <2>4, <2>6, <2>7, <2>8 DEF BastFlash, BastDrives
  <1> QED BY <1>1, <1>2, <1>4, <1>5, <1>7, <1>8, <1>9 DEF BastDrives

\* The data block of a logical block, if it has one, is erased.
Vacant(b) == IF b = None THEN {} ELSE {b}
BastClears(s, t, d) ==
    /\ BastFlash(t) /\ Idles(BastPlanes, t) = Idles(BastPlanes, s) \cup Vacant(d)
    /\ t.log_active = s.log_active
    /\ t.data_active = (IF d = None THEN s.data_active ELSE s.data_active - 1)
    /\ \A c \in BlocksOf(BastPlanes) : c # d => SameCells(s, t, c, None) /\ (Idle(t, c) <=> Idle(s, c))
BastErasesData(s, t, d) ==
    /\ t \in BastDrives /\ t.invalid_list = s.invalid_list /\ Sticky(s, t) /\ t.map = s.map
    /\ BastFlash(s) /\ (d # None => ~Idle(s, d)) /\ t.abort = "none" => BastClears(s, t, d)

LEMMA DataErased ==
    ASSUME NEW s \in BastDrives, NEW l \in LBAs, NEW d, d = DataOf(s, l), NEW t, t = Bast!ErasedData(s, l)
    PROVE  BastErasesData(s, t, d)
  <1>1. CASE d = None
    <2>1. t = s
      BY <1>1, BastNames, Zenon DEF Bast!ErasedData, DataOf
    <2>2. \A c : SameCells(s, t, c, None)
      BY <2>1, SameCellsFlash DEF SameFlash
    <2>3. Sticky(s, t)
      BY <2>1, StickySame
    <2>4. Idles(BastPlanes, t) = Idles(BastPlanes, s) \cup Vacant(d)
      BY <1>1, <2>1 DEF Vacant
    <2> QED BY <1>1, <2>1, <2>2, <2>3, <2>4 DEF BastErasesData, BastClears
  <1>2. CASE d # None
    <2>1. d \in BlocksOf(BastPlanes)
      BY <1>2, BastFields DEF BlockSlots
    <2>2. PICK type : type = "DATA"
      OBVIOUS
    <2>3. t = Bast!EraseAndInvalidate(s, d, type)
      BY <1>2, <2>2, BastNames, Zenon DEF Bast!ErasedData, DataOf
    <2>4. BastReleases(s, t, d, type)
      BY <2>1, <2>3, BastReleased
    <2>5. /\ t \in BastDrives /\ t.invalid_list = s.invalid_list /\ Sticky(s, t) /\ t.map = s.map
          /\ BastFlash(s) /\ ~Idle(s, d) /\ t.abort = "none" => BastFreed(s, t, d, type)
      BY <2>4 DEF BastReleases
    <2>6. BastFreed(s, t, d, type) => BastClears(s, t, d)
      BY <1>2, <2>2 DEF BastFreed, BastClears, Vacant
    <2> QED BY <1>2, <2>5, <2>6 DEF BastErasesData
  <1> QED BY <1>1, <1>2

LEMMA OwnsVacated ==
    ASSUME NEW n, NEW J, NEW f, NEW d, NEW x, NEW y, Owns(n, J, f, d, x, y),
           NEW l \in LBAs, NEW b, b = d[l], NEW e, Updated(LBAs, d, e, l, None)
    PROVE  Owns(n, J \cup Vacant(b), f, e, x, IF b = None THEN y ELSE y - 1)
  <1>1. CASE b = None
    <2>1. \A k \in LBAs : e[k] = d[k]
      BY <1>1 DEF Updated
    <2>2. Held(e) = Held(d) /\ J \cup Vacant(b) = J
      BY <1>1, <2>1 DEF Held, Vacant
    <2> QED BY <1>1, <2>1, <2>2 DEF Owns
  <1>2. CASE b # None
    <2>1. Owns(n, J \cup {b}, f, e, x, y - 1)
      BY <1>2, DisownsData
    <2> QED BY <1>2, <2>1 DEF Vacant
  <1> QED BY <1>1, <1>2

-----------------------------------------------------------------------------
\* A step that only touches what logical block l has.
Touches(s, t, l, v) ==
    /\ \A k \in LBAs : k # l => /\ t.map.log_map[k] = s.map.log_map[k]
                                /\ t.map.data_list[k] = s.map.data_list[k]
    /\ \A c \in BlocksOf(BastPlanes) :
           ~Idle(s, c) /\ c # LogOf(s, l) /\ c # DataOf(s, l) => SameCells(s, t, c, v)
    /\ \A k \in LBAs, p \in Pages : k # l => Linear(k, p) # v

LEMMA NoneIsNoPage == \A k \in LBAs, p \in Pages : Linear(k, p) # None
  <1>1. SUFFICES ASSUME NEW k \in LBAs, NEW p \in Pages PROVE Linear(k, p) \in Nat
    BY DEF None
  <1>2. k \in Nat /\ p \in Nat /\ BlockSize \in Nat
    BY Sizes DEF LBAs, Pages
  <1>3. k * BlockSize \in Nat
    BY <1>2
  <1> QED BY <1>2, <1>3 DEF Linear

LEMMA BastWholeBy ==
    ASSUME NEW s, NEW t, NEW alive, NEW told, BastWhole(s, alive, told),
           NEW l \in LBAs, NEW v, Touches(s, t, l, v),
           NEW after, AlikeElsewhere(l, alive, after), NEW then, AlikeElsewhere(l, told, then),
           BastFlash(t), BlockKept(t, after, l), DataKept(t, then, l),
           Owns(BastPlanes, Idles(BastPlanes, t), LogTable(t), t.map.data_list, t.log_active, t.data_active)
    PROVE  BastWhole(t, after, then)
  <1>1. s \in BastDrives /\ \A k \in LBAs : BlockKept(s, alive, k) /\ DataKept(s, told, k)
    BY DEF BastWhole, BastFlash
  <1>2. BastApart(s, l)
    BY Apart
  <1>3. Elsewhere(s, t, l, v)
    <2>1. ASSUME NEW k \in LBAs, k # l
          PROVE  /\ LogOf(s, k) # None => SameCells(s, t, LogOf(s, k), v)
                 /\ DataOf(s, k) # None => SameCells(s, t, DataOf(s, k), v)
      <3>1. BastApart(s, k)
        BY Apart
      <3>2. /\ LogOf(s, k) # None => LogOf(s, k) \in BlocksOf(BastPlanes) /\ ~Idle(s, LogOf(s, k))
            /\ DataOf(s, k) # None => DataOf(s, k) \in BlocksOf(BastPlanes) /\ ~Idle(s, DataOf(s, k))
        BY <3>1 DEF BastApart
      <3>3. /\ LogOf(s, k) # None => LogOf(s, k) # LogOf(s, l) /\ LogOf(s, k) # DataOf(s, l)
            /\ DataOf(s, k) # None => DataOf(s, k) # LogOf(s, l) /\ DataOf(s, k) # DataOf(s, l)
        BY <1>2, <2>1 DEF BastApart
      <3> QED BY <3>2, <3>3 DEF Touches
    <2> QED BY <2>1 DEF Elsewhere, Touches
  <1>4. \A k \in LBAs, p \in Pages : k # l => Linear(k, p) # v
    BY DEF Touches
  <1>5. ASSUME NEW k \in LBAs PROVE BlockKept(t, after, k) /\ DataKept(t, then, k)
    <2>1. CASE k = l
      BY <2>1
    <2>2. CASE k # l
      BY <1>1, <1>3, <1>4, <2>2, KeptElsewhere
    <2> QED BY <2>1, <2>2
  <1> QED BY <1>5 DEF BastWhole

LEMMA BastAlike == \A l, A : AlikeElsewhere(l, A, A)
  BY DEF AlikeElsewhere

\* FtlImpl_Bast::is_sequential: the log block becomes the data block.
BastRetires(s, t, alive, l) ==
    /\ BastOk(t, alive, alive) /\ Sticky(s, t) /\ LogOf(t, l) = None
    /\ \A k \in LBAs : k # l => LogOf(t, k) = LogOf(s, k)

SwitchSteps(s, u, w, x, t, l, b, d) ==
    /\ u \in BastDrives /\ u.map = s.map /\ u.abort = s.abort /\ SameFlash(s, u)
    /\ u.invalid_list = s.invalid_list /\ \A c : Idle(u, c) <=> Idle(s, c)
    /\ u.log_active = s.log_active - 1 /\ u.data_active = s.data_active + 1
    /\ BastFlash(s) => BastFlash(u)
    /\ BastErasesData(u, w, d) /\ BastDataSets(w, x, l, b) /\ BastLogSets(x, t, l, Bast!NoLog)

LEMMA SwitchTaken ==
    ASSUME NEW s \in BastDrives, NEW l \in LBAs, NEW b, b = LogOf(s, l), NEW d, d = DataOf(s, l),
           NEW t, t = Bast!SwitchLog(s, l)
    PROVE  \E u, w, x : SwitchSteps(s, u, w, x, t, l, b, d)
  <1>1. PICK u : u = Bast!PromoteToData(s)
    OBVIOUS
  <1>2. PICK w : w = Bast!ErasedData(u, l)
    OBVIOUS
  <1>3. PICK x : x = [w EXCEPT !.map.data_list[l] = b]
    OBVIOUS
  <1>4. t = [x EXCEPT !.map.log_map[l] = Bast!NoLog]
    BY <1>1, <1>2, <1>3, Zenon DEF Bast!SwitchLog, Bast!DisposeLog, LogOf
  <1>5. /\ u \in BastDrives /\ u.map = s.map /\ u.abort = s.abort /\ SameFlash(s, u)
        /\ u.invalid_list = s.invalid_list /\ \A c : Idle(u, c) <=> Idle(s, c)
        /\ u.log_active = s.log_active - 1 /\ u.data_active = s.data_active + 1
        /\ BastFlash(s) => BastFlash(u)
    BY <1>1, BastPromoted
  <1>6. d = DataOf(u, l)
    BY <1>5 DEF DataOf
  <1>7. BastErasesData(u, w, d)
    BY <1>2, <1>5, <1>6, DataErased
  <1>8. w \in BastDrives /\ b \in BlockSlots(BastPlanes)
    BY <1>7, BastFields DEF BastErasesData
  <1>9. BastDataSets(w, x, l, b)
    BY <1>3, <1>8, BastDataSet
  <1>10. x \in BastDrives
    BY <1>9 DEF BastDataSets
  <1>11. PICK e \in BastLog(BastPlanes) : e = Bast!NoLog
    BY NoLogIs
  <1>12. BastLogSets(x, t, l, e)
    BY <1>4, <1>10, <1>11, BastLogSet
  <1> QED BY <1>5, <1>7, <1>9, <1>11, <1>12 DEF SwitchSteps

LEMMA Switched ==
    ASSUME NEW s, NEW alive, BastOk(s, alive, alive), NEW l \in LBAs, LogOf(s, l) # None,
           Bast!Sequential(s.map.log_map[l]), NEW t, t = Bast!SwitchLog(s, l)
    PROVE  BastRetires(s, t, alive, l)
  <1>1. s \in BastDrives /\ s.invalid_list = << >> /\ s.abort \in Harmless
    BY DEF BastOk
  <1>2. PICK b : b = LogOf(s, l)
    OBVIOUS
  <1>3. PICK d : d = DataOf(s, l)
    OBVIOUS
  <1>4. PICK u, w, x : SwitchSteps(s, u, w, x, t, l, b, d)
    BY <1>1, <1>2, <1>3, SwitchTaken
  <1>5. /\ u \in BastDrives /\ u.map = s.map /\ u.abort = s.abort /\ SameFlash(s, u)
        /\ u.invalid_list = s.invalid_list /\ \A c : Idle(u, c) <=> Idle(s, c)
        /\ u.log_active = s.log_active - 1 /\ u.data_active = s.data_active + 1
        /\ BastFlash(s) => BastFlash(u)
        /\ BastErasesData(u, w, d) /\ BastDataSets(w, x, l, b) /\ BastLogSets(x, t, l, Bast!NoLog)
    BY <1>4 DEF SwitchSteps
  <1>6. /\ w \in BastDrives /\ w.invalid_list = u.invalid_list /\ Sticky(u, w) /\ w.map = u.map
        /\ BastFlash(u) /\ (d # None => ~Idle(u, d)) /\ w.abort = "none" => BastClears(u, w, d)
    BY <1>5 DEF BastErasesData
  <1>7. /\ x \in BastDrives /\ SameFlash(w, x) /\ SameManager(w, x) /\ x.abort = w.abort
        /\ Updated(LBAs, w.map.data_list, x.map.data_list, l, b) /\ x.map.log_map = w.map.log_map
        /\ LogTable(x) = LogTable(w)
    BY <1>5 DEF BastDataSets
  <1>8. /\ t \in BastDrives /\ SameFlash(x, t) /\ SameManager(x, t) /\ t.abort = x.abort
        /\ Updated(LBAs, x.map.log_map, t.map.log_map, l, Bast!NoLog) /\ t.map.data_list = x.map.data_list
        /\ Updated(LBAs, LogTable(x), LogTable(t), l, None)
    BY <1>5, NoLogIs DEF BastLogSets
  <1>9. Sticky(s, t)
    <2>1. s.abort = u.abort /\ t.abort = w.abort
      BY <1>5, <1>7, <1>8
    <2> QED BY <1>6, <2>1 DEF Sticky
  <1>10. t.invalid_list = << >> /\ t.abort \in Harmless
    BY <1>1, <1>5, <1>6, <1>7, <1>8, <1>9 DEF SameManager, Sticky
  <1>11. /\ LogOf(t, l) = None /\ (\A p \in Pages : OffsetOf(t, l, p) = None) /\ DataOf(t, l) = b
         /\ \A k \in LBAs : k # l => /\ t.map.log_map[k] = s.map.log_map[k]
                                     /\ t.map.data_list[k] = s.map.data_list[k]
    <2>1. t.map.log_map[l] = Bast!NoLog /\ t.map.data_list[l] = b
      BY <1>7, <1>8 DEF Updated
    <2>2. \A k \in LBAs : k # l => /\ t.map.log_map[k] = w.map.log_map[k]
                                   /\ t.map.data_list[k] = w.map.data_list[k]
      BY <1>7, <1>8 DEF Updated
    <2> QED BY <1>5, <1>6, <2>1, <2>2, NoLogIs DEF LogOf, OffsetOf, DataOf
  <1>12. ASSUME t.abort = "none" PROVE BastWhole(t, alive, alive)
    <2>1. s.abort = "none" /\ w.abort = "none"
      BY <1>7, <1>8, <1>9, <1>12 DEF Sticky
    <2>2. BastWhole(s, alive, alive) /\ BastFlash(s)
      BY <2>1 DEF BastOk, BastWhole
    <2>3. BastApart(s, l)
      BY <2>2, Apart
    <2>4. b \in BlocksOf(BastPlanes) /\ b # d /\ (d # None => d \in BlocksOf(BastPlanes) /\ ~Idle(s, d))
      BY <1>2, <1>3, <2>3 DEF BastApart
    <2>5. BastClears(u, w, d)
      BY <1>5, <1>6, <2>1, <2>2, <2>4
    <2>6. /\ BastFlash(w) /\ Idles(BastPlanes, w) = Idles(BastPlanes, u) \cup Vacant(d)
          /\ w.log_active = u.log_active
          /\ w.data_active = (IF d = None THEN u.data_active ELSE u.data_active - 1)
          /\ \A c \in BlocksOf(BastPlanes) : c # d => SameCells(u, w, c, None)
      BY <2>5 DEF BastClears
    <2>7. BastFlash(t)
      <3>1. BastFlash(x)
        BY <1>7, <2>6, BastFlashSame
      <3> QED BY <1>8, <3>1, BastFlashSame
    <2>8. \A c \in BlocksOf(BastPlanes) : c # d => SameCells(s, t, c, None)
      <3>1. SUFFICES ASSUME NEW c \in BlocksOf(BastPlanes), c # d PROVE SameCells(s, t, c, None)
        OBVIOUS
      <3>2. SameCells(s, u, c, None) /\ SameCells(u, w, c, None)
        BY <1>5, <2>6, <3>1, SameCellsFlash
      <3>3. SameCells(w, x, c, None) /\ SameCells(x, t, c, None)
        BY <1>7, <1>8, SameCellsFlash
      <3>4. SameCells(s, w, c, None)
        BY <3>2, SameCellsChain
      <3>5. SameCells(s, x, c, None)
        BY <3>3, <3>4, SameCellsChain
      <3> QED BY <3>3, <3>5, SameCellsChain
    <2>9. Touches(s, t, l, None)
      BY <1>3, <1>11, <2>8, NoneIsNoPage DEF Touches
    <2>10. Owns(BastPlanes, Idles(BastPlanes, t), LogTable(t), t.map.data_list, t.log_active, t.data_active)
      <3>1. PICK J, f, g, h, y, z : /\ J = Idles(BastPlanes, s) /\ f = LogTable(s) /\ h = s.map.data_list
                                    /\ g = LogTable(t) /\ y = s.log_active /\ z = s.data_active
        OBVIOUS
      <3>2. Owns(BastPlanes, J, f, h, y, z)
        BY <2>2, <3>1 DEF BastWhole
      <3>3. PICK e0 : e0 = [k \in LBAs |-> IF k = l THEN None ELSE h[k]]
        OBVIOUS
      <3>4. Updated(LBAs, h, e0, l, None) /\ e0[l] = None
        BY <3>3 DEF Updated
      <3>5. PICK e : e = t.map.data_list
        OBVIOUS
      <3>6. h[l] = d /\ f[l] = b /\ b # None
        BY <1>1, <1>2, <1>3, <3>1, BastFields DEF DataOf
      <3>7. PICK K : K = J \cup Vacant(d)
        OBVIOUS
      <3>8. PICK z0 : z0 = IF d = None THEN z ELSE z - 1
        OBVIOUS
      <3>9. Owns(BastPlanes, K, f, e0, y, z0)
        BY <3>2, <3>4, <3>6, <3>7, <3>8, OwnsVacated
      <3>10. Updated(LBAs, f, g, l, None) /\ Updated(LBAs, e0, e, l, b)
        <4>1. Updated(LBAs, LogTable(w), g, l, None) /\ LogTable(w) = f
          BY <1>5, <1>6, <1>7, <1>8, <3>1 DEF LogTable, LogOf
        <4>2. Updated(LBAs, h, e, l, b)
          BY <1>5, <1>6, <1>7, <1>8, <3>1, <3>5
        <4> QED BY <3>4, <4>1, <4>2 DEF Updated
      <3>11. Owns(BastPlanes, K, g, e, y - 1, z0 + 1)
        BY <3>4, <3>6, <3>9, <3>10, OwnsSwitched
      <3>12. Idles(BastPlanes, t) = K
        <4>1. Idles(BastPlanes, u) = J
          BY <1>5, <3>1 DEF Idles
        <4>2. Idles(BastPlanes, t) = Idles(BastPlanes, w)
          BY <1>7, <1>8, SameIdles
        <4> QED BY <2>6, <3>7, <4>1, <4>2
      <3>13. t.log_active = y - 1
        BY <1>5, <1>7, <1>8, <2>6, <3>1 DEF SameManager
      <3>14. t.data_active = z0 + 1
        <4>1. t.data_active = (IF d = None THEN u.data_active ELSE u.data_active - 1)
          BY <1>7, <1>8, <2>6 DEF SameManager
        <4>2. u.data_active = z + 1 /\ z \in Int
          BY <1>1, <1>5, <3>1 DEF BastDrives, Drives
        <4> QED BY <3>8, <4>1, <4>2
      <3> QED BY <3>1, <3>5, <3>11, <3>12, <3>13, <3>14
    <2>11. \A p \in Pages : OffsetOf(s, l, p) = p /\ p # None
      BY BastNames DEF Bast!Sequential, OffsetOf, Pages, None
    <2>12. \A p \in Pages : Linear(l, p) \in alive /\ Stored(t, b, p, Linear(l, p))
      <3>1. ASSUME NEW p \in Pages PROVE Linear(l, p) \in alive /\ Stored(t, b, p, Linear(l, p))
        <4>1. BlockKept(s, alive, l)
          BY <2>2 DEF BastWhole
        <4>2. Linear(l, p) \in alive /\ Stored(s, b, p, Linear(l, p))
          BY <1>2, <2>11, <4>1 DEF BlockKept
        <4>3. SameCells(s, t, b, None)
          BY <2>4, <2>8
        <4> QED BY <4>2, <4>3 DEF SameCells, Stored
      <3> QED BY <3>1
    <2>13. BlockKept(t, alive, l)
      <3>1. b # None
        BY <1>2
      <3> QED BY <1>11, <2>12, <3>1 DEF BlockKept
    <2>14. DataKept(t, alive, l)
      BY <1>11, <2>12 DEF DataKept
    <2>15. AlikeElsewhere(l, alive, alive)
      BY BastAlike
    <2> QED BY <2>2, <2>7, <2>9, <2>10, <2>13, <2>14, <2>15, BastWholeBy
  <1>13. BastOk(t, alive, alive)
    BY <1>8, <1>10, <1>12 DEF BastOk
  <1>14. \A k \in LBAs : k # l => LogOf(t, k) = LogOf(s, k)
    BY <1>11 DEF LogOf
  <1> QED BY <1>9, <1>11, <1>13, <1>14 DEF BastRetires

-----------------------------------------------------------------------------
\* FtlImpl_Bast::random_merge: the log and the data block are copied to a new one.
LookupOf(s, l, p) ==
    IF OffsetOf(s, l, p) # None THEN Linear(LogOf(s, l), OffsetOf(s, l, p))
    ELSE IF DataOf(s, l) # None THEN Linear(DataOf(s, l), p)
    ELSE None
CopiedOf(s, l) == {p \in Pages : LookupOf(s, l, p) # None /\ PageAt(s, LookupOf(s, l, p)) = "VALID"}
CopyOf(s, l) == [p \in CopiedOf(s, l) |-> s.data[LookupOf(s, l, p)]]

LEMMA LookupTable ==
    ASSUME NEW s, NEW l \in LBAs, NEW p \in Pages
    PROVE  Bast!Lookup(s, l, p) = LookupOf(s, l, p)
  <1>1. Bast!Lookup(s, l, p) = IF s.map.log_map[l].pages[p] # None
                               THEN Linear(s.map.log_map[l].block, s.map.log_map[l].pages[p])
                               ELSE IF s.map.data_list[l] # None THEN Linear(s.map.data_list[l], p)
                               ELSE None
    BY BastNames, Zenon DEF Bast!Lookup
  <1> QED BY <1>1, Zenon DEF LookupOf, LogOf, OffsetOf, DataOf

\* What a page that can be looked up holds.
LEMMA LookedUp ==
    ASSUME NEW s \in BastDrives, NEW l \in LBAs, LogOf(s, l) # None, NEW p \in Pages, NEW a, a = LookupOf(s, l, p)
    PROVE  a = None \/ (a \in AddressesOf(BastPlanes) /\ s.data[a] \in Int)
  <1>1. PICK n \in Nat \ {0} : n = BastPlanes
    BY BastSizes
  <1>2. LogOf(s, l) \in BlocksOf(n) /\ DataOf(s, l) \in BlockSlots(n) /\ OffsetOf(s, l, p) \in Pages \cup {None}
    BY <1>1, BastFields DEF BlockSlots
  <1>3. s.data \in [AddressesOf(n) -> Int]
    BY <1>1 DEF BastDrives, Drives
  <1>4. a = None \/ a \in AddressesOf(n)
    <2>1. CASE OffsetOf(s, l, p) # None
      <3>1. OffsetOf(s, l, p) \in Pages /\ a = Linear(LogOf(s, l), OffsetOf(s, l, p))
        BY <1>2, <2>1 DEF LookupOf
      <3> QED BY <1>2, <3>1, Geometry
    <2>2. CASE OffsetOf(s, l, p) = None /\ DataOf(s, l) # None
      <3>1. DataOf(s, l) \in BlocksOf(n) /\ a = Linear(DataOf(s, l), p)
        BY <1>2, <2>2 DEF LookupOf, BlockSlots
      <3> QED BY <3>1, Geometry
    <2>3. CASE OffsetOf(s, l, p) = None /\ DataOf(s, l) = None
      BY <2>3 DEF LookupOf
    <2> QED BY <2>1, <2>2, <2>3
  <1>5. \A c \in AddressesOf(n) : s.data[c] \in Int
    BY <1>3
  <1>6. CASE a = None
    BY <1>6
  <1>7. CASE a \in AddressesOf(n)
    <2>1. s.data[a] \in Int
      BY <1>5, <1>7
    <2> QED BY <1>1, <1>7, <2>1
  <1> QED BY <1>4, <1>6, <1>7

\* What is copied is what is alive.
LEMMA CopiesAlive ==
    ASSUME NEW s \in BastDrives, NEW l \in LBAs, NEW alive, BlockKept(s, alive, l), DataKept(s, alive, l),
           NEW p \in Pages
    PROVE  /\ p \in CopiedOf(s, l) <=> Linear(l, p) \in alive
           /\ p \in CopiedOf(s, l) => CopyOf(s, l)[p] = Linear(l, p)
  <1>1. PICK a : a = LookupOf(s, l, p)
    OBVIOUS
  <1>2. p \in CopiedOf(s, l) <=> a # None /\ PageAt(s, a) = "VALID"
    BY <1>1 DEF CopiedOf
  <1>3. p \in CopiedOf(s, l) => CopyOf(s, l)[p] = s.data[a]
    BY <1>1 DEF CopyOf
  <1>4. CASE OffsetOf(s, l, p) # None
    <2>1. a = Linear(LogOf(s, l), OffsetOf(s, l, p))
      BY <1>1, <1>4 DEF LookupOf
    <2>2. Linear(l, p) \in alive /\ PageAt(s, a) = "VALID" /\ s.data[a] = Linear(l, p)
      BY <1>4, <2>1 DEF BlockKept, Stored, Cell, Datum
    <2>3. a # None
      <3>1. PICK n \in Nat \ {0} : n = BastPlanes
        BY BastSizes
      <3>2. LogOf(s, l) # None
        BY <1>4 DEF BlockKept
      <3>3. LogOf(s, l) \in BlocksOf(n) /\ OffsetOf(s, l, p) \in Pages
        BY <1>4, <3>1, <3>2, BastFields DEF BlockSlots
      <3>4. a \in AddressesOf(n)
        BY <2>1, <3>3, Geometry
      <3> QED BY <3>4 DEF AddressesOf, None
    <2> QED BY <1>2, <1>3, <2>2, <2>3
  <1>5. CASE OffsetOf(s, l, p) = None /\ DataOf(s, l) # None
    <2>1. a = Linear(DataOf(s, l), p)
      BY <1>1, <1>5 DEF LookupOf
    <2>2. Linear(l, p) \in alive => PageAt(s, a) = "VALID" /\ s.data[a] = Linear(l, p)
      BY <1>5, <2>1 DEF BlockKept, Stored, Cell, Datum
    <2>3. PageAt(s, a) = "VALID" => Linear(l, p) \in alive
      BY <1>5, <2>1 DEF DataKept, Cell
    <2>4. a # None
      <3>1. PICK n \in Nat \ {0} : n = BastPlanes
        BY BastSizes
      <3>2. DataOf(s, l) \in BlocksOf(n)
        BY <1>5, <3>1, BastFields DEF BlockSlots
      <3>3. a \in AddressesOf(n)
        BY <2>1, <3>2, Geometry
      <3> QED BY <3>3 DEF AddressesOf, None
    <2> QED BY <1>2, <1>3, <2>2, <2>3, <2>4
  <1>6. CASE OffsetOf(s, l, p) = None /\ DataOf(s, l) = None
    <2>1. a = None
      BY <1>1, <1>6 DEF LookupOf
    <2>2. Linear(l, p) \notin alive
      BY <1>6 DEF BlockKept
    <2> QED BY <1>2, <2>1, <2>2
  <1> QED BY <1>4, <1>5, <1>6

MergeSteps(s, a, nb, m, ps, pay, r, w, x, t, l, b, d) ==
    /\ BastAllocates(s, a, nb, "DATA") /\ BastWrites(a, m, nb, ps, pay) /\ BastReleases(m, r, b, "LOG")
    /\ BastErasesData(r, w, d) /\ BastDataSets(w, x, l, nb) /\ BastLogSets(x, t, l, Bast!NoLog)

LEMMA MergeTaken ==
    ASSUME NEW s \in BastDrives, s.invalid_list = << >>, NEW l \in LBAs,
           NEW b, b = LogOf(s, l), b # None, NEW d, d = DataOf(s, l),
           NEW ps, ps = CopiedOf(s, l), NEW pay, pay = CopyOf(s, l),
           NEW t, t = Bast!RandomMerge(s, l)
    PROVE  \E a, nb, m, r, w, x : MergeSteps(s, a, nb, m, ps, pay, r, w, x, t, l, b, d)
  <1>1. PICK type : type = "DATA"
    OBVIOUS
  <1>2. PICK g : g = Bast!GetFreeBlock(s, type)
    OBVIOUS
  <1>3. PICK a : a = g.state
    OBVIOUS
  <1>4. PICK nb : nb = g.block
    OBVIOUS
  <1>5. BastAllocates(s, a, nb, type)
    BY <1>2, <1>3, <1>4, BastTaken
  <1>6. a \in BastDrives /\ nb \in BlocksOf(BastPlanes) /\ a.map = s.map
    BY <1>5 DEF BastAllocates
  <1>7. PICK m : m = Bast!PlaneWrite(a, nb, ps, pay)
    OBVIOUS
  <1>8. PICK lg : lg = "LOG"
    OBVIOUS
  <1>9. PICK r : r = Bast!EraseAndInvalidate(m, b, lg)
    OBVIOUS
  <1>10. PICK w : w = Bast!ErasedData(r, l)
    OBVIOUS
  <1>11. PICK x : x = [w EXCEPT !.map.data_list[l] = nb]
    OBVIOUS
  <1>12. t = [x EXCEPT !.map.log_map[l] = Bast!NoLog]
    <2>1. \A p \in Pages : Bast!Lookup(s, l, p) = LookupOf(s, l, p)
      BY LookupTable
    <2>2. ps = {p \in Bast!Pages : Bast!Lookup(s, l, p) # Bast!None
                                   /\ Bast!PageState(s, Bast!Lookup(s, l, p)) = "VALID"}
      BY <2>1, BastNames DEF CopiedOf
    <2>3. pay = [p \in ps |-> s.data[Bast!Lookup(s, l, p)]]
      <3>1. ps \subseteq Pages
        BY DEF CopiedOf
      <3> QED BY <2>1, <3>1 DEF CopyOf
    <2>4. t = Bast!MergeInto(s, l, g)
      BY <1>1, <1>2, Zenon DEF Bast!RandomMerge
    <2>5. t = [Bast!ErasedData(Bast!EraseAndInvalidate(Bast!PlaneWrite(g.state, g.block, ps, pay), b, "LOG"), l)
               EXCEPT !.map.data_list[l] = g.block, !.map.log_map[l] = Bast!NoLog]
      <3>1. PICK qs : qs = {p \in Bast!Pages : Bast!Lookup(s, l, p) # Bast!None
                                               /\ Bast!PageState(s, Bast!Lookup(s, l, p)) = "VALID"}
        OBVIOUS
      <3>2. PICK qy : qy = [p \in qs |-> s.data[Bast!Lookup(s, l, p)]]
        OBVIOUS
      <3>3. qs = ps /\ qy = pay
        BY <2>2, <2>3, <3>1, <3>2, Zenon
      <3>4. t = [Bast!ErasedData(Bast!EraseAndInvalidate(Bast!PlaneWrite(g.state, g.block, qs, qy),
                                                         s.map.log_map[l].block, "LOG"), l)
                 EXCEPT !.map.data_list[l] = g.block, !.map.log_map[l] = Bast!NoLog]
        BY <2>4, <3>1, <3>2, Zenon DEF Bast!MergeInto, Bast!DisposeLog
      <3> QED BY <3>3, <3>4, Zenon DEF LogOf
    <2> QED BY <1>3, <1>4, <1>7, <1>8, <1>9, <1>10, <1>11, <2>5, Zenon
  <1>13. ps \subseteq Pages /\ \A p \in ps : pay[p] \in Int
    <2>1. ASSUME NEW p \in ps PROVE pay[p] \in Int
      <3>1. p \in Pages /\ LookupOf(s, l, p) # None /\ pay[p] = s.data[LookupOf(s, l, p)]
        BY DEF CopiedOf, CopyOf
      <3> QED BY <3>1, LookedUp
    <2> QED BY <2>1 DEF CopiedOf
  <1>14. BastWrites(a, m, nb, ps, pay)
    BY <1>6, <1>7, <1>13, BastProgrammed
  <1>15. m \in BastDrives /\ m.map = s.map
    BY <1>6, <1>14 DEF BastWrites
  <1>16. b \in BlocksOf(BastPlanes)
    BY BastFields DEF BlockSlots
  <1>17. BastReleases(m, r, b, lg)
    BY <1>9, <1>15, <1>16, BastReleased
  <1>18. r \in BastDrives /\ r.map = s.map
    BY <1>15, <1>17 DEF BastReleases
  <1>19. d = DataOf(r, l)
    BY <1>18 DEF DataOf
  <1>20. BastErasesData(r, w, d)
    BY <1>10, <1>18, <1>19, DataErased
  <1>21. w \in BastDrives
    BY <1>20 DEF BastErasesData
  <1>22. nb \in BlockSlots(BastPlanes)
    BY <1>6 DEF BlockSlots
  <1>23. BastDataSets(w, x, l, nb)
    BY <1>11, <1>21, <1>22, BastDataSet
  <1>24. x \in BastDrives
    BY <1>23 DEF BastDataSets
  <1>25. PICK e \in BastLog(BastPlanes) : e = Bast!NoLog
    BY NoLogIs
  <1>26. BastLogSets(x, t, l, e)
    BY <1>12, <1>24, <1>25, BastLogSet
  <1>27. MergeSteps(s, a, nb, m, ps, pay, r, w, x, t, l, b, d)
    BY <1>1, <1>5, <1>8, <1>14, <1>17, <1>20, <1>23, <1>25, <1>26 DEF MergeSteps
  <1> QED BY <1>27

-----------------------------------------------------------------------------
\* What a merge leaves: the new block holds what is alive, the old ones are erased.
LEMMA MergeOwns ==
    ASSUME NEW n, NEW J, NEW f, NEW h, NEW y \in Int, NEW z \in Int, Owns(n, J, f, h, y, z),
           NEW l \in LBAs, NEW b, b = f[l], b # None, NEW d, d = h[l], NEW c \in J, c # None, c # b, c # d,
           NEW g, Updated(LBAs, f, g, l, None), NEW e, Updated(LBAs, h, e, l, c)
    PROVE  Owns(n, ((J \ {c}) \cup {b}) \cup Vacant(d), g, e, y - 1, (IF d = None THEN z ELSE z - 1) + 1)
  <1>1. PICK e0 : e0 = [k \in LBAs |-> IF k = l THEN None ELSE h[k]]
    OBVIOUS
  <1>2. Updated(LBAs, h, e0, l, None) /\ e0[l] = None /\ Updated(LBAs, e0, e, l, c)
    BY <1>1 DEF Updated
  <1>3. PICK z0 : z0 = IF d = None THEN z ELSE z - 1
    OBVIOUS
  <1>4. PICK K : K = J \cup Vacant(d)
    OBVIOUS
  <1>5. Owns(n, K, f, e0, y, z0)
    BY <1>2, <1>3, <1>4, OwnsVacated
  <1>6. PICK L : L = K \cup {b}
    OBVIOUS
  <1>7. Owns(n, L, g, e0, y - 1, z0)
    BY <1>5, <1>6, DisownsLog
  <1>8. c \in L
    BY <1>4, <1>6
  <1>9. Owns(n, L \ {c}, g, e, y - 1, z0 + 1)
    BY <1>2, <1>7, <1>8, OwnsData
  <1>10. L \ {c} = ((J \ {c}) \cup {b}) \cup Vacant(d)
    BY <1>4, <1>6 DEF Vacant
  <1> QED BY <1>3, <1>9, <1>10

LEMMA Merged ==
    ASSUME NEW s, NEW alive, BastOk(s, alive, alive), NEW l \in LBAs, LogOf(s, l) # None,
           NEW t, t = Bast!RandomMerge(s, l)
    PROVE  BastRetires(s, t, alive, l)
  <1>1. s \in BastDrives /\ s.invalid_list = << >> /\ s.abort \in Harmless
    BY DEF BastOk
  <1>2. PICK b : b = LogOf(s, l)
    OBVIOUS
  <1>3. PICK d : d = DataOf(s, l)
    OBVIOUS
  <1>4. PICK ps : ps = CopiedOf(s, l)
    OBVIOUS
  <1>5. PICK pay : pay = CopyOf(s, l)
    OBVIOUS
  <1>6. PICK a, c, m, r, w, x : MergeSteps(s, a, c, m, ps, pay, r, w, x, t, l, b, d)
    BY <1>1, <1>2, <1>3, <1>4, <1>5, MergeTaken
  <1>7. /\ c \in BlocksOf(BastPlanes) /\ a.invalid_list = << >> /\ Sticky(s, a) /\ a.map = s.map
        /\ BastFlash(s) /\ a.abort = "none" => BastTook(s, a, c, "DATA")
    BY <1>6 DEF MergeSteps, BastAllocates
  <1>8. BastWrites(a, m, c, ps, pay) /\ BastReleases(m, r, b, "LOG")
    BY <1>6 DEF MergeSteps
  <1>9. /\ SameManager(a, m) /\ m.map = a.map
        /\ (\A p \in ps : Cell(a, c, p) = "EMPTY") \/ a.abort # "none" => m.abort = a.abort
        /\ BastFlash(a) /\ ~Idle(a, c) /\ (\A p \in ps : Cell(a, c, p) = "EMPTY" /\ pay[p] \in LogicalPages \cup {None})
              => BastWrote(a, m, c, ps, pay)
    BY <1>8 DEF BastWrites
  <1>10. /\ r.invalid_list = m.invalid_list /\ Sticky(m, r) /\ r.map = m.map
         /\ BastFlash(m) /\ ~Idle(m, b) /\ r.abort = "none" => BastFreed(m, r, b, "LOG")
    BY <1>8 DEF BastReleases
  <1>11. /\ w.invalid_list = r.invalid_list /\ Sticky(r, w) /\ w.map = r.map
         /\ BastFlash(r) /\ (d # None => ~Idle(r, d)) /\ w.abort = "none" => BastClears(r, w, d)
    BY <1>6 DEF MergeSteps, BastErasesData
  <1>12. /\ x \in BastDrives /\ SameFlash(w, x) /\ SameManager(w, x) /\ x.abort = w.abort
         /\ Updated(LBAs, w.map.data_list, x.map.data_list, l, c) /\ x.map.log_map = w.map.log_map
         /\ LogTable(x) = LogTable(w)
    BY <1>6 DEF MergeSteps, BastDataSets
  <1>13. /\ t \in BastDrives /\ SameFlash(x, t) /\ SameManager(x, t) /\ t.abort = x.abort
         /\ Updated(LBAs, x.map.log_map, t.map.log_map, l, Bast!NoLog) /\ t.map.data_list = x.map.data_list
         /\ Updated(LBAs, LogTable(x), LogTable(t), l, None)
    BY <1>6, NoLogIs DEF MergeSteps, BastLogSets
  <1>14. /\ LogOf(t, l) = None /\ (\A p \in Pages : OffsetOf(t, l, p) = None) /\ DataOf(t, l) = c
         /\ \A k \in LBAs : k # l => /\ t.map.log_map[k] = s.map.log_map[k]
                                     /\ t.map.data_list[k] = s.map.data_list[k]
    <2>1. t.map.log_map[l] = Bast!NoLog /\ t.map.data_list[l] = c
      BY <1>12, <1>13 DEF Updated
    <2>2. w.map = s.map
      BY <1>7, <1>9, <1>10, <1>11
    <2>3. \A k \in LBAs : k # l => /\ t.map.log_map[k] = w.map.log_map[k]
                                   /\ t.map.data_list[k] = w.map.data_list[k]
      BY <1>12, <1>13 DEF Updated
    <2> QED BY <2>1, <2>2, <2>3, NoLogIs DEF LogOf, OffsetOf, DataOf
  <1>15. t.invalid_list = << >>
    BY <1>7, <1>9, <1>10, <1>11, <1>12, <1>13 DEF SameManager
  \* The new block is empty, so that the copy programs no page twice.
  <1>16. ASSUME a.abort = "none"
         PROVE  /\ BastWhole(s, alive, alive) /\ BastFlash(s) /\ BastTook(s, a, c, "DATA")
                /\ \A p \in Pages : Cell(a, c, p) = "EMPTY"
    <2>1. s.abort = "none"
      BY <1>7, <1>16 DEF Sticky
    <2>2. BastWhole(s, alive, alive) /\ BastFlash(s)
      BY <2>1 DEF BastOk, BastWhole
    <2>3. BastTook(s, a, c, "DATA")
      BY <1>7, <1>16, <2>2
    <2>4. SameFlash(s, a) /\ Idle(s, c)
      BY <2>3 DEF BastTook
    <2>5. \A p \in Pages : Cell(s, c, p) = "EMPTY"
      BY <1>7, <2>2, <2>4 DEF BastFlash
    <2>6. SameCells(s, a, c, None)
      BY <2>4, SameCellsFlash
    <2> QED BY <2>2, <2>3, <2>5, <2>6 DEF SameCells
  <1>17. ps \subseteq Pages
    BY <1>4 DEF CopiedOf
  <1>18. m.abort = a.abort
    BY <1>9, <1>16, <1>17
  <1>19. Sticky(s, t)
    <2>1. Sticky(s, m)
      BY <1>7, <1>18 DEF Sticky
    <2>2. Sticky(s, r)
      BY <1>10, <2>1, StickyChain
    <2>3. Sticky(s, w)
      BY <1>11, <2>2, StickyChain
    <2>4. t.abort = w.abort
      BY <1>12, <1>13
    <2> QED BY <2>3, <2>4 DEF Sticky
  <1>20. t.abort \in Harmless
    BY <1>1, <1>19 DEF Sticky
  <1>21. ASSUME t.abort = "none" PROVE BastWhole(t, alive, alive)
    <2>1. w.abort = "none" /\ r.abort = "none" /\ a.abort = "none"
      BY <1>10, <1>11, <1>12, <1>13, <1>18, <1>21 DEF Sticky
    <2>2. BastWhole(s, alive, alive) /\ BastFlash(s) /\ BastTook(s, a, c, "DATA")
      BY <1>16, <2>1
    <2>3. /\ BastFlash(a) /\ SameFlash(s, a) /\ Idle(s, c) /\ ~Idle(a, c)
          /\ Idles(BastPlanes, a) = Idles(BastPlanes, s) \ {c}
          /\ a.log_active = s.log_active /\ a.data_active = s.data_active + 1
      BY <2>2 DEF BastTook
    <2>4. BastApart(s, l)
      BY <2>2, Apart
    <2>5. /\ b \in BlocksOf(BastPlanes) /\ b # d /\ ~Idle(s, b) /\ b # c /\ d # c
          /\ d # None => d \in BlocksOf(BastPlanes) /\ ~Idle(s, d)
      <3>1. c # None
        BY <1>7 DEF BlocksOf, None
      <3> QED BY <1>2, <1>3, <2>3, <2>4, <3>1 DEF BastApart
    <2>6. \A k \in BlocksOf(BastPlanes) : k # c => (Idle(a, k) <=> Idle(s, k))
      BY <2>3 DEF Idles
    <2>7. \A p \in Pages : /\ p \in ps <=> Linear(l, p) \in alive
                           /\ p \in ps => pay[p] = Linear(l, p)
      <3>1. BlockKept(s, alive, l) /\ DataKept(s, alive, l)
        BY <2>2 DEF BastWhole
      <3> QED BY <1>1, <1>4, <1>5, <3>1, CopiesAlive
    <2>8. \A p \in ps : pay[p] \in LogicalPages \cup {None}
      <3>1. ASSUME NEW p \in ps PROVE pay[p] \in LogicalPages \cup {None}
        <4>1. pay[p] = s.data[LookupOf(s, l, p)] /\ LookupOf(s, l, p) # None /\ p \in Pages
          BY <1>4, <1>5 DEF CopiedOf, CopyOf
        <4>2. LookupOf(s, l, p) \in AddressesOf(BastPlanes)
          BY <1>1, <4>1, LookedUp
        <4> QED BY <2>2, <4>1, <4>2 DEF BastFlash
      <3> QED BY <3>1
    <2>9. BastWrote(a, m, c, ps, pay)
      BY <1>9, <1>16, <1>17, <2>1, <2>3, <2>8
    <2>10. /\ BastFlash(m) /\ \A k \in BlocksOf(BastPlanes) : k # c => SameCells(a, m, k, None)
           /\ \A p \in Pages : /\ Cell(m, c, p) = IF p \in ps THEN "VALID" ELSE Cell(a, c, p)
                               /\ Datum(m, c, p) = IF p \in ps THEN pay[p] ELSE Datum(a, c, p)
      BY <2>9 DEF BastWrote
    <2>11. \A k : Idle(m, k) <=> Idle(a, k)
      <3>1. Stock(BastPlanes, a)
        BY <2>3 DEF BastFlash
      <3> QED BY <1>9, <3>1, SameStock
    <2>12. BastFreed(m, r, b, "LOG")
      BY <1>10, <2>1, <2>5, <2>6, <2>10, <2>11
    <2>13. /\ BastFlash(r) /\ Idles(BastPlanes, r) = Idles(BastPlanes, m) \cup {b}
           /\ r.log_active = m.log_active - 1 /\ r.data_active = m.data_active
           /\ \A k \in BlocksOf(BastPlanes) : k # b => SameCells(m, r, k, None) /\ (Idle(r, k) <=> Idle(m, k))
      BY <2>12 DEF BastFreed
    <2>14. BastClears(r, w, d)
      BY <1>11, <2>1, <2>5, <2>6, <2>11, <2>13
    <2>15. /\ BastFlash(w) /\ Idles(BastPlanes, w) = Idles(BastPlanes, r) \cup Vacant(d)
           /\ w.log_active = r.log_active
           /\ w.data_active = (IF d = None THEN r.data_active ELSE r.data_active - 1)
           /\ \A k \in BlocksOf(BastPlanes) : k # d => SameCells(r, w, k, None)
      BY <2>14 DEF BastClears
    <2>16. BastFlash(t)
      <3>1. BastFlash(x)
        BY <1>12, <2>15, BastFlashSame
      <3> QED BY <1>13, <3>1, BastFlashSame
    <2>17. \A k \in BlocksOf(BastPlanes) : k # b /\ k # d => SameCells(m, t, k, None)
      <3>1. SUFFICES ASSUME NEW k \in BlocksOf(BastPlanes), k # b, k # d PROVE SameCells(m, t, k, None)
        OBVIOUS
      <3>2. SameCells(m, r, k, None) /\ SameCells(r, w, k, None)
        BY <2>13, <2>15, <3>1
      <3>3. SameCells(w, x, k, None) /\ SameCells(x, t, k, None)
        BY <1>12, <1>13, SameCellsFlash
      <3>4. SameCells(m, w, k, None)
        BY <3>2, SameCellsChain
      <3>5. SameCells(m, x, k, None)
        BY <3>3, <3>4, SameCellsChain
      <3> QED BY <3>3, <3>5, SameCellsChain
    <2>18. Touches(s, t, l, None)
      <3>1. ASSUME NEW k \in BlocksOf(BastPlanes), ~Idle(s, k), k # b, k # d
            PROVE  SameCells(s, t, k, None)
        <4>1. k # c
          BY <2>3, <3>1
        <4>2. SameCells(s, a, k, None) /\ SameCells(a, m, k, None)
          BY <2>3, <2>10, <4>1, SameCellsFlash
        <4>3. SameCells(s, m, k, None)
          BY <4>2, SameCellsChain
        <4>4. SameCells(m, t, k, None)
          BY <2>17, <3>1
        <4> QED BY <4>3, <4>4, SameCellsChain
      <3> QED BY <1>2, <1>3, <1>14, <3>1, NoneIsNoPage DEF Touches
    <2>19. Owns(BastPlanes, Idles(BastPlanes, t), LogTable(t), t.map.data_list, t.log_active, t.data_active)
      <3>1. PICK J, f, g, h, e : /\ J = Idles(BastPlanes, s) /\ f = LogTable(s) /\ h = s.map.data_list
                                 /\ g = LogTable(t) /\ e = t.map.data_list
        OBVIOUS
      <3>2. PICK y \in Int : y = s.log_active
        BY <1>1 DEF BastDrives, Drives
      <3>3. PICK z \in Int : z = s.data_active
        BY <1>1 DEF BastDrives, Drives
      <3>4. Owns(BastPlanes, J, f, h, y, z)
        BY <2>2, <3>1, <3>2, <3>3 DEF BastWhole
      <3>5. h[l] = d /\ f[l] = b
        BY <1>1, <1>2, <1>3, <3>1, BastFields DEF DataOf
      <3>6. w.map = s.map
        BY <1>7, <1>9, <1>10, <1>11
      <3>7. Updated(LBAs, f, g, l, None)
        <4>1. Updated(LBAs, LogTable(w), g, l, None) /\ LogTable(w) = f
          BY <1>12, <1>13, <3>1, <3>6 DEF LogTable, LogOf
        <4> QED BY <4>1
      <3>8. Updated(LBAs, h, e, l, c)
        BY <1>12, <1>13, <3>1, <3>6
      <3>9. c \in J /\ c # None /\ b # None
        BY <1>2, <1>7, <2>3, <3>1 DEF Idles, BlocksOf, None
      <3>10. Owns(BastPlanes, ((J \ {c}) \cup {b}) \cup Vacant(d), g, e, y - 1, (IF d = None THEN z ELSE z - 1) + 1)
        BY <2>5, <3>4, <3>5, <3>7, <3>8, <3>9, MergeOwns
      <3>11. Idles(BastPlanes, t) = ((J \ {c}) \cup {b}) \cup Vacant(d)
        <4>1. Idles(BastPlanes, m) = J \ {c}
          BY <2>3, <2>11, <3>1 DEF Idles
        <4>2. Idles(BastPlanes, t) = Idles(BastPlanes, w)
          BY <1>12, <1>13, SameIdles
        <4> QED BY <2>13, <2>15, <4>1, <4>2
      <3>12. t.log_active = y - 1
        BY <1>9, <1>12, <1>13, <2>3, <2>13, <2>15, <3>2 DEF SameManager
      <3>13. t.data_active = (IF d = None THEN z ELSE z - 1) + 1
        <4>1. t.data_active = (IF d = None THEN r.data_active ELSE r.data_active - 1)
          BY <1>12, <1>13, <2>15 DEF SameManager
        <4>2. r.data_active = z + 1
          BY <1>9, <2>3, <2>13, <3>3 DEF SameManager
        <4> QED BY <3>3, <4>1, <4>2
      <3> QED BY <3>1, <3>10, <3>11, <3>12, <3>13
    <2>20. \A p \in Pages : /\ Linear(l, p) \in alive => Stored(t, c, p, Linear(l, p))
                            /\ Cell(t, c, p) = "VALID" => Linear(l, p) \in alive
      <3>1. SameCells(m, t, c, None)
        BY <1>7, <2>5, <2>17
      <3>2. ASSUME NEW p \in Pages
            PROVE  /\ Linear(l, p) \in alive => Stored(t, c, p, Linear(l, p))
                   /\ Cell(t, c, p) = "VALID" => Linear(l, p) \in alive
        <4>1. Cell(t, c, p) = Cell(m, c, p) /\ Datum(t, c, p) = Datum(m, c, p)
          BY <3>1 DEF SameCells
        <4>2. CASE p \in ps
          BY <2>7, <2>10, <4>1, <4>2 DEF Stored
        <4>3. CASE p \notin ps
          <5>1. Cell(t, c, p) = "EMPTY"
            BY <1>16, <2>1, <2>10, <4>1, <4>3
          <5> QED BY <2>7, <4>3, <5>1
        <4> QED BY <4>2, <4>3
      <3> QED BY <3>2
    <2>21. c # None
      BY <1>7 DEF BlocksOf, None
    <2>22. BlockKept(t, alive, l)
      BY <1>14, <2>20, <2>21 DEF BlockKept
    <2>23. DataKept(t, alive, l)
      BY <1>14, <2>20 DEF DataKept
    <2>24. AlikeElsewhere(l, alive, alive)
      BY BastAlike
    <2> QED BY <2>2, <2>16, <2>18, <2>19, <2>22, <2>23, <2>24, BastWholeBy
  <1>22. BastOk(t, alive, alive)
    BY <1>13, <1>15, <1>20, <1>21 DEF BastOk
  <1>23. \A k \in LBAs : k # l => LogOf(t, k) = LogOf(s, k)
    BY <1>14 DEF LogOf
  <1> QED BY <1>14, <1>19, <1>22, <1>23 DEF BastRetires

-----------------------------------------------------------------------------
\* Controller::issue of the write of page v to page k of block b, which replaces page r.
BastIssue(s, t, b, k, r, v) ==
    /\ BastFlash(t)
    /\ \A c \in BlocksOf(BastPlanes) : Used(t, c) = IF c = b THEN Used(s, c) + 1 ELSE Used(s, c)
    /\ \A c \in BlocksOf(BastPlanes), q \in Pages :
           /\ Cell(t, c, q) = IF Linear(c, q) = r THEN "INVALID"
                              ELSE IF c = b /\ q = k THEN "VALID" ELSE Cell(s, c, q)
           /\ Datum(t, c, q) = IF c = b /\ q = k THEN v ELSE Datum(s, c, q)
BastIssues(s, t, b, k, r, v) ==
    /\ t \in BastDrives /\ SameManager(s, t) /\ t.map = s.map
    /\ Cell(s, b, k) = "EMPTY" \/ s.abort # "none" => t.abort = s.abort
    /\ BastFlash(s) /\ ~Idle(s, b) /\ Cell(s, b, k) = "EMPTY" /\ (r # None => ~Idle(s, BlockOf(r)))
          => BastIssue(s, t, b, k, r, v)

LEMMA BastIssued ==
    ASSUME NEW s \in BastDrives, NEW b \in BlocksOf(BastPlanes), NEW k \in Pages,
           NEW r, r = None \/ r \in AddressesOf(BastPlanes), NEW v \in LogicalPages,
           NEW t, t = Bast!IssueWrite(s, Linear(b, k), r, v)
    PROVE  BastIssues(s, t, b, k, r, v)
  <1>1. PICK n \in Nat \ {0} : n = BastPlanes
    BY BastSizes
  <1>2. PICK M : M = BastMaps(n)
    OBVIOUS
  <1>3. s \in Drives(n, M) /\ b \in BlocksOf(n) /\ (r = None \/ r \in AddressesOf(n)) /\ v \in Int
    BY <1>1, <1>2 DEF BastDrives, LogicalPages
  <1>4. PICK i, j : i = "BAST" /\ j = BastLogBlocks
    OBVIOUS
  <1>5. PICK a \in AddressesOf(n) : a = Linear(b, k) /\ BlockOf(a) = b /\ PageOf(a) = k
    BY <1>3, Geometry
  <1>6. t = Chip(n, i, j)!IssueWrite(s, a, r, v)
    BY <1>1, <1>4, <1>5, BastChip, Zenon
  <1>7. t \in Drives(n, M) /\ Issues(n, s, t, a, r, v)
    BY <1>3, <1>6, Issued, Zenon
  <1>8. /\ t.map = s.map /\ SameManager(s, t)
        /\ PageAt(s, a) = "EMPTY" \/ s.abort # "none" => t.abort = s.abort
        /\ \A x \in AddressesOf(n) : t.data[x] = IF x = a THEN v ELSE s.data[x]
        /\ \A x \in AddressesOf(n) : PageAt(t, x) = IF x = r THEN "INVALID"
                                                    ELSE IF x = a THEN "VALID" ELSE PageAt(s, x)
        /\ \A c \in BlocksOf(n) : Used(t, c) = IF c = b THEN Used(s, c) + 1 ELSE Used(s, c)
        /\ Fits(n, s) /\ PageAt(s, a) = "EMPTY" => Fits(n, t)
    BY <1>5, <1>7 DEF Issues
  <1>9. PageAt(s, a) = Cell(s, b, k)
    BY <1>5 DEF Cell
  <1>10. ASSUME NEW c \in BlocksOf(n), NEW q \in Pages
         PROVE  /\ Cell(t, c, q) = IF Linear(c, q) = r THEN "INVALID"
                                   ELSE IF c = b /\ q = k THEN "VALID" ELSE Cell(s, c, q)
                /\ Datum(t, c, q) = IF c = b /\ q = k THEN v ELSE Datum(s, c, q)
    <2>1. PICK x \in AddressesOf(n) : x = Linear(c, q) /\ BlockOf(x) = c /\ PageOf(x) = q
      BY Geometry
    <2>2. x = a <=> c = b /\ q = k
      BY <1>5, <2>1
    <2> QED BY <1>8, <2>1, <2>2 DEF Cell, Datum
  <1>11. ASSUME BastFlash(s), ~Idle(s, b), Cell(s, b, k) = "EMPTY", r # None => ~Idle(s, BlockOf(r))
         PROVE  BastIssue(s, t, b, k, r, v)
    <2>1. Fits(n, t)
      BY <1>1, <1>8, <1>9, <1>11 DEF BastFlash
    <2>2. Stock(n, t) /\ \A c : Idle(t, c) <=> Idle(s, c)
      <3>1. Stock(n, s)
        BY <1>1, <1>11 DEF BastFlash
      <3> QED BY <1>8, <3>1, SameStock
    <2>3. ASSUME NEW c \in BlocksOf(n), Idle(t, c)
          PROVE  Used(t, c) = 0 /\ \A q \in Pages : Cell(t, c, q) = "EMPTY"
      <3>1. c # b /\ Idle(s, c)
        BY <1>11, <2>2, <2>3
      <3>2. Used(s, c) = 0 /\ \A q \in Pages : Cell(s, c, q) = "EMPTY"
        BY <1>1, <1>11, <3>1 DEF BastFlash
      <3>3. ASSUME NEW q \in Pages PROVE Cell(t, c, q) = "EMPTY"
        <4>1. Linear(c, q) # r
          <5>1. BlockOf(Linear(c, q)) = c /\ Linear(c, q) \in AddressesOf(n)
            BY Geometry
          <5>2. Linear(c, q) # None
            BY <5>1 DEF AddressesOf, None
          <5> QED BY <1>11, <3>1, <5>1, <5>2
        <4> QED BY <1>10, <3>1, <3>2, <4>1
      <3> QED BY <1>8, <3>1, <3>2, <3>3
    <2>4. \A x \in AddressesOf(n) : t.data[x] \in LogicalPages \cup {None}
      <3>1. \A x \in AddressesOf(n) : s.data[x] \in LogicalPages \cup {None}
        BY <1>1, <1>11 DEF BastFlash
      <3> QED BY <1>8, <3>1
    <2>5. BastFlash(t)
      BY <1>1, <1>2, <1>7, <2>1, <2>2, <2>3, <2>4 DEF BastFlash, BastDrives
    <2> QED BY <1>1, <1>8, <1>10, <2>5 DEF BastIssue
  <1>12. t \in BastDrives
    BY <1>1, <1>2, <1>7 DEF BastDrives
  <1> QED BY <1>8, <1>9, <1>11, <1>12 DEF BastIssues

LEMMA Retired ==
    ASSUME NEW s, NEW alive, BastOk(s, alive, alive), NEW l \in LBAs, LogOf(s, l) # None,
           NEW t, t = Bast!MergeLog(s, l)
    PROVE  BastRetires(s, t, alive, l)
  <1>1. CASE Bast!Sequential(s.map.log_map[l])
    <2>1. t = Bast!SwitchLog(s, l)
      BY <1>1, Zenon DEF Bast!MergeLog
    <2> QED BY <1>1, <2>1, Switched, Zenon
  <1>2. CASE ~Bast!Sequential(s.map.log_map[l])
    <2>1. t = Bast!RandomMerge(s, l)
      BY <1>2, Zenon DEF Bast!MergeLog
    <2> QED BY <2>1, Merged, Zenon
  <1> QED BY <1>1, <1>2

\* FtlImpl_Bast::allocate_new_logblock: an empty log block, after a merge of the victim's.
BastOpens(s, t, alive, l) ==
    /\ BastOk(t, alive, alive) /\ Sticky(s, t) /\ LogOf(t, l) # None
    /\ t.abort = "none" => Used(t, LogOf(t, l)) = 0 /\ \A p \in Pages : OffsetOf(t, l, p) = None

LEMMA LogOpened ==
    ASSUME NEW s, NEW alive, BastOk(s, alive, alive), NEW l \in LBAs, LogOf(s, l) = None,
           NEW g, g = Bast!GetFreeBlock(s, "LOG"), NEW t, t = Bast!OpenLog(g, l)
    PROVE  BastOpens(s, t, alive, l)
  <1>1. s \in BastDrives /\ s.invalid_list = << >> /\ s.abort \in Harmless
    BY DEF BastOk
  <1>2. PICK a : a = g.state
    OBVIOUS
  <1>3. PICK b : b = g.block
    OBVIOUS
  <1>4. BastAllocates(s, a, b, "LOG")
    BY <1>1, <1>2, <1>3, BastTaken
  <1>5. /\ b \in BlocksOf(BastPlanes) /\ a \in BastDrives /\ a.invalid_list = << >> /\ Sticky(s, a)
        /\ a.map = s.map
        /\ BastFlash(s) /\ a.abort = "none" => BastTook(s, a, b, "LOG")
    BY <1>4 DEF BastAllocates
  <1>6. PICK e : e = [block |-> b, pages |-> [p \in Pages |-> None]]
    OBVIOUS
  <1>7. e \in BastLog(BastPlanes) /\ e.block = b /\ \A p \in Pages : e.pages[p] = None
    BY <1>5, <1>6 DEF BastLog, BlockSlots
  <1>8. t = [a EXCEPT !.map.log_map[l] = e]
    <2>1. e = Bast!NewLog(b)
      BY <1>6, BastNames, Zenon DEF Bast!NewLog
    <2> QED BY <1>2, <1>3, <2>1, Zenon DEF Bast!OpenLog
  <1>9. BastLogSets(a, t, l, e)
    BY <1>5, <1>7, <1>8, BastLogSet
  <1>10. /\ t \in BastDrives /\ SameFlash(a, t) /\ SameManager(a, t) /\ t.abort = a.abort
         /\ Updated(LBAs, a.map.log_map, t.map.log_map, l, e) /\ t.map.data_list = a.map.data_list
         /\ Updated(LBAs, LogTable(a), LogTable(t), l, b)
    BY <1>7, <1>9 DEF BastLogSets
  <1>11. /\ LogOf(t, l) = b /\ (\A p \in Pages : OffsetOf(t, l, p) = None) /\ DataOf(t, l) = DataOf(s, l)
         /\ \A k \in LBAs : k # l => /\ t.map.log_map[k] = s.map.log_map[k]
                                     /\ t.map.data_list[k] = s.map.data_list[k]
    BY <1>5, <1>7, <1>10 DEF Updated, LogOf, OffsetOf, DataOf
  <1>12. Sticky(s, t) /\ t.invalid_list = << >> /\ b # None
    BY <1>5, <1>10 DEF Sticky, SameManager, BlocksOf, None
  <1>13. t.abort \in Harmless
    BY <1>1, <1>12 DEF Sticky
  <1>14. ASSUME t.abort = "none" PROVE BastWhole(t, alive, alive) /\ Used(t, b) = 0
    <2>1. BastWhole(s, alive, alive) /\ BastFlash(s)
      BY <1>12, <1>14 DEF BastOk, BastWhole, Sticky
    <2>2. BastTook(s, a, b, "LOG")
      BY <1>5, <1>10, <1>14, <2>1
    <2>3. /\ BastFlash(a) /\ SameFlash(s, a) /\ Idle(s, b)
          /\ Idles(BastPlanes, a) = Idles(BastPlanes, s) \ {b}
          /\ a.log_active = s.log_active + 1 /\ a.data_active = s.data_active
      BY <2>2 DEF BastTook
    <2>4. BastFlash(t)
      BY <1>10, <2>3, BastFlashSame
    <2>5. \A c : SameCells(s, t, c, None)
      <3>1. SUFFICES ASSUME NEW c PROVE SameCells(s, t, c, None)
        OBVIOUS
      <3>2. SameCells(s, a, c, None) /\ SameCells(a, t, c, None)
        BY <1>10, <2>3, SameCellsFlash
      <3> QED BY <3>2, SameCellsChain
    <2>6. Touches(s, t, l, None)
      BY <1>11, <2>5, NoneIsNoPage DEF Touches
    <2>7. Owns(BastPlanes, Idles(BastPlanes, t), LogTable(t), t.map.data_list, t.log_active, t.data_active)
      <3>1. PICK J, f, g1, h, y, z : /\ J = Idles(BastPlanes, s) /\ f = LogTable(s) /\ h = s.map.data_list
                                     /\ g1 = LogTable(t) /\ y = s.log_active /\ z = s.data_active
        OBVIOUS
      <3>2. Owns(BastPlanes, J, f, h, y, z)
        BY <2>1, <3>1 DEF BastWhole
      <3>3. f[l] = None /\ b \in J
        BY <1>1, <1>5, <2>3, <3>1, BastFields DEF Idles
      <3>4. Updated(LBAs, f, g1, l, b)
        BY <1>5, <1>10, <3>1 DEF LogTable, LogOf
      <3>5. Owns(BastPlanes, J \ {b}, g1, h, y + 1, z)
        BY <1>12, <3>2, <3>3, <3>4, OwnsLog
      <3>6. Idles(BastPlanes, t) = J \ {b}
        BY <1>10, <2>3, <3>1, SameIdles
      <3> QED BY <1>5, <1>10, <2>3, <3>1, <3>5, <3>6 DEF SameManager
    <2>8. BlockKept(s, alive, l) /\ DataKept(s, alive, l)
      BY <2>1 DEF BastWhole
    <2>9. Used(t, b) = 0 /\ \A p \in Pages : Cell(t, b, p) = "EMPTY"
      <3>1. Used(s, b) = 0 /\ \A p \in Pages : Cell(s, b, p) = "EMPTY"
        BY <1>5, <2>1, <2>3 DEF BastFlash
      <3> QED BY <2>5, <3>1 DEF SameCells
    <2>10. BlockKept(t, alive, l)
      <3>1. \A p \in Pages : Cell(t, b, p) = "EMPTY" <=> p >= Used(t, b)
        BY <2>9 DEF Pages
      <3>2. \A p \in Pages : Linear(l, p) \in alive =>
                DataOf(s, l) # None /\ Stored(t, DataOf(s, l), p, Linear(l, p))
        <4>1. \A p \in Pages : OffsetOf(s, l, p) = None
          BY <2>8 DEF BlockKept
        <4>2. \A p \in Pages : Linear(l, p) \in alive =>
                  DataOf(s, l) # None /\ Stored(s, DataOf(s, l), p, Linear(l, p))
          BY <2>8, <4>1 DEF BlockKept
        <4> QED BY <2>5, <4>2 DEF SameCells, Stored
      <3> QED BY <1>11, <1>12, <3>1, <3>2 DEF BlockKept
    <2>11. DataKept(t, alive, l)
      BY <1>11, <2>5, <2>8 DEF DataKept, SameCells
    <2>12. AlikeElsewhere(l, alive, alive)
      BY BastAlike
    <2>13. BastWhole(t, alive, alive)
      BY <2>1, <2>4, <2>6, <2>7, <2>10, <2>11, <2>12, BastWholeBy
    <2> QED BY <2>9, <2>13
  <1>15. BastOk(t, alive, alive)
    BY <1>10, <1>12, <1>13, <1>14 DEF BastOk
  <1> QED BY <1>11, <1>12, <1>14, <1>15 DEF BastOpens

LEMMA LogAllocated ==
    ASSUME NEW s, NEW alive, BastOk(s, alive, alive), NEW l \in LBAs, LogOf(s, l) = None,
           NEW victim, victim = None \/ (victim \in LBAs /\ LogOf(s, victim) # None),
           NEW t, t = Bast!AllocateLog(s, l, victim)
    PROVE  BastOpens(s, t, alive, l)
  <1>1. PICK x : x = IF victim = None THEN s ELSE Bast!MergeLog(s, victim)
    OBVIOUS
  <1>2. t = Bast!OpenLog(Bast!GetFreeBlock(x, "LOG"), l)
    BY <1>1, BastNames, Zenon DEF Bast!AllocateLog
  <1>3. BastOk(x, alive, alive) /\ Sticky(s, x) /\ LogOf(x, l) = None
    <2>1. CASE victim = None
      BY <1>1, <2>1, StickySame
    <2>2. CASE victim # None
      <3>1. x = Bast!MergeLog(s, victim) /\ victim \in LBAs /\ LogOf(s, victim) # None /\ victim # l
        BY <1>1, <2>2
      <3>2. BastRetires(s, x, alive, victim)
        BY <3>1, Retired, Zenon
      <3> QED BY <3>1, <3>2 DEF BastRetires
    <2> QED BY <2>1, <2>2
  <1>4. BastOpens(x, t, alive, l)
    BY <1>2, <1>3, LogOpened, Zenon
  <1>5. Sticky(s, t)
    <2>1. Sticky(x, t)
      BY <1>4 DEF BastOpens
    <2> QED BY <1>3, <2>1, StickyChain
  <1> QED BY <1>4, <1>5 DEF BastOpens

-----------------------------------------------------------------------------
\* A page map of a log block, one page at a time.
BastOffsets(s, t, l, p, k) ==
    /\ t \in BastDrives /\ SameFlash(s, t) /\ SameManager(s, t) /\ t.abort = s.abort
    /\ LogTable(t) = LogTable(s) /\ t.map.data_list = s.map.data_list
    /\ \A j \in LBAs : j # l => t.map.log_map[j] = s.map.log_map[j]
    /\ LogOf(t, l) = LogOf(s, l) /\ OffsetOf(t, l, p) = k
    /\ \A q \in Pages : q # p => OffsetOf(t, l, q) = OffsetOf(s, l, q)

LEMMA BastOffsetSet ==
    ASSUME NEW s \in BastDrives, NEW l \in LBAs, NEW p \in Pages, NEW k \in Pages \cup {None},
           NEW t, t = [s EXCEPT !.map.log_map[l].pages[p] = k]
    PROVE  BastOffsets(s, t, l, p, k)
  <1>1. PICK d \in BastLog(BastPlanes) : d = s.map.log_map[l]
    BY BastFields
  <1>2. PICK f \in [Pages -> Pages \cup {None}] : f = d.pages
    BY DEF BastLog
  <1>3. PICK g : g = [f EXCEPT ![p] = k]
    OBVIOUS
  <1>4. g \in [Pages -> Pages \cup {None}] /\ Updated(Pages, f, g, p, k)
    BY <1>3, Update, Zenon
  <1>5. PICK e : e = [d EXCEPT !.pages = g]
    OBVIOUS
  <1>6. e \in BastLog(BastPlanes) /\ e.block = d.block /\ e.pages = g
    BY <1>4, <1>5 DEF BastLog
  <1>7. t = [s EXCEPT !.map.log_map[l] = e]
    BY <1>1, <1>2, <1>3, <1>5, Zenon
  <1>8. BastLogSets(s, t, l, e)
    BY <1>6, <1>7, BastLogSet
  <1>9. /\ t \in BastDrives /\ SameFlash(s, t) /\ SameManager(s, t) /\ t.abort = s.abort
        /\ t.map.data_list = s.map.data_list
        /\ t.map.log_map[l] = e /\ \A j \in LBAs : j # l => t.map.log_map[j] = s.map.log_map[j]
    BY <1>8 DEF BastLogSets, Updated
  <1>10. \A j \in LBAs : LogOf(t, j) = LogOf(s, j)
    BY <1>1, <1>6, <1>9 DEF LogOf
  <1>11. LogTable(t) = LogTable(s)
    BY <1>10 DEF LogTable
  <1>12. OffsetOf(t, l, p) = k /\ \A q \in Pages : q # p => OffsetOf(t, l, q) = OffsetOf(s, l, q)
    BY <1>1, <1>2, <1>4, <1>6, <1>9 DEF OffsetOf, Updated
  <1> QED BY <1>9, <1>10, <1>11, <1>12 DEF BastOffsets

\* FtlImpl_Bast::write, the place: x has room in the log block, where k is next.
BastRoom(x, alive, l, k) ==
    /\ BastOk(x, alive, alive) /\ LogOf(x, l) # None /\ k \in Pages
    /\ x.abort = "none" => k = Used(x, LogOf(x, l))
BastPlaces(s, x, t, alive, l, p, k) ==
    /\ BastRoom(x, alive, l, k) /\ Sticky(s, x) /\ BastOffsets(x, t, l, p, k)
    /\ Used(s, LogOf(s, l)) < BlockSize => x = s

LEMMA LogPlaced ==
    ASSUME NEW s, NEW alive, BastOk(s, alive, alive), NEW l \in LBAs, LogOf(s, l) # None, NEW p \in Pages,
           NEW t, t = Bast!PlaceInLog(s, l, p)
    PROVE  \E x, k : BastPlaces(s, x, t, alive, l, p, k)
  <1>1. s \in BastDrives
    BY DEF BastOk
  <1>2. PICK b \in BlocksOf(BastPlanes) : b = LogOf(s, l)
    BY <1>1, BastFields DEF BlockSlots
  <1>3. PICK k \in Nat : k = Used(s, b)
    <2>1. s.block \in [BlocksOf(BastPlanes) -> BlockRec]
      BY <1>1 DEF BastDrives, Drives
    <2>2. PICK blk \in BlockRec : blk = s.block[b]
      BY <2>1
    <2>3. blk.pages_valid \in Nat
      BY DEF BlockRec
    <2> QED BY <2>2, <2>3 DEF Used
  <1>4. t = IF k < BlockSize THEN [s EXCEPT !.map.log_map[l].pages[p] = k]
            ELSE [Bast!AllocateLog(Bast!MergeLog(s, l), l, Bast!None) EXCEPT !.map.log_map[l].pages[p] = 0]
    BY <1>2, <1>3, Zenon DEF Bast!PlaceInLog, Used, LogOf
  <1>5. BlockSize \in Nat \ {0}
    BY Sizes
  <1>6. CASE k < BlockSize
    <2>1. k \in Pages
      BY <1>5, <1>6 DEF Pages
    <2>2. t = [s EXCEPT !.map.log_map[l].pages[p] = k]
      BY <1>4, <1>6, Zenon
    <2>3. BastOffsets(s, t, l, p, k)
      BY <1>1, <2>1, <2>2, BastOffsetSet
    <2>4. BastRoom(s, alive, l, k) /\ Sticky(s, s)
      BY <1>2, <1>3, <2>1, StickySame DEF BastRoom
    <2>5. BastPlaces(s, s, t, alive, l, p, k)
      BY <2>3, <2>4 DEF BastPlaces
    <2> QED BY <2>5
  <1>7. CASE ~(k < BlockSize)
    <2>1. PICK m : m = Bast!MergeLog(s, l)
      OBVIOUS
    <2>2. PICK x : x = Bast!AllocateLog(m, l, None)
      OBVIOUS
    <2>3. BastRetires(s, m, alive, l)
      BY <2>1, Retired, Zenon
    <2>4. BastOk(m, alive, alive) /\ Sticky(s, m) /\ LogOf(m, l) = None
      BY <2>3 DEF BastRetires
    <2>5. BastOpens(m, x, alive, l)
      BY <2>2, <2>4, LogAllocated, Zenon
    <2>6. PICK z \in Pages : z = 0
      BY <1>5 DEF Pages
    <2>7. t = [x EXCEPT !.map.log_map[l].pages[p] = z]
      BY <1>4, <1>7, <2>1, <2>2, <2>6, BastNames, Zenon
    <2>8. x \in BastDrives /\ BastOk(x, alive, alive) /\ Sticky(m, x)
      BY <2>5 DEF BastOpens, BastOk
    <2>9. BastOffsets(x, t, l, p, z)
      BY <2>7, <2>8, BastOffsetSet
    <2>10. BastRoom(x, alive, l, z)
      BY <2>5, <2>6 DEF BastRoom, BastOpens
    <2>11. Sticky(s, x)
      BY <2>4, <2>8, StickyChain
    <2>12. BastPlaces(s, x, t, alive, l, p, z)
      BY <1>2, <1>3, <1>7, <2>9, <2>10, <2>11 DEF BastPlaces
    <2> QED BY <2>12
  <1> QED BY <1>6, <1>7

\* The page that the write makes invalid is where the page was, if it was anywhere.
Replaces(x, l, p, r) ==
    \/ r = None
    \/ DataOf(x, l) # None /\ r = Linear(DataOf(x, l), p)
    \/ OffsetOf(x, l, p) # None /\ r = Linear(LogOf(x, l), OffsetOf(x, l, p))

LEMMA ReplacesAddress ==
    ASSUME NEW x \in BastDrives, NEW l \in LBAs, LogOf(x, l) # None, NEW p \in Pages,
           NEW r, Replaces(x, l, p, r)
    PROVE  r = None \/ r \in AddressesOf(BastPlanes)
  <1>1. PICK n \in Nat \ {0} : n = BastPlanes
    BY BastSizes
  <1>2. LogOf(x, l) \in BlocksOf(n) /\ DataOf(x, l) \in BlockSlots(n) /\ OffsetOf(x, l, p) \in Pages \cup {None}
    BY <1>1, BastFields DEF BlockSlots
  <1>3. CASE DataOf(x, l) # None /\ r = Linear(DataOf(x, l), p)
    <2>1. DataOf(x, l) \in BlocksOf(n)
      BY <1>2, <1>3 DEF BlockSlots
    <2> QED BY <1>1, <1>3, <2>1, Geometry
  <1>4. CASE OffsetOf(x, l, p) # None /\ r = Linear(LogOf(x, l), OffsetOf(x, l, p))
    <2>1. OffsetOf(x, l, p) \in Pages
      BY <1>2, <1>4
    <2> QED BY <1>1, <1>2, <1>4, <2>1, Geometry
  <1> QED BY <1>3, <1>4 DEF Replaces

LEMMA ReplacedPage ==
    ASSUME NEW s, NEW x, NEW t, NEW l \in LBAs, NEW p \in Pages, NEW k, BastOffsets(x, t, l, p, k),
           Used(s, LogOf(s, l)) < BlockSize => x = s, NEW r, r = Bast!Replaced(s, t, l, p)
    PROVE  Replaces(x, l, p, r)
  <1>1. PICK d : d = t.map.data_list[l]
    OBVIOUS
  <1>2. d = DataOf(x, l)
    BY <1>1 DEF BastOffsets, DataOf
  <1>3. PICK b : b = LogOf(s, l)
    OBVIOUS
  <1>4. PICK q : q = OffsetOf(s, l, p)
    OBVIOUS
  <1>6. PICK full \in BOOLEAN : full = (PageAt(t, Linear(d, p)) # "EMPTY")
    BY Zenon
  <1>7. r = IF d # None /\ full THEN Linear(d, p) ELSE IF q # None /\ Used(s, b) < BlockSize THEN Linear(b, q) ELSE None
    <2>1. r = IF d # Bast!None /\ Bast!PageState(t, Bast!Linear(d, p)) # "EMPTY" THEN Bast!Linear(d, p)
              ELSE IF q # Bast!None /\ Used(s, b) < BlockSize THEN Bast!Linear(b, q) ELSE Bast!None
      BY <1>1, <1>3, <1>4, Zenon DEF Bast!Replaced, LogOf, OffsetOf, Used
    <2> QED BY <1>6, <2>1, BastNames, Zenon
  <1>8. CASE Used(s, b) < BlockSize
    <2>1. b = LogOf(x, l) /\ q = OffsetOf(x, l, p)
      BY <1>3, <1>4, <1>8
    <2> QED BY <1>2, <1>7, <1>8, <2>1 DEF Replaces
  <1>9. CASE ~(Used(s, b) < BlockSize)
    BY <1>2, <1>7, <1>9 DEF Replaces
  <1> QED BY <1>8, <1>9

-----------------------------------------------------------------------------
\* FtlImpl_Bast::write, the write: the page is alive in the log block.
LogSteps(x, c, o, t, l, p, k, r, v) ==
    /\ BastOffsets(x, c, l, p, k) /\ BastOutdates(c, o, v) /\ BastIssues(o, t, LogOf(x, l), k, r, v)
    /\ Replaces(x, l, p, r) /\ v \in LogicalPages /\ v = Linear(l, p)

LEMMA LogWrites ==
    ASSUME NEW x, NEW alive, NEW l \in LBAs, NEW p \in Pages, NEW k, BastRoom(x, alive, l, k),
           NEW c, NEW o, NEW t, NEW r, NEW v, LogSteps(x, c, o, t, l, p, k, r, v)
    PROVE  BastOk(t, alive \cup {v}, alive \cup {v}) /\ Sticky(x, t)
  <1>1. /\ x \in BastDrives /\ x.invalid_list = << >> /\ x.abort \in Harmless
        /\ x.abort = "none" => BastWhole(x, alive, alive)
    BY DEF BastRoom, BastOk
  <1>2. PICK b \in BlocksOf(BastPlanes) : b = LogOf(x, l)
    BY <1>1, BastFields DEF BlockSlots, BastRoom
  <1>3. b # None /\ k \in Pages /\ k # None /\ (x.abort = "none" => k = Used(x, b))
    BY <1>2 DEF BastRoom, BlocksOf, Pages, None
  <1>4. PICK d : d = DataOf(x, l)
    OBVIOUS
  <1>5. /\ c \in BastDrives /\ SameFlash(x, c) /\ SameManager(x, c) /\ c.abort = x.abort
        /\ LogTable(c) = LogTable(x) /\ c.map.data_list = x.map.data_list
        /\ \A j \in LBAs : j # l => c.map.log_map[j] = x.map.log_map[j]
        /\ LogOf(c, l) = b /\ OffsetOf(c, l, p) = k
        /\ \A q \in Pages : q # p => OffsetOf(c, l, q) = OffsetOf(x, l, q)
    BY <1>2 DEF LogSteps, BastOffsets
  <1>6. /\ o.map = c.map /\ SameManager(c, o) /\ o.abort = c.abort
        /\ \A h \in BlocksOf(BastPlanes) : SameCells(c, o, h, v)
        /\ BastFlash(c) => BastFlash(o)
    BY DEF LogSteps, BastOutdates
  <1>7. /\ t \in BastDrives /\ SameManager(o, t) /\ t.map = o.map
        /\ Cell(o, b, k) = "EMPTY" \/ o.abort # "none" => t.abort = o.abort
        /\ BastFlash(o) /\ ~Idle(o, b) /\ Cell(o, b, k) = "EMPTY" /\ (r # None => ~Idle(o, BlockOf(r)))
              => BastIssue(o, t, b, k, r, v)
    BY <1>2 DEF LogSteps, BastIssues
  <1>8. Replaces(x, l, p, r) /\ v \in LogicalPages /\ v = Linear(l, p)
    BY DEF LogSteps
  <1>9. /\ t.map.data_list = x.map.data_list /\ LogTable(t) = LogTable(x)
        /\ \A j \in LBAs : j # l => t.map.log_map[j] = x.map.log_map[j]
        /\ LogOf(t, l) = b /\ OffsetOf(t, l, p) = k /\ DataOf(t, l) = d
        /\ \A q \in Pages : q # p => OffsetOf(t, l, q) = OffsetOf(x, l, q)
    BY <1>4, <1>5, <1>6, <1>7 DEF LogTable, LogOf, OffsetOf, DataOf
  <1>10. ASSUME x.abort = "none" PROVE t.abort = "none" /\ BastWhole(t, alive \cup {v}, alive \cup {v})
    <2>1. BastWhole(x, alive, alive) /\ BastFlash(x) /\ k = Used(x, b)
      BY <1>1, <1>3, <1>10 DEF BastWhole
    <2>2. BastApart(x, l) /\ BlockKept(x, alive, l) /\ DataKept(x, alive, l)
      BY <2>1, Apart DEF BastWhole
    <2>3. ~Idle(x, b) /\ b # d /\ (d # None => d \in BlocksOf(BastPlanes) /\ ~Idle(x, d))
      BY <1>2, <1>3, <1>4, <2>2 DEF BastApart
    <2>4. \A q \in Pages : Cell(x, b, q) = "EMPTY" <=> q >= k
      BY <1>2, <1>3, <2>1, <2>2 DEF BlockKept
    <2>5. \A h \in BlocksOf(BastPlanes) : SameCells(x, o, h, v)
      <3>1. SUFFICES ASSUME NEW h \in BlocksOf(BastPlanes) PROVE SameCells(x, o, h, v)
        OBVIOUS
      <3>2. SameCells(x, c, h, None) /\ SameCells(c, o, h, v)
        BY <1>5, <1>6, SameCellsFlash
      <3> QED BY <3>2, SameCellsChain
    <2>6. BastFlash(o) /\ \A h : Idle(o, h) <=> Idle(x, h)
      <3>1. BastFlash(c)
        BY <1>5, <2>1, BastFlashSame
      <3>2. \A h : Idle(o, h) <=> Idle(c, h)
        BY <1>6, SameStock
      <3>3. \A h : Idle(c, h) <=> Idle(x, h)
        BY <1>5, SameStock
      <3> QED BY <1>6, <3>1, <3>2, <3>3
    <2>7. Cell(x, b, k) = "EMPTY" /\ Cell(o, b, k) = "EMPTY"
      <3>1. k >= k
        BY <1>3 DEF Pages
      <3> QED BY <1>3, <2>4, <2>5, <3>1 DEF SameCells
    <2>8. \A q \in Pages : OffsetOf(x, l, q) # None =>
              /\ OffsetOf(x, l, q) \in Pages /\ OffsetOf(x, l, q) # k
              /\ Linear(l, q) \in alive /\ Stored(x, b, OffsetOf(x, l, q), Linear(l, q))
      <3>1. SUFFICES ASSUME NEW q \in Pages, OffsetOf(x, l, q) # None
                     PROVE  /\ OffsetOf(x, l, q) \in Pages /\ OffsetOf(x, l, q) # k
                            /\ Linear(l, q) \in alive /\ Stored(x, b, OffsetOf(x, l, q), Linear(l, q))
        OBVIOUS
      <3>2. OffsetOf(x, l, q) \in Pages
        BY <1>1, <3>1, BastFields
      <3>3. Linear(l, q) \in alive /\ Stored(x, b, OffsetOf(x, l, q), Linear(l, q))
        BY <1>2, <2>2, <3>1 DEF BlockKept
      <3>4. Cell(x, b, OffsetOf(x, l, q)) = "VALID"
        BY <3>3 DEF Stored
      <3> QED BY <2>7, <3>2, <3>3, <3>4
    \* Where r leads, seen from a block and a page.
    <2>9. \A h \in BlocksOf(BastPlanes), q \in Pages : Linear(h, q) = r =>
              (h = d /\ q = p) \/ (h = b /\ OffsetOf(x, l, p) # None /\ q = OffsetOf(x, l, p))
      <3>1. SUFFICES ASSUME NEW h \in BlocksOf(BastPlanes), NEW q \in Pages, Linear(h, q) = r
                     PROVE  (h = d /\ q = p) \/ (h = b /\ OffsetOf(x, l, p) # None /\ q = OffsetOf(x, l, p))
        OBVIOUS
      <3>2. PICK n \in Nat \ {0} : n = BastPlanes
        BY BastSizes
      <3>3. BlockOf(r) = h /\ PageOf(r) = q /\ r \in AddressesOf(n)
        BY <3>1, <3>2, Geometry
      <3>4. r # None
        BY <3>3 DEF AddressesOf, None
      <3>5. CASE DataOf(x, l) # None /\ r = Linear(DataOf(x, l), p)
        <4>1. BlockOf(r) = d /\ PageOf(r) = p
          BY <1>4, <2>3, <3>2, <3>5, Geometry
        <4> QED BY <3>3, <4>1
      <3>6. CASE OffsetOf(x, l, p) # None /\ r = Linear(LogOf(x, l), OffsetOf(x, l, p))
        <4>1. BlockOf(r) = b /\ PageOf(r) = OffsetOf(x, l, p)
          BY <1>2, <2>8, <3>2, <3>6, Geometry
        <4> QED BY <3>3, <3>6, <4>1
      <3> QED BY <1>8, <3>4, <3>5, <3>6 DEF Replaces
    <2>10. r # None => ~Idle(o, BlockOf(r))
      <3>1. SUFFICES ASSUME r # None PROVE ~Idle(o, BlockOf(r))
        OBVIOUS
      <3>2. PICK n \in Nat \ {0} : n = BastPlanes
        BY BastSizes
      <3>3. r \in AddressesOf(n)
        BY <1>1, <1>2, <1>3, <1>8, <3>1, <3>2, ReplacesAddress
      <3>4. BlockOf(r) \in BlocksOf(n) /\ PageOf(r) \in Pages /\ r = Linear(BlockOf(r), PageOf(r))
        BY <3>3, Geometry
      <3>5. BlockOf(r) = d \/ BlockOf(r) = b
        BY <2>9, <3>2, <3>4
      <3>6. BlockOf(r) # None
        BY <3>4 DEF BlocksOf, None
      <3> QED BY <2>3, <2>6, <3>5, <3>6
    <2>11. BastIssue(o, t, b, k, r, v)
      BY <1>7, <2>3, <2>6, <2>7, <2>10
    <2>12. /\ BastFlash(t)
           /\ \A h \in BlocksOf(BastPlanes) : Used(t, h) = IF h = b THEN Used(o, h) + 1 ELSE Used(o, h)
           /\ \A h \in BlocksOf(BastPlanes), q \in Pages :
                /\ Cell(t, h, q) = IF Linear(h, q) = r THEN "INVALID"
                                   ELSE IF h = b /\ q = k THEN "VALID" ELSE Cell(o, h, q)
                /\ Datum(t, h, q) = IF h = b /\ q = k THEN v ELSE Datum(o, h, q)
      BY <2>11 DEF BastIssue
    <2>13. t.abort = "none"
      BY <1>5, <1>6, <1>7, <1>10, <2>7
    <2>14. \A j \in LBAs, q \in Pages : Linear(j, q) = v => j = l /\ q = p
      <3>1. SUFFICES ASSUME NEW j \in LBAs, NEW q \in Pages, Linear(j, q) = v PROVE j = l /\ q = p
        OBVIOUS
      <3>2. BlockOf(v) = j /\ PageOf(v) = q /\ BlockOf(v) = l /\ PageOf(v) = p
        BY <1>8, <3>1, LogicalGeometry DEF LBAs
      <3> QED BY <3>2
    <2>15. \A h \in BlocksOf(BastPlanes) : h # b /\ h # d => SameCells(x, t, h, v)
      <3>1. SUFFICES ASSUME NEW h \in BlocksOf(BastPlanes), h # b, h # d PROVE SameCells(x, t, h, v)
        OBVIOUS
      <3>2. SameCells(o, t, h, None)
        BY <2>9, <2>12, <3>1 DEF SameCells
      <3>3. SameCells(x, o, h, v)
        BY <2>5
      <3> QED BY <3>2, <3>3, SameCellsChain
    <2>16. Touches(x, t, l, v)
      BY <1>2, <1>4, <1>9, <2>14, <2>15 DEF Touches
    <2>17. Owns(BastPlanes, Idles(BastPlanes, t), LogTable(t), t.map.data_list, t.log_active, t.data_active)
      <3>1. Idles(BastPlanes, t) = Idles(BastPlanes, o) /\ Idles(BastPlanes, o) = Idles(BastPlanes, x)
        BY <1>7, <2>6, SameIdles DEF Idles
      <3>2. t.log_active = x.log_active /\ t.data_active = x.data_active
        BY <1>5, <1>6, <1>7 DEF SameManager
      <3>3. Owns(BastPlanes, Idles(BastPlanes, x), LogTable(x), x.map.data_list, x.log_active, x.data_active)
        BY <2>1 DEF BastWhole
      <3> QED BY <1>9, <3>1, <3>2, <3>3
    <2>18. \A q \in Pages : Cell(t, b, q) = "EMPTY" <=> q >= Used(t, b)
      <3>1. Used(o, b) = k /\ Used(t, b) = k + 1
        BY <2>1, <2>5, <2>12 DEF SameCells
      <3>2. ASSUME NEW q \in Pages PROVE Cell(t, b, q) = "EMPTY" <=> q >= k + 1
        <4>1. q \in Nat /\ k \in Nat
          BY <1>3 DEF Pages
        <4>2. CASE q = k
          <5>1. Cell(t, b, q) # "EMPTY"
            BY <2>12, <4>2
          <5> QED BY <4>1, <4>2, <5>1
        <4>3. CASE q # k /\ Linear(b, q) = r
          <5>1. OffsetOf(x, l, p) # None /\ q = OffsetOf(x, l, p)
            BY <2>3, <2>9, <4>3
          <5>2. Cell(x, b, q) = "VALID"
            BY <2>8, <5>1 DEF Stored
          <5>3. ~(q >= k)
            BY <2>4, <5>2
          <5>4. Cell(t, b, q) # "EMPTY"
            BY <2>12, <4>3
          <5> QED BY <4>1, <5>3, <5>4
        <4>4. CASE q # k /\ Linear(b, q) # r
          <5>1. Cell(t, b, q) = Cell(x, b, q)
            BY <2>5, <2>12, <4>4 DEF SameCells
          <5> QED BY <2>4, <4>1, <4>4, <5>1
        <4> QED BY <4>2, <4>3, <4>4
      <3> QED BY <3>1, <3>2
    <2>19. Stored(t, b, k, v)
      <3>1. Linear(b, k) # r
        BY <1>3, <2>3, <2>8, <2>9
      <3> QED BY <1>3, <2>12, <3>1 DEF Stored
    <2>20. ASSUME NEW q \in Pages, q # p, OffsetOf(x, l, q) # None
           PROVE  Linear(l, q) \in alive /\ Stored(t, b, OffsetOf(x, l, q), Linear(l, q))
      <3>1. PICK h \in Pages : h = OffsetOf(x, l, q)
        BY <2>8, <2>20
      <3>2. h # k /\ Linear(l, q) \in alive /\ Stored(x, b, h, Linear(l, q))
        BY <2>8, <2>20, <3>1
      <3>3. Linear(l, q) # v
        BY <2>14, <2>20
      <3>4. Linear(b, h) # r
        <4>1. SUFFICES ASSUME Linear(b, h) = r PROVE FALSE
          OBVIOUS
        <4>2. OffsetOf(x, l, p) # None /\ h = OffsetOf(x, l, p)
          BY <2>3, <2>9, <4>1
        <4>3. Stored(x, b, h, v)
          BY <1>8, <2>8, <4>2
        <4> QED BY <3>2, <3>3, <4>3 DEF Stored
      <3>5. Stored(o, b, h, Linear(l, q))
        BY <2>5, <3>2, <3>3 DEF SameCells, Stored
      <3> QED BY <2>12, <3>1, <3>2, <3>4, <3>5 DEF Stored
    <2>21. ASSUME NEW q \in Pages, q # p, Linear(l, q) \in alive \cup {v}, OffsetOf(x, l, q) = None
           PROVE  d # None /\ Stored(t, d, q, Linear(l, q))
      <3>1. Linear(l, q) # v
        BY <2>14, <2>21
      <3>2. d # None /\ Stored(x, d, q, Linear(l, q))
        BY <1>4, <2>2, <2>21, <3>1 DEF BlockKept
      <3>3. Stored(o, d, q, Linear(l, q))
        BY <2>3, <2>5, <3>1, <3>2 DEF SameCells, Stored
      <3>4. Linear(d, q) # r
        BY <2>3, <2>9, <2>21, <3>2
      <3> QED BY <2>3, <2>12, <3>2, <3>3, <3>4 DEF Stored
    <2>22. BlockKept(t, alive \cup {v}, l)
      <3>1. \A q \in Pages : OffsetOf(t, l, q) # None =>
                Linear(l, q) \in alive \cup {v} /\ Stored(t, b, OffsetOf(t, l, q), Linear(l, q))
        BY <1>8, <1>9, <2>19, <2>20
      <3>2. \A q \in Pages : Linear(l, q) \in alive \cup {v} /\ OffsetOf(t, l, q) = None =>
                d # None /\ Stored(t, d, q, Linear(l, q))
        BY <1>3, <1>9, <2>21
      <3> QED BY <1>3, <1>9, <2>18, <3>1, <3>2 DEF BlockKept
    <2>23. DataKept(t, alive \cup {v}, l)
      <3>1. ASSUME NEW q \in Pages, d # None, Cell(t, d, q) = "VALID" PROVE Linear(l, q) \in alive
        <4>1. Cell(o, d, q) = "VALID"
          BY <2>3, <2>12, <3>1
        <4>2. Cell(x, d, q) = "VALID"
          BY <2>3, <2>5, <3>1, <4>1 DEF SameCells
        <4> QED BY <1>4, <2>2, <3>1, <4>2 DEF DataKept
      <3> QED BY <1>9, <3>1 DEF DataKept
    <2>24. AlikeElsewhere(l, alive, alive \cup {v})
      BY <2>14 DEF AlikeElsewhere
    <2>25. BastWhole(t, alive \cup {v}, alive \cup {v})
      <3>1. PICK A : A = alive \cup {v}
        OBVIOUS
      <3>2. /\ BlockKept(t, A, l) /\ DataKept(t, A, l) /\ AlikeElsewhere(l, alive, A)
        BY <2>22, <2>23, <2>24, <3>1
      <3>3. BastWhole(t, A, A)
        BY <2>1, <2>12, <2>16, <2>17, <3>2, BastWholeBy
      <3> QED BY <3>1, <3>3
    <2> QED BY <2>13, <2>25
  <1>11. Sticky(x, t) /\ t.abort = x.abort
    <2>1. CASE x.abort = "none"
      BY <1>1, <1>10, <2>1 DEF Sticky
    <2>2. CASE x.abort # "none"
      BY <1>5, <1>6, <1>7, <2>2 DEF Sticky
    <2> QED BY <2>1, <2>2
  <1>12. t.invalid_list = << >>
    BY <1>1, <1>5, <1>6, <1>7 DEF SameManager
  <1>13. BastOk(t, alive \cup {v}, alive \cup {v})
    BY <1>1, <1>7, <1>10, <1>11, <1>12 DEF BastOk
  <1> QED BY <1>11, <1>13

-----------------------------------------------------------------------------
\* FtlImpl_Bast::trim, the log block.
BastInactive(s, b) == s.block[b].state = "INACTIVE"

LEMMA InactiveCells ==
    ASSUME NEW s, BastFlash(s), NEW b \in BlocksOf(BastPlanes), BastInactive(s, b)
    PROVE  \A q \in Pages : Cell(s, b, q) = "INVALID"
  <1>1. PICK n \in Nat \ {0} : n = BastPlanes
    BY BastSizes
  <1>2. BlockFits(s.block[b])
    BY DEF BastFlash, Fits
  <1>3. \A q \in Pages : s.block[b].page[q] = "INVALID"
    BY <1>2 DEF BlockFits, BastInactive
  <1>4. ASSUME NEW q \in Pages PROVE Cell(s, b, q) = "INVALID"
    <2>1. BlockOf(Linear(b, q)) = b /\ PageOf(Linear(b, q)) = q
      BY <1>1, Geometry
    <2> QED BY <1>3, <2>1 DEF Cell, PageAt
  <1> QED BY <1>4

LEMMA OtherPage ==
    ASSUME NEW l \in LBAs, NEW p \in Pages, NEW v, v = Linear(l, p)
    PROVE  \A j \in LBAs, q \in Pages : Linear(j, q) = v => j = l /\ q = p
  <1>1. SUFFICES ASSUME NEW j \in LBAs, NEW q \in Pages, Linear(j, q) = v PROVE j = l /\ q = p
    OBVIOUS
  <1>2. BlockOf(v) = j /\ PageOf(v) = q /\ BlockOf(v) = l /\ PageOf(v) = p
    BY <1>1, LogicalGeometry DEF LBAs
  <1> QED BY <1>2

\* The page is in no log block.
LEMMA TrimsUnlogged ==
    ASSUME NEW s, NEW alive, BastWhole(s, alive, alive), NEW l \in LBAs, NEW p \in Pages, NEW v, v = Linear(l, p),
           NEW o, BastOutdates(s, o, v), OffsetOf(s, l, p) = None
    PROVE  BastWhole(o, alive \ {v}, alive)
  <1>1. PICK A : A = alive \ {v}
    OBVIOUS
  <1>2. BastFlash(s) /\ BlockKept(s, alive, l) /\ DataKept(s, alive, l) /\ BastApart(s, l)
    BY Apart DEF BastWhole
  <1>3. /\ o.map = s.map /\ SameManager(s, o) /\ BastFlash(o)
        /\ \A c \in BlocksOf(BastPlanes) : SameCells(s, o, c, v)
    BY <1>2 DEF BastOutdates
  <1>4. \A j \in LBAs, q \in Pages : Linear(j, q) = v => j = l /\ q = p
    BY OtherPage
  <1>5. PICK b : b = LogOf(s, l)
    OBVIOUS
  <1>6. PICK d : d = DataOf(s, l)
    OBVIOUS
  <1>7. /\ LogOf(o, l) = b /\ DataOf(o, l) = d /\ LogTable(o) = LogTable(s)
        /\ \A q \in Pages : OffsetOf(o, l, q) = OffsetOf(s, l, q)
    BY <1>3, <1>5, <1>6 DEF LogOf, DataOf, OffsetOf, LogTable
  <1>8. /\ b # None => b \in BlocksOf(BastPlanes) /\ SameCells(s, o, b, v)
        /\ d # None => d \in BlocksOf(BastPlanes) /\ SameCells(s, o, d, v)
    BY <1>2, <1>3, <1>5, <1>6 DEF BastApart
  <1>9. ASSUME NEW q \in Pages, OffsetOf(s, l, q) # None
        PROVE  Linear(l, q) \in A /\ Stored(o, b, OffsetOf(s, l, q), Linear(l, q))
    <2>1. OffsetOf(s, l, q) \in Pages
      BY <1>2, <1>9, BastFields DEF BastFlash
    <2>2. Linear(l, q) \in alive /\ Stored(s, b, OffsetOf(s, l, q), Linear(l, q)) /\ b # None
      BY <1>2, <1>5, <1>9 DEF BlockKept
    <2>3. Linear(l, q) # v
      BY <1>4, <1>9
    <2> QED BY <1>1, <1>8, <2>1, <2>2, <2>3 DEF SameCells, Stored
  <1>10. ASSUME NEW q \in Pages, Linear(l, q) \in A, OffsetOf(s, l, q) = None
         PROVE  d # None /\ Stored(o, d, q, Linear(l, q))
    <2>1. d # None /\ Stored(s, d, q, Linear(l, q)) /\ Linear(l, q) # v
      BY <1>1, <1>2, <1>6, <1>10 DEF BlockKept
    <2> QED BY <1>8, <2>1 DEF SameCells, Stored
  <1>11. b # None => \A q \in Pages : Cell(o, b, q) = "EMPTY" <=> q >= Used(o, b)
    BY <1>2, <1>5, <1>8 DEF BlockKept, SameCells
  <1>12. BlockKept(o, A, l)
    <2>1. b = None => \A q \in Pages : OffsetOf(s, l, q) = None
      BY <1>2, <1>5 DEF BlockKept
    <2> QED BY <1>7, <1>9, <1>10, <1>11, <2>1 DEF BlockKept
  <1>13. DataKept(o, alive, l)
    BY <1>2, <1>6, <1>7, <1>8 DEF DataKept, SameCells
  <1>14. Touches(s, o, l, v)
    BY <1>3, <1>4 DEF Touches
  <1>15. Owns(BastPlanes, Idles(BastPlanes, o), LogTable(o), o.map.data_list, o.log_active, o.data_active)
    <2>1. Idles(BastPlanes, o) = Idles(BastPlanes, s)
      BY <1>3, SameIdles
    <2> QED BY <1>3, <1>7, <2>1 DEF BastWhole, SameManager
  <1>16. AlikeElsewhere(l, alive, A) /\ AlikeElsewhere(l, alive, alive)
    BY <1>1, <1>4 DEF AlikeElsewhere
  <1>17. BastWhole(o, A, alive)
    BY <1>3, <1>12, <1>13, <1>14, <1>15, <1>16, BastWholeBy
  <1> QED BY <1>1, <1>17

\* The page is invalid and not mapped; the log block has pages left.
BastUnmaps(s, o, w, u, l, p, b, k) ==
    /\ BastOutdates(s, o, Linear(l, p)) /\ BastReplaces(o, w, b, k) /\ BastOffsets(w, u, l, p, None)

LEMMA BastUnmapped ==
    ASSUME NEW s, NEW alive, BastWhole(s, alive, alive), NEW l \in LBAs, NEW p \in Pages,
           NEW b, b = LogOf(s, l), NEW k, k = OffsetOf(s, l, p), k # None,
           NEW o, NEW w, NEW u, BastUnmaps(s, o, w, u, l, p, b, k)
    PROVE  BastWhole(u, alive \ {Linear(l, p)}, alive) /\ LogOf(u, l) = b /\ DataOf(u, l) = DataOf(s, l)
  <1>1. PICK v : v = Linear(l, p)
    OBVIOUS
  <1>2. PICK A : A = alive \ {v}
    OBVIOUS
  <1>3. BastFlash(s) /\ s \in BastDrives /\ BlockKept(s, alive, l) /\ DataKept(s, alive, l) /\ BastApart(s, l)
    BY Apart DEF BastWhole, BastFlash
  <1>4. PICK d : d = DataOf(s, l)
    OBVIOUS
  <1>5. /\ b \in BlocksOf(BastPlanes) /\ ~Idle(s, b) /\ b # d /\ b # None
        /\ d # None => d \in BlocksOf(BastPlanes)
    <2>1. b # None
      BY <1>3 DEF BlockKept
    <2> QED BY <1>3, <1>4, <2>1 DEF BastApart
  <1>6. k \in Pages /\ Stored(s, b, k, v)
    <2>1. k \in Pages
      BY <1>3, BastFields
    <2> QED BY <1>1, <1>3, <2>1 DEF BlockKept
  <1>7. /\ o.map = s.map /\ SameManager(s, o) /\ BastFlash(o)
        /\ \A c \in BlocksOf(BastPlanes) : SameCells(s, o, c, v)
    BY <1>1, <1>3 DEF BastOutdates, BastUnmaps
  <1>8. ~Idle(o, b)
    BY <1>5, <1>7, SameStock
  <1>9. /\ w.map = o.map /\ SameManager(o, w) /\ BastFlash(w) /\ Used(w, b) = Used(o, b)
        /\ \A c \in BlocksOf(BastPlanes) : c # b => SameCells(o, w, c, None)
        /\ \A q \in Pages : /\ Cell(w, b, q) = IF q = k THEN "INVALID" ELSE Cell(o, b, q)
                            /\ Datum(w, b, q) = Datum(o, b, q)
    BY <1>7, <1>8 DEF BastReplaces, BastUnmaps
  <1>10. /\ u \in BastDrives /\ SameFlash(w, u) /\ SameManager(w, u) /\ LogTable(u) = LogTable(w)
         /\ u.map.data_list = w.map.data_list /\ \A j \in LBAs : j # l => u.map.log_map[j] = w.map.log_map[j]
         /\ LogOf(u, l) = LogOf(w, l) /\ OffsetOf(u, l, p) = None
         /\ \A q \in Pages : q # p => OffsetOf(u, l, q) = OffsetOf(w, l, q)
    BY DEF BastOffsets, BastUnmaps
  <1>11. \A j \in LBAs, q \in Pages : Linear(j, q) = v => j = l /\ q = p
    BY <1>1, OtherPage
  <1>12. \A c : SameCells(w, u, c, None)
    BY <1>10, SameCellsFlash
  <1>13. \A c \in BlocksOf(BastPlanes) : c # b => SameCells(s, u, c, v)
    <2>1. SUFFICES ASSUME NEW c \in BlocksOf(BastPlanes), c # b PROVE SameCells(s, u, c, v)
      OBVIOUS
    <2>2. SameCells(s, o, c, v) /\ SameCells(o, w, c, None) /\ SameCells(w, u, c, None)
      BY <1>7, <1>9, <1>12, <2>1
    <2>3. SameCells(s, w, c, v)
      BY <2>2, SameCellsChain
    <2> QED BY <2>2, <2>3, SameCellsChain
  <1>14. /\ Used(u, b) = Used(s, b)
         /\ \A q \in Pages : /\ Cell(u, b, q) = IF q = k THEN "INVALID" ELSE Cell(s, b, q)
                             /\ Datum(u, b, q) = IF Datum(s, b, q) = v THEN None ELSE Datum(s, b, q)
    BY <1>5, <1>7, <1>9, <1>12 DEF SameCells
  <1>15. /\ LogOf(u, l) = b /\ DataOf(u, l) = d /\ LogTable(u) = LogTable(s) /\ OffsetOf(u, l, p) = None
         /\ \A q \in Pages : q # p => OffsetOf(u, l, q) = OffsetOf(s, l, q)
         /\ u.map.data_list = s.map.data_list
         /\ \A j \in LBAs : j # l => u.map.log_map[j] = s.map.log_map[j]
    BY <1>4, <1>7, <1>9, <1>10 DEF LogOf, DataOf, OffsetOf, LogTable
  <1>16. ASSUME NEW q \in Pages, q # p, OffsetOf(s, l, q) # None
         PROVE  Linear(l, q) \in A /\ Stored(u, b, OffsetOf(s, l, q), Linear(l, q))
    <2>1. PICK h \in Pages : h = OffsetOf(s, l, q)
      BY <1>3, <1>16, BastFields
    <2>2. Linear(l, q) \in alive /\ Stored(s, b, h, Linear(l, q)) /\ Linear(l, q) # v
      BY <1>3, <1>11, <1>16, <2>1 DEF BlockKept
    <2>3. h # k
      BY <1>6, <2>2 DEF Stored
    <2> QED BY <1>2, <1>14, <2>1, <2>2, <2>3 DEF Stored
  <1>17. ASSUME NEW q \in Pages, Linear(l, q) \in A, q = p \/ OffsetOf(s, l, q) = None
         PROVE  d # None /\ Stored(u, d, q, Linear(l, q))
    <2>1. Linear(l, q) \in alive /\ Linear(l, q) # v /\ q # p
      BY <1>1, <1>2, <1>17
    <2>2. d # None /\ Stored(s, d, q, Linear(l, q))
      BY <1>3, <1>4, <1>17, <2>1 DEF BlockKept
    <2>3. SameCells(s, u, d, v)
      BY <1>5, <1>13, <2>2
    <2> QED BY <2>1, <2>2, <2>3 DEF SameCells, Stored
  <1>18. \A q \in Pages : Cell(u, b, q) = "EMPTY" <=> q >= Used(u, b)
    <2>1. \A q \in Pages : Cell(s, b, q) = "EMPTY" <=> q >= Used(s, b)
      BY <1>3, <1>5 DEF BlockKept
    <2>2. Cell(s, b, k) = "VALID"
      BY <1>6 DEF Stored
    <2> QED BY <1>6, <1>14, <2>1, <2>2
  <1>19. BlockKept(u, A, l)
    <2>1. \A q \in Pages : OffsetOf(u, l, q) # None =>
              Linear(l, q) \in A /\ Stored(u, b, OffsetOf(u, l, q), Linear(l, q))
      BY <1>15, <1>16
    <2>2. \A q \in Pages : Linear(l, q) \in A /\ OffsetOf(u, l, q) = None =>
              d # None /\ Stored(u, d, q, Linear(l, q))
      BY <1>15, <1>17
    <2> QED BY <1>5, <1>15, <1>18, <2>1, <2>2 DEF BlockKept
  <1>20. DataKept(u, alive, l)
    <2>1. ASSUME NEW q \in Pages, d # None, Cell(u, d, q) = "VALID" PROVE Linear(l, q) \in alive
      <3>1. SameCells(s, u, d, v)
        BY <1>5, <1>13, <2>1
      <3> QED BY <1>3, <1>4, <2>1, <3>1 DEF SameCells, DataKept
    <2> QED BY <1>15, <2>1 DEF DataKept
  <1>21. BastFlash(u)
    BY <1>9, <1>10, BastFlashSame
  <1>22. Touches(s, u, l, v)
    BY <1>11, <1>13, <1>15 DEF Touches
  <1>23. Owns(BastPlanes, Idles(BastPlanes, u), LogTable(u), u.map.data_list, u.log_active, u.data_active)
    <2>1. SameManager(s, u)
      BY <1>7, <1>9, <1>10 DEF SameManager
    <2>2. Idles(BastPlanes, u) = Idles(BastPlanes, s)
      BY <2>1, SameIdles
    <2> QED BY <1>15, <2>1, <2>2 DEF BastWhole, SameManager
  <1>24. AlikeElsewhere(l, alive, A) /\ AlikeElsewhere(l, alive, alive)
    BY <1>2, <1>11 DEF AlikeElsewhere
  <1>25. BastWhole(u, A, alive)
    BY <1>19, <1>20, <1>21, <1>22, <1>23, <1>24, BastWholeBy
  <1> QED BY <1>1, <1>2, <1>4, <1>15, <1>25

-----------------------------------------------------------------------------
\* A log block with nothing but invalid pages is erased.
LogErases(u, z, t, l, b) == BastLogSets(u, z, l, Bast!NoLog) /\ BastReleases(z, t, b, "LOG")

LEMMA LogErased ==
    ASSUME NEW u, NEW alive, NEW told, BastWhole(u, alive, told), NEW l \in LBAs, NEW b, b = LogOf(u, l), b # None,
           BastInactive(u, b), NEW z, NEW t, LogErases(u, z, t, l, b)
    PROVE  t.abort = "none" => BastWhole(t, alive, told)
  <1>1. /\ z \in BastDrives /\ SameFlash(u, z) /\ SameManager(u, z) /\ z.abort = u.abort
        /\ Updated(LBAs, u.map.log_map, z.map.log_map, l, Bast!NoLog) /\ z.map.data_list = u.map.data_list
        /\ Updated(LBAs, LogTable(u), LogTable(z), l, None)
    BY NoLogIs DEF LogErases, BastLogSets
  <1>2. t.map = z.map /\ (BastFlash(z) /\ ~Idle(z, b) /\ t.abort = "none" => BastFreed(z, t, b, "LOG"))
    BY DEF LogErases, BastReleases
  <1>3. /\ BastFlash(u) /\ u \in BastDrives /\ BlockKept(u, alive, l) /\ DataKept(u, told, l) /\ BastApart(u, l)
        /\ Owns(BastPlanes, Idles(BastPlanes, u), LogTable(u), u.map.data_list, u.log_active, u.data_active)
    BY Apart DEF BastWhole, BastFlash
  <1>4. PICK d : d = DataOf(u, l)
    OBVIOUS
  <1>5. b \in BlocksOf(BastPlanes) /\ ~Idle(u, b) /\ b # d /\ (d # None => d \in BlocksOf(BastPlanes))
    BY <1>3, <1>4 DEF BastApart
  <1>6. SUFFICES ASSUME t.abort = "none" PROVE BastWhole(t, alive, told)
    OBVIOUS
  <1>7. BastFlash(z) /\ ~Idle(z, b)
    BY <1>1, <1>3, <1>5, BastFlashSame, SameStock
  <1>8. BastFreed(z, t, b, "LOG")
    BY <1>2, <1>6, <1>7
  <1>9. /\ BastFlash(t) /\ Idles(BastPlanes, t) = Idles(BastPlanes, z) \cup {b}
        /\ t.log_active = z.log_active - 1 /\ t.data_active = z.data_active
        /\ \A c \in BlocksOf(BastPlanes) : c # b => SameCells(z, t, c, None)
    BY <1>8 DEF BastFreed
  <1>10. \A c \in BlocksOf(BastPlanes) : c # b => SameCells(u, t, c, None)
    <2>1. \A c : SameCells(u, z, c, None)
      BY <1>1, SameCellsFlash
    <2> QED BY <1>9, <2>1, SameCellsChain
  <1>11. /\ LogOf(t, l) = None /\ (\A p \in Pages : OffsetOf(t, l, p) = None) /\ DataOf(t, l) = d
         /\ \A k \in LBAs : k # l => /\ t.map.log_map[k] = u.map.log_map[k]
                                     /\ t.map.data_list[k] = u.map.data_list[k]
    BY <1>1, <1>2, <1>4, NoLogIs DEF Updated, LogOf, OffsetOf, DataOf
  \* Nothing is mapped to an invalid page.
  <1>12. \A q \in Pages : OffsetOf(u, l, q) = None
    <2>1. SUFFICES ASSUME NEW q \in Pages, OffsetOf(u, l, q) # None PROVE FALSE
      OBVIOUS
    <2>2. OffsetOf(u, l, q) \in Pages
      BY <1>3, <2>1, BastFields
    <2>3. Cell(u, b, OffsetOf(u, l, q)) = "VALID"
      BY <1>3, <2>1 DEF BlockKept, Stored
    <2>4. Cell(u, b, OffsetOf(u, l, q)) = "INVALID"
      BY <1>3, <1>5, <2>2, InactiveCells
    <2> QED BY <2>3, <2>4
  <1>13. BlockKept(t, alive, l)
    <2>1. ASSUME NEW q \in Pages, Linear(l, q) \in alive PROVE d # None /\ Stored(t, d, q, Linear(l, q))
      <3>1. d # None /\ Stored(u, d, q, Linear(l, q))
        BY <1>3, <1>4, <1>12, <2>1 DEF BlockKept
      <3>2. SameCells(u, t, d, None)
        BY <1>5, <1>10, <3>1
      <3> QED BY <3>1, <3>2 DEF SameCells, Stored
    <2> QED BY <1>11, <2>1 DEF BlockKept
  <1>14. DataKept(t, told, l)
    <2>1. d # None => SameCells(u, t, d, None)
      BY <1>5, <1>10
    <2> QED BY <1>3, <1>4, <1>11, <2>1 DEF DataKept, SameCells
  <1>15. Touches(u, t, l, None)
    BY <1>10, <1>11, NoneIsNoPage DEF Touches
  <1>16. Owns(BastPlanes, Idles(BastPlanes, t), LogTable(t), t.map.data_list, t.log_active, t.data_active)
    <2>1. PICK J, f, g, h, y, x : /\ J = Idles(BastPlanes, u) /\ f = LogTable(u) /\ h = u.map.data_list
                                  /\ g = LogTable(t) /\ y = u.log_active /\ x = u.data_active
      OBVIOUS
    <2>2. Owns(BastPlanes, J, f, h, y, x)
      BY <1>3, <2>1
    <2>3. f[l] = b
      BY <1>3, <2>1, BastFields
    <2>4. Updated(LBAs, f, g, l, None)
      BY <1>1, <1>2, <2>1 DEF LogTable, LogOf
    <2>5. Owns(BastPlanes, J \cup {b}, g, h, y - 1, x)
      BY <2>2, <2>3, <2>4, DisownsLog
    <2>6. Idles(BastPlanes, t) = J \cup {b}
      BY <1>1, <1>9, <2>1, SameIdles
    <2>7. t.log_active = y - 1 /\ t.data_active = x /\ t.map.data_list = h
      BY <1>1, <1>2, <1>9, <2>1 DEF SameManager
    <2> QED BY <2>1, <2>5, <2>6, <2>7
  <1> QED BY <1>3, <1>9, <1>13, <1>14, <1>15, <1>16, BastAlike, BastWholeBy

LEMMA LogTrimmed ==
    ASSUME NEW s, NEW alive, BastOk(s, alive, alive), s.abort = "none", NEW v \in LogicalPages,
           NEW l, l = BlockOf(v), NEW p, p = PageOf(v),
           NEW o, o = Bast!Outdate(s, v), NEW t, t = Bast!TrimLog(o, l, p)
    PROVE  BastOk(t, alive \ {v}, alive) /\ Sticky(s, t)
  <1>1. /\ s \in BastDrives /\ s.invalid_list = << >> /\ BastWhole(s, alive, alive)
    BY DEF BastOk
  <1>2. l \in LBAs /\ p \in Pages /\ v = Linear(l, p)
    BY LogicalGeometry DEF LBAs
  <1>3. PICK A : A = alive \ {v}
    OBVIOUS
  <1>4. BastOutdates(s, o, v)
    BY <1>1, BastOutdated
  <1>5. o \in BastDrives /\ o.map = s.map /\ SameManager(s, o) /\ o.abort = s.abort
    BY <1>4 DEF BastOutdates
  <1>6. PICK b : b = LogOf(o, l)
    OBVIOUS
  <1>7. PICK k : k = OffsetOf(o, l, p)
    OBVIOUS
  <1>8. b = LogOf(s, l) /\ k = OffsetOf(s, l, p)
    BY <1>5, <1>6, <1>7 DEF LogOf, OffsetOf
  <1>9. PICK w : w = Bast!PlaneReplace(o, Linear(b, k))
    OBVIOUS
  <1>10. PICK u : u = [w EXCEPT !.map.log_map[l].pages[p] = None]
    OBVIOUS
  <1>11. t = IF k = None THEN o
             ELSE IF BastInactive(u, b) THEN Bast!EraseAndInvalidate(Bast!DisposeLog(u, l), b, "LOG")
             ELSE u
    <2>1. t = IF k = Bast!None THEN o
              ELSE IF [Bast!PlaneReplace(o, Bast!Linear(b, k)) EXCEPT !.map.log_map[l].pages[p] = Bast!None].block[b].state = "INACTIVE"
              THEN Bast!EraseAndInvalidate(Bast!DisposeLog([Bast!PlaneReplace(o, Bast!Linear(b, k))
                                               EXCEPT !.map.log_map[l].pages[p] = Bast!None], l), b, "LOG")
              ELSE [Bast!PlaneReplace(o, Bast!Linear(b, k)) EXCEPT !.map.log_map[l].pages[p] = Bast!None]
      BY <1>6, <1>7, Zenon DEF Bast!TrimLog, LogOf, OffsetOf
    <2> QED BY <1>9, <1>10, <2>1, BastNames, Zenon DEF BastInactive
  <1>12. CASE k = None
    <2>1. t = o
      BY <1>11, <1>12, Zenon
    <2>2. BastWhole(o, A, alive)
      BY <1>1, <1>2, <1>3, <1>4, <1>8, <1>12, TrimsUnlogged
    <2>3. Sticky(s, o) /\ o.invalid_list = << >> /\ o.abort \in Harmless
      BY <1>1, <1>5, StickySame DEF SameManager, BastOk
    <2> QED BY <1>3, <1>5, <2>1, <2>2, <2>3 DEF BastOk
  <1>13. CASE k # None
    <2>1. BlockKept(s, alive, l)
      BY <1>1, <1>2 DEF BastWhole
    <2>2. b \in BlocksOf(BastPlanes) /\ b # None /\ k \in Pages
      BY <1>1, <1>2, <1>8, <1>13, <2>1, BastFields DEF BlockKept, BlockSlots
    <2>3. BastReplaces(o, w, b, k)
      BY <1>5, <1>9, <2>2, BastReplaced
    <2>4. w \in BastDrives /\ SameManager(o, w) /\ w.abort = o.abort
      BY <2>3 DEF BastReplaces
    <2>5. PICK x \in Pages \cup {None} : x = None
      OBVIOUS
    <2>6. BastOffsets(w, u, l, p, x)
      BY <1>2, <1>10, <2>4, <2>5, BastOffsetSet
    <2>7. u \in BastDrives /\ SameManager(w, u) /\ u.abort = w.abort
      BY <2>6 DEF BastOffsets
    <2>8. BastUnmaps(s, o, w, u, l, p, b, k)
      BY <1>2, <1>4, <2>3, <2>5, <2>6 DEF BastUnmaps
    <2>9. BastWhole(u, A, alive) /\ LogOf(u, l) = b
      <3>1. BastWhole(s, alive, alive) /\ l \in LBAs /\ p \in Pages
        BY <1>1, <1>2
      <3>2. BastWhole(u, alive \ {Linear(l, p)}, alive) /\ LogOf(u, l) = b
        BY <1>8, <1>13, <2>8, <3>1, BastUnmapped
      <3>3. A = alive \ {Linear(l, p)}
        BY <1>2, <1>3, Zenon
      <3> QED BY <3>2, <3>3, Zenon
    <2>10. u.invalid_list = << >> /\ u.abort = "none"
      BY <1>1, <1>5, <2>4, <2>7 DEF SameManager
    <2>11. CASE ~BastInactive(u, b)
      <3>1. t = u
        BY <1>11, <1>13, <2>11, Zenon
      <3>2. Sticky(s, u) /\ u.abort \in Harmless
        BY <2>10 DEF Sticky, Harmless
      <3> QED BY <1>3, <2>7, <2>9, <2>10, <3>1, <3>2 DEF BastOk
    <2>12. CASE BastInactive(u, b)
      <3>1. PICK z : z = Bast!DisposeLog(u, l)
        OBVIOUS
      <3>2. PICK lg : lg = "LOG"
        OBVIOUS
      <3>3. t = Bast!EraseAndInvalidate(z, b, lg)
        BY <1>11, <1>13, <2>12, <3>1, <3>2, Zenon
      <3>4. PICK e \in BastLog(BastPlanes) : e = Bast!NoLog
        BY NoLogIs
      <3>5. z = [u EXCEPT !.map.log_map[l] = e]
        BY <3>1, <3>4, Zenon DEF Bast!DisposeLog
      <3>6. BastLogSets(u, z, l, e)
        BY <1>2, <2>7, <3>5, BastLogSet
      <3>7. z \in BastDrives /\ SameManager(u, z) /\ z.abort = u.abort
        BY <3>6 DEF BastLogSets
      <3>8. BastReleases(z, t, b, lg)
        BY <2>2, <3>3, <3>7, BastReleased
      <3>9. t \in BastDrives /\ t.invalid_list = z.invalid_list /\ Sticky(z, t)
        BY <3>8 DEF BastReleases
      <3>10. LogErases(u, z, t, l, b)
        BY <3>2, <3>4, <3>6, <3>8 DEF LogErases
      <3>11. t.abort = "none" => BastWhole(t, A, alive)
        BY <1>2, <2>2, <2>9, <2>12, <3>10, LogErased
      <3>12. t.invalid_list = << >> /\ t.abort \in Harmless /\ Sticky(s, t)
        BY <2>10, <3>7, <3>9 DEF SameManager, Sticky
      <3> QED BY <1>3, <3>9, <3>11, <3>12 DEF BastOk
    <2> QED BY <2>11, <2>12
  <1> QED BY <1>12, <1>13

-----------------------------------------------------------------------------
\* FtlImpl_Bast::trim, the data block.
DataErases(w, z, t, l, d) == BastDataSets(w, z, l, None) /\ BastReleases(z, t, d, "DATA")

LEMMA DataInvalidated ==
    ASSUME NEW x, NEW alive, NEW l \in LBAs, NEW p \in Pages, NEW v, v = Linear(l, p),
           NEW A, A = alive \ {v}, BastWhole(x, A, alive), NEW d, d = DataOf(x, l), d # None,
           NEW w, BastReplaces(x, w, d, p)
    PROVE  BastWhole(w, A, A)
  <1>1. /\ BastFlash(x) /\ x \in BastDrives /\ BlockKept(x, A, l) /\ DataKept(x, alive, l) /\ BastApart(x, l)
    BY Apart DEF BastWhole, BastFlash
  <1>2. PICK b : b = LogOf(x, l)
    OBVIOUS
  <1>3. /\ d \in BlocksOf(BastPlanes) /\ ~Idle(x, d) /\ b # d
        /\ b # None => b \in BlocksOf(BastPlanes)
    BY <1>1, <1>2 DEF BastApart
  <1>4. /\ w.map = x.map /\ SameManager(x, w) /\ BastFlash(w) /\ Used(w, d) = Used(x, d)
        /\ \A c \in BlocksOf(BastPlanes) : c # d => SameCells(x, w, c, None)
        /\ \A q \in Pages : /\ Cell(w, d, q) = IF q = p THEN "INVALID" ELSE Cell(x, d, q)
                            /\ Datum(w, d, q) = Datum(x, d, q)
    BY <1>1, <1>3 DEF BastReplaces
  <1>5. \A j \in LBAs, q \in Pages : Linear(j, q) = v => j = l /\ q = p
    BY OtherPage
  <1>6. /\ LogOf(w, l) = b /\ DataOf(w, l) = d /\ LogTable(w) = LogTable(x)
        /\ \A q \in Pages : OffsetOf(w, l, q) = OffsetOf(x, l, q)
    BY <1>2, <1>4 DEF LogOf, DataOf, OffsetOf, LogTable
  <1>7. b # None => SameCells(x, w, b, None)
    BY <1>3, <1>4
  <1>8. ASSUME NEW q \in Pages, OffsetOf(x, l, q) # None
        PROVE  Linear(l, q) \in A /\ Stored(w, b, OffsetOf(x, l, q), Linear(l, q))
    <2>1. OffsetOf(x, l, q) \in Pages
      BY <1>1, <1>8, BastFields
    <2>2. Linear(l, q) \in A /\ Stored(x, b, OffsetOf(x, l, q), Linear(l, q)) /\ b # None
      BY <1>1, <1>2, <1>8 DEF BlockKept
    <2> QED BY <1>7, <2>1, <2>2 DEF SameCells, Stored
  <1>9. ASSUME NEW q \in Pages, Linear(l, q) \in A, OffsetOf(x, l, q) = None
        PROVE  Stored(w, d, q, Linear(l, q))
    <2>1. Stored(x, d, q, Linear(l, q)) /\ q # p
      BY <1>1, <1>9 DEF BlockKept
    <2> QED BY <1>4, <2>1 DEF Stored
  <1>10. BlockKept(w, A, l)
    <2>1. b = None => \A q \in Pages : OffsetOf(x, l, q) = None
      BY <1>1, <1>2 DEF BlockKept
    <2>2. b # None => \A q \in Pages : Cell(w, b, q) = "EMPTY" <=> q >= Used(w, b)
      BY <1>1, <1>2, <1>7 DEF BlockKept, SameCells
    <2> QED BY <1>6, <1>8, <1>9, <2>1, <2>2 DEF BlockKept
  <1>11. DataKept(w, A, l)
    <2>1. ASSUME NEW q \in Pages, Cell(w, d, q) = "VALID" PROVE Linear(l, q) \in A
      <3>1. q # p /\ Cell(x, d, q) = "VALID"
        BY <1>4, <2>1
      <3>2. Linear(l, q) \in alive /\ Linear(l, q) # v
        BY <1>1, <1>5, <3>1 DEF DataKept
      <3> QED BY <3>2
    <2> QED BY <1>6, <2>1 DEF DataKept
  <1>12. Touches(x, w, l, None)
    BY <1>4, NoneIsNoPage DEF Touches
  <1>13. Owns(BastPlanes, Idles(BastPlanes, w), LogTable(w), w.map.data_list, w.log_active, w.data_active)
    <2>1. Idles(BastPlanes, w) = Idles(BastPlanes, x)
      BY <1>4, SameIdles
    <2> QED BY <1>4, <1>6, <2>1 DEF BastWhole, SameManager
  <1>14. AlikeElsewhere(l, alive, A) /\ AlikeElsewhere(l, A, A)
    BY <1>5 DEF AlikeElsewhere
  <1> QED BY <1>4, <1>10, <1>11, <1>12, <1>13, <1>14, BastWholeBy

\* A data block with nothing but invalid pages is erased.
LEMMA DataDropped ==
    ASSUME NEW w, NEW A, BastWhole(w, A, A), NEW l \in LBAs, NEW d, d = DataOf(w, l), d # None,
           BastInactive(w, d), NEW z, NEW t, DataErases(w, z, t, l, d)
    PROVE  t.abort = "none" => BastWhole(t, A, A)
  <1>1. /\ z \in BastDrives /\ SameFlash(w, z) /\ SameManager(w, z) /\ z.abort = w.abort
        /\ Updated(LBAs, w.map.data_list, z.map.data_list, l, None) /\ z.map.log_map = w.map.log_map
        /\ LogTable(z) = LogTable(w)
    BY DEF DataErases, BastDataSets
  <1>2. t.map = z.map /\ (BastFlash(z) /\ ~Idle(z, d) /\ t.abort = "none" => BastFreed(z, t, d, "DATA"))
    BY DEF DataErases, BastReleases
  <1>3. /\ BastFlash(w) /\ w \in BastDrives /\ BlockKept(w, A, l) /\ DataKept(w, A, l) /\ BastApart(w, l)
        /\ Owns(BastPlanes, Idles(BastPlanes, w), LogTable(w), w.map.data_list, w.log_active, w.data_active)
    BY Apart DEF BastWhole, BastFlash
  <1>4. PICK b : b = LogOf(w, l)
    OBVIOUS
  <1>5. d \in BlocksOf(BastPlanes) /\ ~Idle(w, d) /\ b # d /\ (b # None => b \in BlocksOf(BastPlanes))
    BY <1>3, <1>4 DEF BastApart
  <1>6. SUFFICES ASSUME t.abort = "none" PROVE BastWhole(t, A, A)
    OBVIOUS
  <1>7. BastFlash(z) /\ ~Idle(z, d)
    BY <1>1, <1>3, <1>5, BastFlashSame, SameStock
  <1>8. BastFreed(z, t, d, "DATA")
    BY <1>2, <1>6, <1>7
  <1>9. /\ BastFlash(t) /\ Idles(BastPlanes, t) = Idles(BastPlanes, z) \cup {d}
        /\ t.log_active = z.log_active /\ t.data_active = z.data_active - 1
        /\ \A c \in BlocksOf(BastPlanes) : c # d => SameCells(z, t, c, None)
    BY <1>8 DEF BastFreed
  <1>10. \A c \in BlocksOf(BastPlanes) : c # d => SameCells(w, t, c, None)
    <2>1. \A c : SameCells(w, z, c, None)
      BY <1>1, SameCellsFlash
    <2> QED BY <1>9, <2>1, SameCellsChain
  <1>11. /\ LogOf(t, l) = b /\ (\A p \in Pages : OffsetOf(t, l, p) = OffsetOf(w, l, p)) /\ DataOf(t, l) = None
         /\ \A k \in LBAs : k # l => /\ t.map.log_map[k] = w.map.log_map[k]
                                     /\ t.map.data_list[k] = w.map.data_list[k]
    BY <1>1, <1>2, <1>4 DEF Updated, LogOf, OffsetOf, DataOf
  <1>12. b # None => SameCells(w, t, b, None)
    BY <1>5, <1>10
  <1>13. ASSUME NEW q \in Pages, OffsetOf(w, l, q) # None
         PROVE  Linear(l, q) \in A /\ Stored(t, b, OffsetOf(w, l, q), Linear(l, q))
    <2>1. OffsetOf(w, l, q) \in Pages
      BY <1>3, <1>13, BastFields
    <2>2. Linear(l, q) \in A /\ Stored(w, b, OffsetOf(w, l, q), Linear(l, q)) /\ b # None
      BY <1>3, <1>4, <1>13 DEF BlockKept
    <2> QED BY <1>12, <2>1, <2>2 DEF SameCells, Stored
  \* Nothing that is alive is in an invalid page.
  <1>14. \A q \in Pages : ~(Linear(l, q) \in A /\ OffsetOf(w, l, q) = None)
    <2>1. SUFFICES ASSUME NEW q \in Pages, Linear(l, q) \in A, OffsetOf(w, l, q) = None PROVE FALSE
      OBVIOUS
    <2>2. Cell(w, d, q) = "VALID"
      BY <1>3, <2>1 DEF BlockKept, Stored
    <2>3. Cell(w, d, q) = "INVALID"
      BY <1>3, <1>5, InactiveCells
    <2> QED BY <2>2, <2>3
  <1>15. BlockKept(t, A, l)
    <2>1. b = None => \A q \in Pages : OffsetOf(w, l, q) = None
      BY <1>3, <1>4 DEF BlockKept
    <2>2. b # None => \A q \in Pages : Cell(t, b, q) = "EMPTY" <=> q >= Used(t, b)
      BY <1>3, <1>4, <1>12 DEF BlockKept, SameCells
    <2> QED BY <1>11, <1>13, <1>14, <2>1, <2>2 DEF BlockKept
  <1>16. DataKept(t, A, l)
    BY <1>11 DEF DataKept
  <1>17. Touches(w, t, l, None)
    BY <1>10, <1>11, NoneIsNoPage DEF Touches
  <1>18. Owns(BastPlanes, Idles(BastPlanes, t), LogTable(t), t.map.data_list, t.log_active, t.data_active)
    <2>1. PICK J, f, g, h, y, x : /\ J = Idles(BastPlanes, w) /\ f = LogTable(w) /\ h = w.map.data_list
                                  /\ g = t.map.data_list /\ y = w.log_active /\ x = w.data_active
      OBVIOUS
    <2>2. Owns(BastPlanes, J, f, h, y, x)
      BY <1>3, <2>1
    <2>3. h[l] = d
      BY <2>1 DEF DataOf
    <2>4. Updated(LBAs, h, g, l, None)
      BY <1>1, <1>2, <2>1
    <2>5. Owns(BastPlanes, J \cup {d}, f, g, y, x - 1)
      BY <2>2, <2>3, <2>4, DisownsData
    <2>6. Idles(BastPlanes, t) = J \cup {d}
      BY <1>1, <1>9, <2>1, SameIdles
    <2>7. t.log_active = y /\ t.data_active = x - 1
      BY <1>1, <1>9, <2>1 DEF SameManager
    <2>8. LogTable(t) = f
      BY <1>1, <1>2, <2>1 DEF LogTable, LogOf
    <2> QED BY <2>1, <2>5, <2>6, <2>7, <2>8
  <1> QED BY <1>3, <1>9, <1>15, <1>16, <1>17, <1>18, BastAlike, BastWholeBy

LEMMA DataTrimmed ==
    ASSUME NEW s, NEW alive, NEW v \in LogicalPages, NEW A, A = alive \ {v}, BastOk(s, A, alive),
           NEW l, l = BlockOf(v), NEW p, p = PageOf(v), NEW t, t = Bast!TrimData(s, l, p)
    PROVE  BastOk(t, A, A) /\ Sticky(s, t)
  <1>1. /\ s \in BastDrives /\ s.invalid_list = << >> /\ s.abort \in Harmless
        /\ s.abort = "none" => BastWhole(s, A, alive)
    BY DEF BastOk
  <1>2. l \in LBAs /\ p \in Pages /\ v = Linear(l, p)
    BY LogicalGeometry DEF LBAs
  <1>3. PICK d : d = DataOf(s, l)
    OBVIOUS
  <1>4. PICK w : w = Bast!PlaneReplace(s, Linear(d, p))
    OBVIOUS
  <1>5. t = IF d = None THEN s
            ELSE IF BastInactive(w, d)
            THEN Bast!EraseAndInvalidate([w EXCEPT !.map.data_list[l] = None], d, "DATA")
            ELSE w
    <2>1. t = IF d = Bast!None THEN s
              ELSE IF Bast!PlaneReplace(s, Bast!Linear(d, p)).block[d].state = "INACTIVE"
              THEN Bast!EraseAndInvalidate([Bast!PlaneReplace(s, Bast!Linear(d, p))
                                            EXCEPT !.map.data_list[l] = Bast!None], d, "DATA")
              ELSE Bast!PlaneReplace(s, Bast!Linear(d, p))
      BY <1>3, Zenon DEF Bast!TrimData, DataOf
    <2> QED BY <1>4, <2>1, BastNames, Zenon DEF BastInactive
  <1>6. CASE d = None
    <2>1. t = s
      BY <1>5, <1>6, Zenon
    <2>2. ASSUME s.abort = "none" PROVE BastWhole(s, A, A)
      <3>1. \A j \in LBAs, q \in Pages : Linear(j, q) = v => j = l /\ q = p
        BY <1>2, OtherPage
      <3>2. BastWhole(s, A, alive)
        BY <1>1, <2>2
      <3>3. \A j \in LBAs : DataKept(s, alive, j)
        BY <3>2 DEF BastWhole
      <3>4. ASSUME NEW j \in LBAs PROVE DataKept(s, A, j)
        <4>1. CASE j = l
          BY <1>3, <1>6, <4>1 DEF DataKept
        <4>2. CASE j # l
          <5>1. \A q \in Pages : Linear(j, q) # v
            BY <3>1, <4>2
          <5> QED BY <3>3, <5>1 DEF DataKept
        <4> QED BY <4>1, <4>2
      <3> QED BY <3>2, <3>4 DEF BastWhole
    <2> QED BY <1>1, <2>1, <2>2, StickySame DEF BastOk
  <1>7. CASE d # None
    <2>1. d \in BlocksOf(BastPlanes)
      BY <1>1, <1>2, <1>3, <1>7, BastFields DEF BlockSlots
    <2>2. BastReplaces(s, w, d, p)
      BY <1>1, <1>2, <1>4, <2>1, BastReplaced
    <2>3. w \in BastDrives /\ SameManager(s, w) /\ w.abort = s.abort /\ w.map = s.map
      BY <2>2 DEF BastReplaces
    <2>4. s.abort = "none" => BastWhole(w, A, A)
      BY <1>1, <1>2, <1>3, <1>7, <2>2, DataInvalidated
    <2>5. w.invalid_list = << >> /\ Sticky(s, w) /\ DataOf(w, l) = d
      BY <1>1, <1>3, <2>3, StickySame DEF SameManager, DataOf
    <2>6. CASE ~BastInactive(w, d)
      <3>1. t = w
        BY <1>5, <1>7, <2>6, Zenon
      <3> QED BY <1>1, <2>3, <2>4, <2>5, <3>1 DEF BastOk
    <2>7. CASE BastInactive(w, d)
      <3>1. PICK e \in BlockSlots(BastPlanes) : e = None
        BY DEF BlockSlots
      <3>2. PICK z : z = [w EXCEPT !.map.data_list[l] = e]
        OBVIOUS
      <3>3. PICK type : type = "DATA"
        OBVIOUS
      <3>4. t = Bast!EraseAndInvalidate(z, d, type)
        BY <1>5, <1>7, <2>7, <3>1, <3>2, <3>3, Zenon
      <3>5. BastDataSets(w, z, l, e)
        BY <1>2, <2>3, <3>2, BastDataSet
      <3>6. z \in BastDrives /\ SameManager(w, z) /\ z.abort = w.abort
        BY <3>5 DEF BastDataSets
      <3>7. BastReleases(z, t, d, type)
        BY <2>1, <3>4, <3>6, BastReleased
      <3>8. t \in BastDrives /\ t.invalid_list = z.invalid_list /\ Sticky(z, t)
        BY <3>7 DEF BastReleases
      <3>9. DataErases(w, z, t, l, d)
        BY <3>1, <3>3, <3>5, <3>7 DEF DataErases
      <3>10. Sticky(s, t) /\ t.invalid_list = << >> /\ t.abort \in Harmless
        BY <1>1, <2>3, <2>5, <3>6, <3>8 DEF Sticky, SameManager
      <3>11. ASSUME t.abort = "none" PROVE BastWhole(t, A, A)
        <4>1. s.abort = "none"
          BY <3>10, <3>11 DEF Sticky
        <4>2. BastWhole(w, A, A)
          BY <2>4, <4>1
        <4> QED BY <1>2, <1>7, <2>5, <2>7, <3>9, <3>11, <4>2, DataDropped
      <3> QED BY <3>8, <3>10, <3>11 DEF BastOk
    <2> QED BY <2>6, <2>7
  <1> QED BY <1>6, <1>7

-----------------------------------------------------------------------------
\* FtlImpl_Bast::write.
LEMMA BastWriteTo ==
    ASSUME NEW s, NEW alive, BastOk(s, alive, alive), NEW v \in LogicalPages,
           NEW l, l = BlockOf(v), LogOf(s, l) # None, NEW p, p = PageOf(v),
           NEW c, c = Bast!PlaceInLog(s, l, p), NEW t, t = Bast!WriteTo(s, c, v)
    PROVE  BastOk(t, alive \cup {v}, alive \cup {v}) /\ Sticky(s, t)
  <1>1. l \in LBAs /\ p \in Pages /\ v = Linear(l, p)
    BY LogicalGeometry DEF LBAs
  <1>2. PICK x, k : BastPlaces(s, x, c, alive, l, p, k)
    <2>1. l \in LBAs /\ p \in Pages
      BY <1>1
    <2> QED BY <2>1, LogPlaced
  <1>3. /\ BastRoom(x, alive, l, k) /\ Sticky(s, x) /\ BastOffsets(x, c, l, p, k)
        /\ Used(s, LogOf(s, l)) < BlockSize => x = s
    BY <1>2 DEF BastPlaces
  <1>4. x \in BastDrives /\ LogOf(x, l) # None /\ k \in Pages
    BY <1>3 DEF BastRoom, BastOk
  <1>5. c \in BastDrives /\ LogOf(c, l) = LogOf(x, l) /\ OffsetOf(c, l, p) = k
    BY <1>3 DEF BastOffsets
  <1>6. PICK b \in BlocksOf(BastPlanes) : b = LogOf(x, l)
    BY <1>1, <1>4, BastFields DEF BlockSlots
  <1>7. PICK o : o = Bast!Outdate(c, v)
    OBVIOUS
  <1>8. BastOutdates(c, o, v)
    BY <1>5, <1>7, BastOutdated
  <1>9. PICK r : r = Bast!Replaced(s, c, l, p)
    OBVIOUS
  <1>10. Replaces(x, l, p, r)
    BY <1>1, <1>3, <1>9, ReplacedPage
  <1>11. r = None \/ r \in AddressesOf(BastPlanes)
    BY <1>1, <1>4, <1>10, ReplacesAddress
  <1>12. t = Bast!IssueWrite(o, Linear(b, k), r, v)
    <2>1. c.map.log_map[l].block = b /\ c.map.log_map[l].pages[p] = k
      BY <1>5, <1>6 DEF LogOf, OffsetOf
    <2>2. Bast!BlockOf(v) = l /\ Bast!PageOf(v) = p
      BY BastNames, Zenon
    <2>3. t = Bast!IssueWrite(Bast!Outdate(c, v),
                  Bast!Linear(c.map.log_map[Bast!BlockOf(v)].block, c.map.log_map[Bast!BlockOf(v)].pages[Bast!PageOf(v)]),
                  Bast!Replaced(s, c, Bast!BlockOf(v), Bast!PageOf(v)), v)
      BY Zenon DEF Bast!WriteTo
    <2>4. t = Bast!IssueWrite(o, Bast!Linear(b, k), r, v)
      BY <1>7, <1>9, <2>1, <2>2, <2>3, Zenon
    <2> QED BY <2>4, BastNames, Zenon
  <1>13. BastIssues(o, t, b, k, r, v)
    <2>1. o \in BastDrives
      BY <1>8 DEF BastOutdates
    <2> QED BY <1>4, <1>11, <1>12, <2>1, BastIssued
  <1>14. LogSteps(x, c, o, t, l, p, k, r, v)
    BY <1>1, <1>3, <1>6, <1>8, <1>10, <1>13, Zenon DEF LogSteps
  <1>15. BastOk(t, alive \cup {v}, alive \cup {v}) /\ Sticky(x, t)
    BY <1>1, <1>3, <1>14, LogWrites
  <1> QED BY <1>3, <1>15, StickyChain

LEMMA BastWritten ==
    ASSUME NEW s, NEW alive, BastOk(s, alive, alive), NEW v \in LogicalPages,
           NEW victim \in Bast!Victims(s, BlockOf(v)), NEW t, t = Bast!WriteResult(s, v, victim)
    PROVE  BastOk(t, alive \cup {v}, alive \cup {v}) /\ Sticky(s, t)
  <1>1. PICK l \in LBAs : l = BlockOf(v)
    BY LogicalGeometry DEF LBAs
  <1>2. Bast!Logged(s) = {k \in LBAs : LogOf(s, k) # None}
    BY BastNames, Zenon DEF Bast!Logged, LogOf
  <1>3. PICK x : x = IF l \in Bast!Logged(s) THEN s ELSE Bast!AllocateLog(s, l, victim)
    OBVIOUS
  <1>4. t = Bast!WriteTo(x, Bast!PlaceInLog(x, l, PageOf(v)), v)
    <2>1. Bast!BlockOf(v) = l /\ Bast!PageOf(v) = PageOf(v)
      BY <1>1, BastNames, Zenon
    <2>2. t = Bast!WriteTo(IF Bast!BlockOf(v) \in Bast!Logged(s) THEN s ELSE Bast!AllocateLog(s, Bast!BlockOf(v), victim),
                  Bast!PlaceInLog(IF Bast!BlockOf(v) \in Bast!Logged(s) THEN s
                                  ELSE Bast!AllocateLog(s, Bast!BlockOf(v), victim),
                                  Bast!BlockOf(v), Bast!PageOf(v)), v)
      BY Zenon DEF Bast!WriteResult
    <2> QED BY <1>3, <2>1, <2>2, Zenon
  <1>5. BastOk(x, alive, alive) /\ Sticky(s, x) /\ LogOf(x, l) # None
    <2>1. CASE l \in Bast!Logged(s)
      BY <1>2, <1>3, <2>1, StickySame
    <2>2. CASE l \notin Bast!Logged(s)
      <3>1. LogOf(s, l) = None /\ x = Bast!AllocateLog(s, l, victim)
        BY <1>2, <1>3, <2>2
      <3>2. victim = None \/ (victim \in LBAs /\ LogOf(s, victim) # None)
        <4>1. victim = Bast!None \/ victim \in Bast!Logged(s)
          BY Zenon DEF Bast!Victims
        <4> QED BY <1>2, <4>1, BastNames
      <3>3. BastOpens(s, x, alive, l)
        BY <3>1, <3>2, LogAllocated
      <3> QED BY <3>3 DEF BastOpens
    <2> QED BY <2>1, <2>2
  <1>6. PICK c : c = Bast!PlaceInLog(x, l, PageOf(v))
    OBVIOUS
  <1>7. BastOk(t, alive \cup {v}, alive \cup {v}) /\ Sticky(x, t)
    BY <1>1, <1>4, <1>5, <1>6, BastWriteTo
  <1> QED BY <1>5, <1>7, StickyChain

\* FtlImpl_Bast::trim.
LEMMA BastTrimmed ==
    ASSUME NEW s, NEW alive, BastOk(s, alive, alive), s.abort = "none", NEW v \in LogicalPages,
           NEW t, t = Bast!TrimResult(s, v)
    PROVE  BastOk(t, alive \ {v}, alive \ {v}) /\ Sticky(s, t)
  <1>1. PICK l, p : l = BlockOf(v) /\ p = PageOf(v)
    OBVIOUS
  <1>2. PICK o : o = Bast!Outdate(s, v)
    OBVIOUS
  <1>3. PICK u : u = Bast!TrimLog(o, l, p)
    OBVIOUS
  <1>4. t = Bast!TrimData(u, l, p)
    <2>1. t = Bast!TrimData(Bast!TrimLog(Bast!Outdate(s, v), Bast!BlockOf(v), Bast!PageOf(v)),
                            Bast!BlockOf(v), Bast!PageOf(v))
      BY Zenon DEF Bast!TrimResult
    <2> QED BY <1>1, <1>2, <1>3, <2>1, BastNames, Zenon
  <1>5. PICK A : A = alive \ {v}
    OBVIOUS
  <1>6. BastOk(u, alive \ {v}, alive) /\ Sticky(s, u)
    BY <1>1, <1>2, <1>3, LogTrimmed
  <1>7. BastOk(u, A, alive)
    BY <1>5, <1>6, Zenon
  <1>8. BastOk(t, A, A) /\ Sticky(u, t)
    BY <1>1, <1>4, <1>5, <1>7, DataTrimmed
  <1> QED BY <1>5, <1>6, <1>8, StickyChain, Zenon

-----------------------------------------------------------------------------
\* A new drive.
LEMMA BastStart ==
    ASSUME NEW n \in Nat \ {0}, n = BastPlanes, NEW m, m.data_list = [l \in LBAs |-> None],
           m.log_map = [l \in LBAs |-> Bast!NoLog], NEW s \in BastDrives, IsNew(n, s, m)
    PROVE  BastKept(s, {})
  <1>1. /\ s.map = m /\ s.abort = "none" /\ s.simpleCurrentFree = 0 /\ s.free_list = << >>
        /\ s.invalid_list = << >> /\ s.log_active = 0 /\ s.data_active = 0 /\ Fits(n, s)
        /\ \A x \in AddressesOf(n) : PageAt(s, x) = "EMPTY" /\ s.data[x] = None
        /\ \A b \in BlocksOf(n) : Used(s, b) = 0
    BY DEF IsNew
  <1>2. \A l \in LBAs : LogOf(s, l) = None /\ DataOf(s, l) = None /\ \A p \in Pages : OffsetOf(s, l, p) = None
    BY <1>1, NoLogIs DEF LogOf, DataOf, OffsetOf
  <1>3. PlaneSize * n \in Nat
    BY Geometry
  <1>4. Stock(n, s)
    BY <1>1, <1>3 DEF Stock
  <1>5. \A b \in BlocksOf(n) : Idle(s, b)
    BY <1>1, <1>3 DEF Idle, BlocksOf
  <1>6. \A b \in BlocksOf(n), p \in Pages : Cell(s, b, p) = "EMPTY"
    BY <1>1, Geometry DEF Cell
  <1>7. BastFlash(s)
    BY <1>1, <1>4, <1>6, Zenon DEF BastFlash
  <1>8. Owns(BastPlanes, Idles(BastPlanes, s), LogTable(s), s.map.data_list, s.log_active, s.data_active)
    <2>1. Held(LogTable(s)) = {} /\ Held(s.map.data_list) = {}
      BY <1>2 DEF Held, LogTable, DataOf
    <2>2. Cardinality({}) = 0
      BY FS_EmptySet
    <2>3. \A b \in BlocksOf(BastPlanes) : b \in Idles(BastPlanes, s)
      BY <1>5 DEF Idles
    <2>4. \A l \in LBAs : LogTable(s)[l] = None /\ s.map.data_list[l] = None
      BY <1>2 DEF LogTable, DataOf
    <2> QED BY <1>1, <2>1, <2>2, <2>3, <2>4 DEF Owns
  <1>9. \A l \in LBAs : BlockKept(s, {}, l) /\ DataKept(s, {}, l)
    BY <1>2 DEF BlockKept, DataKept
  <1> QED BY <1>1, <1>7, <1>8, <1>9 DEF BastKept, BastWhole, Harmless

LEMMA BastInitInv == Init => BastInv
  <1> SUFFICES ASSUME Bast!Init
      PROVE  BastKept(drive, live) /\ live \subseteq LogicalPages /\ lost = {}
    BY DEF Init, BastInv
  <1>1. PICK n \in Nat \ {0} : n = BastPlanes
    BY BastSizes
  <1>2. PICK e \in BastLog(n) : e = Bast!NoLog
    BY <1>1, NoLogIs
  <1>3. PICK f, g : f = [l \in LBAs |-> e] /\ g = [l \in LBAs |-> None]
    OBVIOUS
  <1>4. PICK m : m = [log_map |-> f, data_list |-> g]
    OBVIOUS
  <1>5. drive = Bast!NewDrive(m) /\ live = {} /\ lost = {}
    BY <1>2, <1>3, <1>4, BastNames, Zenon DEF Bast!Init, Bast!Start
  <1>6. m.log_map = f /\ m.data_list = g
    BY <1>4
  <1>7. m \in BastMaps(n)
    <2>1. f \in [LBAs -> BastLog(n)]
      BY <1>3
    <2>2. g \in [LBAs -> BlockSlots(n)]
      BY <1>3 DEF BlockSlots
    <2> QED BY <1>4, <2>1, <2>2 DEF BastMaps
  <1>8. drive \in BastDrives /\ IsNew(n, drive, m)
    <2>1. PICK i, k : i = "BAST" /\ k = BastLogBlocks
      OBVIOUS
    <2>2. PICK M : M = BastMaps(n)
      OBVIOUS
    <2>3. drive = Chip(n, i, k)!NewDrive(m)
      BY <1>1, <1>5, <2>1, BastChip, Zenon
    <2>4. m \in M
      BY <1>7, <2>2, Zenon
    <2>5. drive \in Drives(n, M) /\ IsNew(n, drive, m)
      BY <2>3, <2>4, NewDriveFits, Zenon
    <2> QED BY <1>1, <2>2, <2>5, Zenon DEF BastDrives
  <1>9. BastKept(drive, {})
    <2>1. m.data_list = [l \in LBAs |-> None] /\ m.log_map = [l \in LBAs |-> Bast!NoLog]
      BY <1>2, <1>3, <1>6, Zenon
    <2> QED BY <1>1, <1>8, <2>1, BastStart
  <1> QED BY <1>5, <1>9

\* A request that ends in a failed assertion leaves the tables as they were.
LEMMA BastEnds ==
    ASSUME NEW s, NEW alive, BastKept(s, alive), NEW c \in Harmless, NEW t, t = [s EXCEPT !.abort = c]
    PROVE  BastKept(t, alive)
  <1>1. BastWhole(s, alive, alive) /\ BastFlash(s)
    BY DEF BastKept, BastWhole
  <1>2. PICK M : M = BastMaps(BastPlanes)
    OBVIOUS
  <1>3. s \in Drives(BastPlanes, M)
    BY <1>1, <1>2 DEF BastFlash, BastDrives
  <1>4. t \in Drives(BastPlanes, M) /\ SameFlash(s, t) /\ SameManager(s, t) /\ t.map = s.map /\ t.abort = c
    BY <1>3, Abandoned
  <1>5. t \in BastDrives
    BY <1>2, <1>4 DEF BastDrives
  <1>6. BastFlash(t)
    BY <1>1, <1>4, <1>5, BastFlashSame
  <1>7. Idles(BastPlanes, t) = Idles(BastPlanes, s)
    BY <1>4, SameIdles
  <1>8. Owns(BastPlanes, Idles(BastPlanes, t), LogTable(t), t.map.data_list, t.log_active, t.data_active)
    <2>1. LogTable(t) = LogTable(s)
      BY <1>4 DEF LogTable, LogOf
    <2>2. t.log_active = s.log_active /\ t.data_active = s.data_active
      BY <1>4 DEF SameManager
    <2>3. Owns(BastPlanes, Idles(BastPlanes, s), LogTable(s), s.map.data_list, s.log_active, s.data_active)
      BY <1>1 DEF BastWhole
    <2> QED BY <1>4, <1>7, <2>1, <2>2, <2>3, Zenon
  <1>9. ASSUME NEW l \in LBAs PROVE BlockKept(t, alive, l) /\ DataKept(t, alive, l)
    <2>1. BlockKept(s, alive, l) /\ DataKept(s, alive, l)
      BY <1>1 DEF BastWhole
    <2>2. /\ LogOf(t, l) = LogOf(s, l) /\ DataOf(t, l) = DataOf(s, l)
          /\ \A p : OffsetOf(t, l, p) = OffsetOf(s, l, p)
          /\ \A b : Used(t, b) = Used(s, b)
          /\ \A b, p : Cell(t, b, p) = Cell(s, b, p) /\ Datum(t, b, p) = Datum(s, b, p)
      BY <1>4 DEF SameFlash, LogOf, DataOf, OffsetOf, Used, Cell, Datum, PageAt
    <2>3. BlockKept(t, alive, l)
      BY <2>1, <2>2 DEF BlockKept, Stored
    <2>4. DataKept(t, alive, l)
      BY <2>1, <2>2 DEF DataKept
    <2> QED BY <2>3, <2>4
  <1> QED BY <1>4, <1>6, <1>8, <1>9 DEF BastKept, BastWhole

\* Every request keeps the invariant, however it ends.
BastServed(s, t, after) == BastOk(t, after, after) /\ Sticky(s, t)

LEMMA BastServeInv ==
    ASSUME BastKept(drive, live), lost = {}, NEW t, NEW after, BastServed(drive, t, after),
           Bast!Serve(t, after, lost)
    PROVE  BastKept(drive', live') /\ lost' = {} /\ (live' = live \/ live' = after)
  <1>1. CASE t.abort = "none"
    <2>1. drive' = t /\ live' = after /\ lost' = lost
      BY <1>1, Zenon DEF Bast!Serve
    <2>2. BastKept(t, after)
      BY <1>1 DEF BastServed, BastOk, BastKept
    <2> QED BY <2>1, <2>2
  <1>2. CASE t.abort # "none"
    <2>1. drive' = [drive EXCEPT !.abort = t.abort] /\ live' = live /\ lost' = lost /\ drive.abort = "none"
      BY <1>2, Zenon DEF Bast!Serve
    <2>2. PICK c \in Harmless : c = t.abort
      BY DEF BastServed, BastOk
    <2>3. PICK d : d = [drive EXCEPT !.abort = c]
      OBVIOUS
    <2>4. BastKept(d, live)
      BY <2>3, BastEnds
    <2> QED BY <2>1, <2>2, <2>3, <2>4
  <1> QED BY <1>1, <1>2

LEMMA BastNextInv ==
    ASSUME BastInv, [Next]_vars
    PROVE  BastInv'
  <1> SUFFICES ASSUME ftl' = "BAST"
      PROVE  BastKept(drive', live') /\ live' \subseteq LogicalPages /\ lost' = {}
    BY DEF BastInv
  <1>1. CASE UNCHANGED vars
    BY <1>1 DEF vars, BastInv
  <1>2. CASE Next
    <2>1. BastStep
      BY <1>2 DEF Next, FastStep, DftlStep, BdftlStep, PageStep
    <2>2. BastKept(drive, live) /\ live \subseteq LogicalPages /\ lost = {} /\ Bast!Next
      BY <2>1 DEF BastStep, BastInv
    <2>3. PICK v \in BastPages : Bast!Write(v) \/ Bast!Trim(v)
      BY <2>2, Zenon DEF Bast!Next
    <2>4. v \in LogicalPages
      BY FtlsAssumption DEF LogicalPages
    <2>5. drive.abort = "none"
      BY <2>3, Zenon DEF Bast!Write, Bast!Trim, Bast!Serve
    <2>6. BastOk(drive, live, live)
      <3>1. drive \in BastDrives /\ drive.invalid_list = << >>
        BY <2>2 DEF BastKept, BastWhole, BastFlash, Stock
      <3> QED BY <2>2, <3>1 DEF BastKept, BastOk
    <2>7. CASE Bast!Write(v)
      <3>1. PICK alive : alive = live \cup {v}
        OBVIOUS
      <3>2. PICK victim \in Bast!Victims(drive, BlockOf(v)) : Bast!Serve(Bast!WriteResult(drive, v, victim), alive, lost)
        BY <2>7, <3>1, BastNames, Zenon DEF Bast!Write
      <3>3. PICK t : t = Bast!WriteResult(drive, v, victim)
        OBVIOUS
      <3>4. BastOk(t, live \cup {v}, live \cup {v}) /\ Sticky(drive, t)
        BY <2>4, <2>6, <3>3, BastWritten
      <3>5. BastServed(drive, t, alive)
        BY <3>1, <3>4, Zenon DEF BastServed
      <3> QED BY <2>2, <2>4, <3>1, <3>2, <3>3, <3>5, BastServeInv
    <2>8. CASE Bast!Trim(v)
      <3>1. PICK alive : alive = live \ {v}
        OBVIOUS
      <3>2. PICK t : t = Bast!TrimResult(drive, v)
        OBVIOUS
      <3>3. Bast!Serve(t, alive, lost)
        BY <2>8, <3>1, <3>2, Zenon DEF Bast!Trim
      <3>4. BastOk(t, live \ {v}, live \ {v}) /\ Sticky(drive, t)
        BY <2>4, <2>5, <2>6, <3>2, BastTrimmed
      <3>5. BastServed(drive, t, alive)
        BY <3>1, <3>4, Zenon DEF BastServed
      <3> QED BY <2>2, <3>1, <3>3, <3>5, BastServeInv
    <2> QED BY <2>3, <2>7, <2>8
  <1> QED BY <1>1, <1>2

\* What the invariant says of the tables, to the host.
LEMMA BastMeans ==
    ASSUME BastKept(drive, live), live \subseteq LogicalPages, lost = {}
    PROVE  /\ Bast!TypeOK /\ Bast!ReadsLastWrite /\ Bast!TrimmedStaysGone /\ Bast!PageAssertHolds
           /\ Bast!BlocksPartitioned /\ Bast!CountersMatchTables /\ Bast!BlockStateMatchesPages
  <1>1. PICK n \in Nat \ {0} : n = BastPlanes
    BY BastSizes
  <1>2. PICK M : M = BastMaps(n)
    OBVIOUS
  <1>3. BastWhole(drive, live, live) /\ BastFlash(drive) /\ drive.abort \in Harmless
    BY DEF BastKept, BastWhole
  <1>4. drive \in BastDrives /\ drive \in Drives(n, M) /\ Fits(n, drive) /\ Stock(n, drive)
    BY <1>1, <1>2, <1>3 DEF BastFlash, BastDrives
  <1>5. PICK i, k : i = "BAST" /\ k = BastLogBlocks
    OBVIOUS
  <1>6. /\ Bast!Blocks = BlocksOf(n) /\ Bast!NumBlocks = PlaneSize * n /\ Bast!None = None
        /\ Bast!LBAs = LBAs /\ Bast!Pages = Pages /\ Bast!LogicalPages = LogicalPages
    BY <1>1, BastNames, Zenon DEF Bast!Blocks, Bast!NumBlocks, BlocksOf
  <1>7. PICK f, d : f = LogTable(drive) /\ d = drive.map.data_list
    OBVIOUS
  <1>8. PICK F, D : F = Held(f) /\ D = Held(d)
    OBVIOUS
  <1>9. /\ \A l \in LBAs : /\ f[l] = drive.map.log_map[l].block /\ f[l] \in BlockSlots(n)
                           /\ d[l] = drive.map.data_list[l] /\ d[l] \in BlockSlots(n)
        /\ F = {l \in LBAs : f[l] # None} /\ D = {l \in LBAs : d[l] # None}
    <2>1. F = {l \in LBAs : f[l] # None} /\ D = {l \in LBAs : d[l] # None}
      BY <1>8, Zenon DEF Held
    <2>2. ASSUME NEW l \in LBAs
          PROVE  /\ f[l] = drive.map.log_map[l].block /\ f[l] \in BlockSlots(n)
                 /\ d[l] = drive.map.data_list[l] /\ d[l] \in BlockSlots(n)
      BY <1>1, <1>4, <1>7, BastFields DEF LogOf, DataOf
    <2> QED BY <2>1, <2>2, Zenon
  <1>10. /\ drive.log_active = Cardinality(F) /\ drive.data_active = Cardinality(D)
         /\ \A b \in BlocksOf(n) : Idle(drive, b) \/ \E l \in LBAs : b = f[l] \/ b = d[l]
    <2>1. Owns(n, Idles(n, drive), f, d, drive.log_active, drive.data_active)
      BY <1>1, <1>3, <1>7, Zenon DEF BastWhole
    <2> QED BY <1>8, <2>1 DEF Owns, Idles
  <1>11. Bast!Logged(drive) = F /\ Bast!DataMapped = D
    <2>1. /\ Bast!Logged(drive) = {l \in LBAs : drive.map.log_map[l].block # None}
          /\ Bast!DataMapped = {l \in LBAs : drive.map.data_list[l] # None}
      BY <1>6, Zenon DEF Bast!Logged, Bast!DataMapped
    <2> QED BY <1>9, <2>1
  <1>12. Bast!CountersMatchTables
    BY <1>10, <1>11, BastNames, Zenon DEF Bast!CountersMatchTables
  <1>13. PICK m \in Nat, c \in Nat, x \in Nat, y \in Nat, z \in Nat :
             /\ m = PlaneSize * n /\ c = drive.simpleCurrentFree /\ x = drive.log_active /\ y = drive.data_active
             /\ z = Len(drive.free_list) /\ c <= m /\ c = z + x + y
    <2>1. Cardinality(F) \in Nat /\ Cardinality(D) \in Nat
      BY <1>9, LBAsFinite
    <2>2. PlaneSize * n \in Nat /\ drive.simpleCurrentFree \in Nat /\ drive.free_list \in Seq(BlocksOf(n))
      BY <1>4, Geometry DEF Drives
    <2> QED BY <1>4, <1>10, <2>1, <2>2 DEF Stock
  <1>14. Bast!TypeOK
    <2>1. Bounded(n, drive)
      <3>1. \A a \in AddressesOf(n) : drive.data[a] \in LogicalPages \cup {None}
        BY <1>1, <1>3 DEF BastFlash
      <3>2. c <= m /\ x <= m /\ y <= m
        <4>1. c <= m /\ c = z + x + y
          BY <1>13, Zenon
        <4> QED BY <4>1
      <3> QED BY <1>13, <3>1, <3>2, Zenon DEF Bounded
    <2>2. Chip(n, i, k)!FlashTypeOK /\ Chip(n, i, k)!ActiveWithinDrive
      BY <1>4, <2>1, Typed
    <2>3. Bast!FlashTypeOK /\ Bast!ActiveWithinDrive
      BY <1>1, <1>5, <2>2, Zenon
        DEF Bast!FlashTypeOK, Bast!ActiveWithinDrive, Chip!FlashTypeOK, Chip!ActiveWithinDrive,
            Bast!Blocks, Chip!Blocks, Bast!BlockType, Chip!BlockType,
            Bast!Planes, Chip!Planes, Bast!PlaneType, Chip!PlaneType, Bast!Addresses, Chip!Addresses,
            Bast!LogicalPages, Chip!LogicalPages, Bast!None, Chip!None, Bast!Aborts, Chip!Aborts,
            Bast!NumBlocks, Chip!NumBlocks, Bast!Pages, Chip!Pages, Bast!PageStates, Chip!PageStates,
            Bast!BlockStates, Chip!BlockStates
    <2>4. drive.map.log_map \in [LBAs -> BastLog(n)] /\ drive.map.data_list \in [LBAs -> BlockSlots(n)]
      BY <1>1, <1>4, BastFields
    <2> QED BY <1>6, <2>3, <2>4, Zenon DEF Bast!TypeOK, BastLog, BlockSlots
  <1>15. Bast!BlockStateMatchesPages
    <2>1. Chip(n, i, k)!BlockStateMatchesPages
      BY <1>4, Truthful
    <2> QED BY <1>1, <1>5, <2>1, Zenon
        DEF Bast!BlockStateMatchesPages, Chip!BlockStateMatchesPages, Bast!Blocks, Chip!Blocks,
            Bast!NumBlocks, Chip!NumBlocks, Bast!Pages, Chip!Pages, Bast!Cardinality, Chip!Cardinality
  <1>16. Bast!PageAssertHolds
    <2>1. drive.abort # "page not empty"
      BY <1>3 DEF Harmless
    <2> QED BY <2>1, Zenon DEF Bast!PageAssertHolds
  <1>17. ASSUME NEW v \in LogicalPages, NEW a, a = LookupOf(drive, BlockOf(v), PageOf(v))
         PROVE  /\ v \in live <=> a # None /\ PageAt(drive, a) = "VALID"
                /\ v \in live => drive.data[a] = v
                /\ Bast!Lookup(drive, Bast!BlockOf(v), Bast!PageOf(v)) = a /\ Bast!PageState(drive, a) = PageAt(drive, a)
    <2>1. PICK l \in LBAs, p \in Pages : l = BlockOf(v) /\ p = PageOf(v) /\ v = Linear(l, p)
      BY LogicalGeometry DEF LBAs
    <2>2. BlockKept(drive, live, l) /\ DataKept(drive, live, l)
      BY <1>3 DEF BastWhole
    <2>3. /\ p \in CopiedOf(drive, l) <=> Linear(l, p) \in live
          /\ p \in CopiedOf(drive, l) => CopyOf(drive, l)[p] = Linear(l, p)
      BY <1>4, <2>2, CopiesAlive
    <2>4. a = LookupOf(drive, l, p)
      BY <1>17, <2>1, Zenon
    <2>5. p \in CopiedOf(drive, l) <=> a # None /\ PageAt(drive, a) = "VALID"
      BY <2>4 DEF CopiedOf
    <2>6. p \in CopiedOf(drive, l) => CopyOf(drive, l)[p] = drive.data[a]
      BY <2>4 DEF CopyOf
    <2>7. Bast!Lookup(drive, l, p) = a
      BY <2>4, LookupTable
    <2>8. Bast!Lookup(drive, Bast!BlockOf(v), Bast!PageOf(v)) = a
      BY <2>1, <2>7, BastNames, Zenon
    <2>9. Bast!PageState(drive, a) = PageAt(drive, a)
      BY BastNames, Zenon
    <2> QED BY <2>1, <2>3, <2>5, <2>6, <2>8, <2>9
  <1>18. Bast!ReadsLastWrite
    <2>1. ASSUME NEW v \in live PROVE Bast!Holds(Bast!ReadAddress(drive, v), v)
      <3>1. PICK a : a = LookupOf(drive, BlockOf(v), PageOf(v))
        OBVIOUS
      <3>2. /\ a # None /\ PageAt(drive, a) = "VALID" /\ drive.data[a] = v
            /\ Bast!Lookup(drive, Bast!BlockOf(v), Bast!PageOf(v)) = a /\ Bast!PageState(drive, a) = PageAt(drive, a)
        BY <1>17, <2>1, <3>1
      <3>3. Bast!PageState(drive, a) # "INVALID"
        BY <3>2
      <3>4. Bast!ReadAddress(drive, v) = a
        BY <1>6, <3>2, <3>3, Zenon DEF Bast!ReadAddress
      <3> QED BY <1>6, <3>2, <3>4, Zenon DEF Bast!Holds
    <2> QED BY <2>1, Zenon DEF Bast!ReadsLastWrite
  <1>19. Bast!TrimmedStaysGone
    <2>1. ASSUME NEW v \in LogicalPages \ live, NEW a, a = Bast!Lookup(drive, Bast!BlockOf(v), Bast!PageOf(v))
          PROVE  a = None \/ Bast!PageState(drive, a) # "VALID"
      <3>1. PICK e : e = LookupOf(drive, BlockOf(v), PageOf(v))
        OBVIOUS
      <3>2. /\ ~(e # None /\ PageAt(drive, e) = "VALID")
            /\ Bast!Lookup(drive, Bast!BlockOf(v), Bast!PageOf(v)) = e /\ Bast!PageState(drive, e) = PageAt(drive, e)
        BY <1>17, <2>1, <3>1
      <3>3. a = e
        BY <2>1, <3>2, Zenon
      <3> QED BY <3>2, <3>3
    <2> QED BY <1>6, <2>1, Zenon DEF Bast!TrimmedStaysGone
  <1>20. Bast!BlocksPartitioned
    <2>1. Bast!LogBlocks = {f[l] : l \in F} /\ Bast!DataBlocks = {d[l] : l \in D}
      <3>1. Bast!LogBlocks = {drive.map.log_map[l].block : l \in F} /\ Bast!DataBlocks = {drive.map.data_list[l] : l \in D}
        BY <1>11, Zenon DEF Bast!LogBlocks, Bast!DataBlocks
      <3> QED BY <1>9, <3>1
    <2>2. Bast!FreeBlocks = {drive.free_list[j] : j \in 1 .. Len(drive.free_list)}
                            \cup {b \in BlocksOf(n) : b >= drive.simpleCurrentFree}
      BY <1>6, Zenon DEF Bast!FreeBlocks, Bast!Len, Len
    <2>3. PICK q \in Seq(BlocksOf(n)) : q = drive.free_list
      BY <1>4 DEF Drives
    <2>4. BlocksOf(n) = Bast!FreeBlocks \cup Bast!LogBlocks \cup Bast!DataBlocks
      <3>1. ASSUME NEW b \in BlocksOf(n) PROVE b \in Bast!FreeBlocks \cup Bast!LogBlocks \cup Bast!DataBlocks
        <4>1. CASE Idle(drive, b)
          BY <2>2, <4>1 DEF Idle, Listed
        <4>2. CASE ~Idle(drive, b)
          <5>1. PICK l \in LBAs : b = f[l] \/ b = d[l]
            BY <1>10, <4>2
          <5>2. b # None
            BY Geometry DEF BlocksOf, None
          <5> QED BY <1>9, <2>1, <5>1, <5>2
        <4> QED BY <4>1, <4>2
      <3>2. Bast!LogBlocks \subseteq BlocksOf(n) /\ Bast!DataBlocks \subseteq BlocksOf(n)
        BY <1>9, <2>1 DEF BlockSlots
      <3>3. Bast!FreeBlocks \subseteq BlocksOf(n)
        <4>1. \A j \in 1 .. Len(q) : q[j] \in BlocksOf(n)
          OBVIOUS
        <4> QED BY <2>2, <2>3, <4>1
      <3> QED BY <3>1, <3>2, <3>3
    <2>5. m = z + (m - c) + x + y
      <3>1. c = z + x + y
        BY <1>13, Zenon
      <3> QED BY <3>1
    <2>6. Bast!Cardinality(Bast!Logged(drive)) = x /\ Bast!Cardinality(Bast!DataMapped) = y
      BY <1>10, <1>11, <1>13, BastNames, Zenon
    <2>7. Bast!Len(drive.free_list) = z
      BY <1>13, Zenon DEF Bast!Len, Len
    <2>8. Bast!NumBlocks = Bast!Len(drive.free_list) + (Bast!NumBlocks - drive.simpleCurrentFree)
                           + Bast!Cardinality(Bast!Logged(drive)) + Bast!Cardinality(Bast!DataMapped)
      BY <1>6, <1>13, <2>5, <2>6, <2>7
    <2> QED BY <1>6, <2>4, <2>8, Zenon DEF Bast!BlocksPartitioned
  <1> QED BY <1>12, <1>14, <1>15, <1>16, <1>18, <1>19, <1>20

-----------------------------------------------------------------------------
\* The cached mapping table, for DFTL and for the bimodal layer.
Cmt(NumPlanes, FtlImplementation, MaxRequests, TotalCMTentries) ==
    INSTANCE DftlParent WITH HostPages <- {}, LogBlockLimit <- 1

Slots(n) == AddressesOf(n) \cup {None}
Entry(n) == [ppn : Slots(n), create_ts : Int, modified_ts : Int, last_visited_time : Int,
             cached : BOOLEAN]
Entries(n) == [LogicalPages -> Entry(n)]
DftlMaps(n) == [trans_map : Entries(n), cmt : Int, currentDataPage : Slots(n), requests : Nat,
                gtd : [LogicalPages -> Slots(n)], overlooked : SUBSET LogicalPages]
TrimStates == {"unknown", "yes", "no"}
BPages(n) == [pbn : BlockSlots(n), nextPage : 0 .. BlockSize, optimal : BOOLEAN]
BdftlMaps(n) == [trans_map : Entries(n), cmt : Int, currentDataPage : Slots(n), requests : Nat,
                 gtd : [LogicalPages -> Slots(n)], overlooked : SUBSET LogicalPages,
                 block_map : [0 .. LogicalBlocks - 1 -> BPages(n)],
                 trim_map : [LogicalPages -> TrimStates], inuseBlock : BlockSlots(n),
                 blockQueue : Seq(BlocksOf(n))]

\* The part of the tables that the page map leaves alone.
SameRest(o, m) == /\ o.block_map = m.block_map /\ o.trim_map = m.trim_map
                  /\ o.inuseBlock = m.inuseBlock /\ o.blockQueue = m.blockQueue

TableSet(n, M, m, o, f, c, g, ov) ==
    /\ o \in M /\ o.trans_map = f /\ o.cmt = c /\ o.gtd = g /\ o.overlooked = ov
    /\ o.currentDataPage = m.currentDataPage /\ o.requests = m.requests
    /\ M = BdftlMaps(n) => SameRest(o, m)

LEMMA MapFields ==
    ASSUME NEW n, NEW M, M = DftlMaps(n) \/ M = BdftlMaps(n), NEW m \in M
    PROVE  /\ m.trans_map \in Entries(n) /\ m.gtd \in [LogicalPages -> Slots(n)] /\ m.cmt \in Int
           /\ m.currentDataPage \in Slots(n) /\ m.requests \in Nat /\ m.overlooked \subseteq LogicalPages
  <1>1. CASE M = DftlMaps(n)
    BY <1>1 DEF DftlMaps
  <1>2. CASE M = BdftlMaps(n)
    BY <1>2 DEF BdftlMaps
  <1> QED BY <1>1, <1>2

LEMMA SetTable ==
    ASSUME NEW n, NEW M, M = DftlMaps(n) \/ M = BdftlMaps(n), NEW m \in M, NEW f \in Entries(n),
           NEW c \in Int, NEW g \in [LogicalPages -> Slots(n)], NEW ov \in SUBSET LogicalPages,
           NEW o, o = [m EXCEPT !.gtd = g, !.overlooked = ov, !.cmt = c, !.trans_map = f]
    PROVE  TableSet(n, M, m, o, f, c, g, ov)
  <1> USE DEF TableSet
  <1>1. CASE M # BdftlMaps(n)
    <2>1. m \in DftlMaps(n)
      BY <1>1
    <2> QED BY <1>1, <2>1 DEF DftlMaps
  <1>2. CASE M = BdftlMaps(n)
    BY <1>2 DEF BdftlMaps, SameRest
  <1> QED BY <1>1, <1>2

LEMMA SetTables ==
    ASSUME NEW n, NEW M, M = DftlMaps(n) \/ M = BdftlMaps(n), NEW s \in Drives(n, M),
           NEW f \in Entries(n), NEW c \in Int, NEW g \in [LogicalPages -> Slots(n)],
           NEW ov \in SUBSET LogicalPages,
           NEW o, o = [s.map EXCEPT !.gtd = g, !.overlooked = ov, !.cmt = c, !.trans_map = f]
    PROVE  [s EXCEPT !.map.gtd = g, !.map.overlooked = ov, !.map.cmt = c, !.map.trans_map = f]
             = [s EXCEPT !.map = o]
  <1>0. s.map \in M
    BY DEF Drives
  <1>1. CASE M = DftlMaps(n)
    BY <1>0, <1>1 DEF Drives, DftlMaps
  <1>2. CASE M = BdftlMaps(n)
    BY <1>0, <1>2 DEF Drives, BdftlMaps
  <1> QED BY <1>1, <1>2

\* FtlImpl_DftlParent::MPage::MPage, and what is left of an entry that is evicted.
LEMMA NewEntry ==
    ASSUME NEW n, NEW i, NEW q, NEW k, NEW e, e = Cmt(n, i, q, k)!MPage
    PROVE  /\ e \in Entry(n) /\ ~e.cached /\ e.ppn = None /\ e.create_ts = -1 /\ e.modified_ts = -1
           /\ e.last_visited_time = -1
  BY DEF Cmt!MPage, Cmt!None, Entry, Slots, None

IsEvicted(n, d, x, z) == /\ d \in Entry(n) /\ d.ppn = x /\ d.create_ts = z /\ d.modified_ts = z
                         /\ d.last_visited_time = z /\ ~d.cached

LEMMA EvictedEntry ==
    ASSUME NEW n, NEW e \in Entry(n), ~e.cached, NEW x \in Slots(n), NEW z \in Int,
           NEW d, d = [e EXCEPT !.ppn = x, !.create_ts = z, !.modified_ts = z, !.last_visited_time = z]
    PROVE  IsEvicted(n, d, x, z)
  BY DEF Entry, IsEvicted

IsSaved(n, e, d) == /\ d \in Entry(n) /\ d.ppn = e.ppn /\ d.create_ts = e.modified_ts
                    /\ d.modified_ts = e.modified_ts
                    /\ d.last_visited_time = e.last_visited_time /\ (d.cached <=> e.cached)

LEMMA SavedEntry ==
    ASSUME NEW n, NEW e \in Entry(n), NEW d, d = [e EXCEPT !.create_ts = e.modified_ts]
    PROVE  IsSaved(n, e, d)
  <1>1. PICK c \in Int : c = e.modified_ts
    BY DEF Entry
  <1>2. d = [e EXCEPT !.create_ts = c]
    BY <1>1
  <1> QED BY <1>1, <1>2 DEF Entry, IsSaved

\* The entries in the cache.  An entry that is not, or whose time stamps agree, is
\* on flash as it was last set or has been trimmed, unless it is overlooked.
CachedIn(f) == {v \in LogicalPages : f[v].cached}
Settled(f, v) == v \in CachedIn(f) => f[v].create_ts = f[v].modified_ts
Kept(m) == \A v \in LogicalPages \ m.overlooked :
               Settled(m.trans_map, v) => m.trans_map[v].ppn \in {None, m.gtd[v]}
Marked(m, v) == v \in m.overlooked \/ ~Settled(m.trans_map, v)

\* The time stamps that entries may have; those of a cached one are times of events.
Clock == {-2, -1} \cup StartTimes \cup {now + 1 : now \in StartTimes}
Stamps(e) == /\ e.create_ts \in Clock /\ e.modified_ts \in Clock
             /\ e.last_visited_time \in Clock
             /\ e.cached => e.create_ts >= 0 /\ e.modified_ts >= 0
Stamped(f) == \A v \in LogicalPages : Stamps(f[v])

\* FtlImpl_DftlParent::evict_page_from_cache: what becomes of the entries.
EvictsEntries(f, g, w) ==
    /\ \A v \in LogicalPages : g[v].ppn = f[v].ppn
    /\ CachedIn(g) = CachedIn(f) \ {w}
    /\ \A v \in LogicalPages : v # w => /\ g[v].modified_ts = f[v].modified_ts
                                        /\ g[v].last_visited_time = f[v].last_visited_time
                                        /\ g[v].create_ts \in {f[v].create_ts, f[v].modified_ts}
    /\ g[w].create_ts = -2 /\ g[w].modified_ts = -2 /\ g[w].last_visited_time = -2
SameTables(M, n, m, o) == /\ o.currentDataPage = m.currentDataPage /\ o.requests = m.requests
                          /\ M = BdftlMaps(n) => SameRest(o, m)
Evicts(n, M, s, t, w) ==
    /\ SameFlash(s, t) /\ SameManager(s, t) /\ SameTables(M, n, s.map, t.map)
    /\ t.map.cmt = s.map.cmt - 1
    /\ EvictsEntries(s.map.trans_map, t.map.trans_map, w)
    /\ w \in CachedIn(s.map.trans_map) /\ Kept(s.map) => Kept(t.map)
    /\ s.abort # "none" => t.abort = s.abort
    /\ LET e == s.map.trans_map[w]
       IN e.cached /\ e.create_ts >= 0 /\ e.modified_ts >= 0 => t.abort = s.abort

Checked(n, M, s, t, e) ==
    /\ t \in Drives(n, M) /\ SameFlash(s, t) /\ SameManager(s, t) /\ t.map = s.map
    /\ s.abort # "none" => t.abort = s.abort
    /\ e.cached /\ e.create_ts >= 0 /\ e.modified_ts >= 0 => t.abort = s.abort

LEMMA CheckedVictim ==
    ASSUME NEW n, NEW i, NEW q, NEW k, NEW M, NEW s \in Drives(n, M), NEW e \in Entry(n),
           NEW t, t = Cmt(n, i, q, k)!Assert(s, e.cached /\ e.create_ts >= 0 /\ e.modified_ts >= 0, "no victim")
    PROVE  Checked(n, M, s, t, e)
  <1> USE DEF Checked
  <1>1. CASE t = s
    BY <1>1, Zenon DEF SameFlash, SameManager
  <1>2. CASE t # s
    <2>1. PICK name \in Causes : name = "no victim"
      BY DEF Causes
    <2>2. t = [s EXCEPT !.abort = name] /\ ~(s.abort # "none")
          /\ ~(e.cached /\ e.create_ts >= 0 /\ e.modified_ts >= 0)
      BY <1>2, <2>1, Zenon DEF Cmt!Assert
    <2>3. t \in Drives(n, M) /\ SameFlash(s, t) /\ SameManager(s, t) /\ t.map = s.map
      BY <2>2 DEF Drives, SameFlash, SameManager
    <2> QED BY <2>2, <2>3, Zenon
  <1> QED BY <1>1, <1>2

LEMMA ClockInt ==
    /\ Clock \subseteq Int /\ -2 \in Clock
    /\ \A now \in StartTimes : now \in Nat /\ now \in Clock /\ now + 1 \in Clock
  <1>1. \A now \in StartTimes : now \in Nat
    BY FtlsAssumption
  <1> QED BY <1>1 DEF Clock

LEMMA Evicted ==
    ASSUME NEW n, NEW i, NEW q, NEW k, NEW M, M = DftlMaps(n) \/ M = BdftlMaps(n),
           NEW s \in Drives(n, M), NEW w \in LogicalPages, NEW t, t = Cmt(n, i, q, k)!Evict(s, w)
    PROVE  t \in Drives(n, M) /\ Evicts(n, M, s, t, w)
  <1>1. PICK m \in M : m = s.map
    BY DEF Drives
  <1>2. PICK f \in Entries(n) : f = m.trans_map
    BY MapFields
  <1>3. PICK g \in [LogicalPages -> Slots(n)] : g = m.gtd
    BY MapFields
  <1>4. PICK e \in Entry(n) : e = f[w]
    BY DEF Entries
  <1>5. PICK saved : saved = IF e.create_ts = e.modified_ts THEN {}
             ELSE {v \in CachedIn(f) : v \div AddressPerPage = w \div AddressPerPage}
    OBVIOUS
  <1>6. saved \subseteq CachedIn(f) /\ (e.create_ts # e.modified_ts /\ w \in CachedIn(f) => w \in saved)
    BY <1>5
  <1>7. PICK d : d = [v \in LogicalPages |-> IF v \in saved THEN [f[v] EXCEPT !.create_ts = f[v].modified_ts]
                                             ELSE f[v]]
    OBVIOUS
  <1>8. /\ d \in Entries(n)
        /\ \A v \in LogicalPages : /\ d[v].ppn = f[v].ppn /\ d[v].modified_ts = f[v].modified_ts
                                   /\ d[v].last_visited_time = f[v].last_visited_time
                                   /\ (d[v].cached <=> f[v].cached)
                                   /\ v \in saved => d[v].create_ts = f[v].modified_ts
                                   /\ v \notin saved => d[v].create_ts = f[v].create_ts
    <2>1. ASSUME NEW v \in LogicalPages
          PROVE  /\ d[v] \in Entry(n) /\ d[v].ppn = f[v].ppn /\ d[v].modified_ts = f[v].modified_ts
                 /\ d[v].last_visited_time = f[v].last_visited_time
                 /\ (d[v].cached <=> f[v].cached)
                 /\ v \in saved => d[v].create_ts = f[v].modified_ts
                 /\ v \notin saved => d[v].create_ts = f[v].create_ts
      <3>1. PICK a \in Entry(n) : a = f[v]
        BY DEF Entries
      <3>2. CASE v \in saved
        <4>1. d[v] = [a EXCEPT !.create_ts = a.modified_ts]
          BY <1>7, <3>1, <3>2, Zenon
        <4>2. PICK b : b = [a EXCEPT !.create_ts = a.modified_ts]
          OBVIOUS
        <4>3. /\ b \in Entry(n) /\ b.ppn = a.ppn /\ b.create_ts = a.modified_ts
              /\ b.modified_ts = a.modified_ts
              /\ b.last_visited_time = a.last_visited_time /\ (b.cached <=> a.cached)
          <5>1. IsSaved(n, a, b)
            BY <4>2, SavedEntry, Zenon
          <5> QED BY <5>1, Zenon DEF IsSaved
        <4> QED BY <3>1, <3>2, <4>1, <4>2, <4>3, Zenon
      <3>3. CASE v \notin saved
        <4>1. d[v] = a
          BY <1>7, <3>1, <3>3, Zenon
        <4> QED BY <3>1, <3>3, <4>1, Zenon
      <3> QED BY <3>2, <3>3
    <2>2. d \in Entries(n)
      BY <1>7, <2>1, Zenon DEF Entries
    <2> QED BY <2>1, <2>2, Zenon
  <1>9. PICK gone \in Entry(n) : /\ gone = [Cmt(n, i, q, k)!MPage EXCEPT !.ppn = e.ppn, !.create_ts = -2,
                                               !.modified_ts = -2, !.last_visited_time = -2]
                                 /\ gone.ppn = e.ppn /\ gone.create_ts = -2 /\ gone.modified_ts = -2
                                 /\ gone.last_visited_time = -2 /\ ~gone.cached
    <2>1. PICK mp \in Entry(n) : mp = Cmt(n, i, q, k)!MPage /\ ~mp.cached
      BY NewEntry, Zenon
    <2>2. PICK x \in Slots(n) : x = e.ppn
      BY DEF Entry
    <2>3. PICK z \in Int : z = -2
      OBVIOUS
    <2>4. PICK a : a = [mp EXCEPT !.ppn = x, !.create_ts = z, !.modified_ts = z, !.last_visited_time = z]
      OBVIOUS
    <2>5. /\ a \in Entry(n) /\ a.ppn = x /\ a.create_ts = z /\ a.modified_ts = z
          /\ a.last_visited_time = z /\ ~a.cached
      <3>1. IsEvicted(n, a, x, z)
        BY <2>1, <2>4, EvictedEntry, Zenon
      <3> QED BY <3>1, Zenon DEF IsEvicted
    <2> QED BY <2>1, <2>2, <2>3, <2>4, <2>5, Zenon
  <1>10. PICK h : h = [d EXCEPT ![w] = gone]
    OBVIOUS
  <1>11. h \in Entries(n) /\ h[w] = gone /\ \A v \in LogicalPages : v # w => h[v] = d[v]
    <2>1. d \in [LogicalPages -> Entry(n)]
      BY <1>8 DEF Entries
    <2> QED BY <1>10, <2>1, Update DEF Updated, Entries
  <1>12. PICK gt \in [LogicalPages -> Slots(n)] :
             gt = [v \in LogicalPages |-> IF v \in saved THEN f[v].ppn ELSE g[v]]
    <2>1. \A v \in LogicalPages : f[v].ppn \in Slots(n)
      BY DEF Entries, Entry
    <2> QED BY <2>1
  <1>13. PICK c \in Int : c = m.cmt - 1
    <2>1. m.cmt \in Int
      BY MapFields
    <2> QED BY <2>1
  <1>14. PICK u : u = Cmt(n, i, q, k)!Assert(s, e.cached /\ e.create_ts >= 0 /\ e.modified_ts >= 0, "no victim")
    BY Zenon
  <1>15. /\ u \in Drives(n, M) /\ SameFlash(s, u) /\ SameManager(s, u) /\ u.map = s.map
         /\ s.abort # "none" => u.abort = s.abort
         /\ e.cached /\ e.create_ts >= 0 /\ e.modified_ts >= 0 => u.abort = s.abort
    <2>1. Checked(n, M, s, u, e)
      BY <1>14, CheckedVictim, Zenon
    <2> QED BY <2>1, Zenon DEF Checked
  <1>0. PICK ov \in SUBSET LogicalPages : ov = m.overlooked \ saved
    BY MapFields
  <1>16. PICK o : o = [m EXCEPT !.gtd = gt, !.overlooked = ov, !.cmt = c, !.trans_map = h]
    OBVIOUS
  <1>17. /\ o \in M /\ o.trans_map = h /\ o.cmt = c /\ o.gtd = gt /\ o.overlooked = ov
         /\ o.currentDataPage = m.currentDataPage /\ o.requests = m.requests
         /\ M = BdftlMaps(n) => SameRest(o, m)
    <2>1. TableSet(n, M, m, o, h, c, gt, ov)
      BY <1>11, <1>16, SetTable
    <2> QED BY <2>1 DEF TableSet
  <1>18. t = [u EXCEPT !.map.gtd = gt, !.map.overlooked = ov, !.map.cmt = c, !.map.trans_map = h]
    <2>1. Cmt(n, i, q, k)!Cached(s) = CachedIn(f)
      BY <1>1, <1>2, Zenon DEF Cmt!Cached, Cmt!LogicalPages, CachedIn, LogicalPages
    <2>2. u.map.gtd = g /\ u.map.cmt = m.cmt /\ u.map.overlooked = m.overlooked
      BY <1>1, <1>3, <1>15, Zenon
    <2> QED BY <1>0, <1>1, <1>2, <1>4, <1>5, <1>7, <1>9, <1>10, <1>12, <1>13, <1>14, <2>1, <2>2, Zenon
            DEF Cmt!Evict, Cmt!LogicalPages, LogicalPages
  <1>19. t = [u EXCEPT !.map = o]
    <2>1. o = [u.map EXCEPT !.gtd = gt, !.overlooked = ov, !.cmt = c, !.trans_map = h]
      BY <1>1, <1>15, <1>16, Zenon
    <2>2. u \in Drives(n, M) /\ h \in Entries(n)
      BY <1>11, <1>15
    <2>3. [u EXCEPT !.map.gtd = gt, !.map.overlooked = ov, !.map.cmt = c, !.map.trans_map = h]
            = [u EXCEPT !.map = o]
      BY <2>1, <2>2, SetTables, Zenon
    <2> QED BY <1>18, <2>3, Zenon
  <1>20. t \in Drives(n, M) /\ t.map = o /\ SameFlash(u, t) /\ SameManager(u, t) /\ t.abort = u.abort
    BY <1>15, <1>17, <1>19, SetMap
  <1>21. EvictsEntries(f, h, w)
    <2>1. \A v \in LogicalPages : h[v].ppn = f[v].ppn
      BY <1>4, <1>8, <1>9, <1>11, Zenon
    <2>2. CachedIn(h) = CachedIn(f) \ {w}
      <3>1. \A v \in LogicalPages : h[v].cached <=> f[v].cached /\ v # w
        BY <1>8, <1>9, <1>11, Zenon
      <3> QED BY <3>1, Zenon DEF CachedIn
    <2>3. \A v \in LogicalPages : v # w => /\ h[v].modified_ts = f[v].modified_ts
                                        /\ h[v].last_visited_time = f[v].last_visited_time
                                        /\ h[v].create_ts \in {f[v].create_ts, f[v].modified_ts}
      BY <1>8, <1>11
    <2> QED BY <1>9, <1>11, <2>1, <2>2, <2>3 DEF EvictsEntries
  <1>22. ASSUME w \in CachedIn(f), Kept(m) PROVE Kept(o)
    <2> SUFFICES ASSUME NEW v \in LogicalPages, v \notin ov, Settled(h, v)
                 PROVE  h[v].ppn \in {None, gt[v]}
      BY <1>17 DEF Kept
    <2>1. h[v].ppn = f[v].ppn
      BY <1>21 DEF EvictsEntries
    <2>2. CASE v \in saved
      BY <1>12, <2>1, <2>2
    <2>3. CASE v \notin saved
      <3>1. gt[v] = m.gtd[v]
        BY <1>3, <1>12, <2>3
      <3>2. Settled(f, v)
        <4>1. CASE v = w
          BY <1>4, <1>6, <1>22, <2>3, <4>1 DEF Settled
        <4>2. CASE v # w
          <5>1. v \in CachedIn(f) => v \in CachedIn(h)
            BY <1>21, <4>2 DEF EvictsEntries
          <5>2. h[v].create_ts = f[v].create_ts /\ h[v].modified_ts = f[v].modified_ts
            BY <1>8, <1>11, <2>3, <4>2
          <5> QED BY <5>1, <5>2 DEF Settled
        <4> QED BY <4>1, <4>2
      <3>3. f[v].ppn \in {None, m.gtd[v]}
        BY <1>0, <1>2, <1>22, <2>3, <3>2 DEF Kept
      <3> QED BY <2>1, <3>1, <3>3
    <2> QED BY <2>2, <2>3
  <1>23. SameFlash(s, t) /\ SameManager(s, t)
    BY <1>15, <1>20 DEF SameFlash, SameManager
  <1>24. SameTables(M, n, s.map, t.map) /\ t.map.cmt = s.map.cmt - 1
         /\ EvictsEntries(s.map.trans_map, t.map.trans_map, w)
         /\ (w \in CachedIn(s.map.trans_map) /\ Kept(s.map) => Kept(t.map))
    BY <1>1, <1>2, <1>13, <1>17, <1>20, <1>21, <1>22, Zenon DEF SameTables
  <1>25. /\ s.abort # "none" => t.abort = s.abort
         /\ LET a == s.map.trans_map[w]
            IN a.cached /\ a.create_ts >= 0 /\ a.modified_ts >= 0 => t.abort = s.abort
    BY <1>1, <1>2, <1>4, <1>15, <1>20, Zenon
  <1> QED BY <1>20, <1>23, <1>24, <1>25, Zenon DEF Evicts

\* The tables between two requests.
TableOk(m, total) ==
    /\ Stamped(m.trans_map) /\ Kept(m)
    /\ m.cmt <= total /\ m.cmt <= Cardinality(CachedIn(m.trans_map))

LEMMA CachedFinite ==
    ASSUME NEW f
    PROVE  IsFiniteSet(CachedIn(f)) /\ Cardinality(CachedIn(f)) \in Nat
  <1>1. IsFiniteSet(LogicalPages)
    <2>1. LogicalBlocks * BlockSize - 1 \in Int
      BY Sizes
    <2> QED BY <2>1, FS_Interval DEF LogicalPages
  <1>2. IsFiniteSet(CachedIn(f))
    BY <1>1, FS_Subset DEF CachedIn
  <1> QED BY <1>2, FS_CardinalityType

\* The victim of an eviction is in the cache, if anything is.
LEMMA OldestCached ==
    ASSUME NEW n, NEW i, NEW q, NEW k, NEW M, NEW s \in Drives(n, M), NEW f, f = s.map.trans_map,
           CachedIn(f) # {}, Stamped(f), NEW tied
    PROVE  Cmt(n, i, q, k)!Oldest(s, tied) \in CachedIn(f)
  <1>1. PICK C : C = CachedIn(f)
    OBVIOUS
  <1>2. \A v \in C : f[v].last_visited_time \in Int /\ f[v].last_visited_time + 2 \in Nat
    <2>1. \A x \in Clock : x \in Int /\ x + 2 \in Nat
      BY FtlsAssumption DEF Clock
    <2> QED BY <1>1, <2>1 DEF Stamped, Stamps, CachedIn
  <1>3. PICK S : S = {f[v].last_visited_time + 2 : v \in C}
    OBVIOUS
  <1>4. S \subseteq Nat /\ S # {}
    BY <1>1, <1>2, <1>3
  <1>5. PICK x \in S : \A y \in S : x <= y
    BY <1>4, NatMin
  <1>6. PICK v \in C : x = f[v].last_visited_time + 2
    BY <1>3
  <1>7. \A w \in C : f[v].last_visited_time <= f[w].last_visited_time
    <2> SUFFICES ASSUME NEW w \in C PROVE f[v].last_visited_time <= f[w].last_visited_time
      OBVIOUS
    <2>1. PICK y \in S : y = f[w].last_visited_time + 2
      BY <1>3
    <2>2. x <= y /\ f[v].last_visited_time \in Int /\ f[w].last_visited_time \in Int
      BY <1>2, <1>5
    <2> QED BY <1>6, <2>1, <2>2
  <1>8. Cmt(n, i, q, k)!Cached(s) = C
    BY <1>1, Zenon DEF Cmt!Cached, Cmt!LogicalPages, CachedIn, LogicalPages
  <1>9. PICK O : O = {a \in C : \A w \in C : f[a].last_visited_time <= f[w].last_visited_time}
    OBVIOUS
  <1>10. Cmt(n, i, q, k)!Oldest(s, tied) = IF tied \in O THEN tied ELSE CHOOSE a \in O : TRUE
    <2> DEFINE A == IF Cmt(n, i, q, k)!Cached(s) = {} THEN Cmt(n, i, q, k)!LogicalPages
                    ELSE Cmt(n, i, q, k)!Cached(s)
               B == {a \in A : \A w \in A : s.map.trans_map[a].last_visited_time
                                                <= s.map.trans_map[w].last_visited_time}
    <2>1. Cmt(n, i, q, k)!Oldest(s, tied) = IF tied \in B THEN tied ELSE CHOOSE a \in B : TRUE
      BY Zenon DEF Cmt!Oldest
    <2>2. A = C
      BY <1>1, <1>8
    <2>3. B = O
      <3> HIDE DEF A
      <3> QED BY <1>9, <2>2
    <2> HIDE DEF B
    <2> QED BY <2>1, <2>3, Zenon
  <1>11. v \in O /\ O \subseteq C
    BY <1>7, <1>9
  <1> QED BY <1>1, <1>10, <1>11

\* FtlImpl_DftlParent::evict_page_from_cache: at most one turn of its loop.
LEMMA OneTurn ==
    ASSUME NEW n, NEW i, NEW q, NEW k \in Nat \ {0}, NEW tied, NEW s, s.map.cmt \in Int, s.map.cmt <= k
    PROVE  Cmt(n, i, q, k)!EvictFromCache(s, tied)
             = IF s.map.cmt < k THEN s ELSE Cmt(n, i, q, k)!Evict(s, Cmt(n, i, q, k)!Oldest(s, tied))
  <1>1. PICK turns \in 0 .. 1 : turns = IF s.map.cmt >= k THEN s.map.cmt - k + 1 ELSE 0
    OBVIOUS
  <1>2. turns = IF s.map.cmt < k THEN 0 ELSE 1
    BY <1>1
  <1>3. PICK w : w = Cmt(n, i, q, k)!Evict(s, Cmt(n, i, q, k)!Oldest(s, tied))
    OBVIOUS
  <1> DEFINE F(e) == [j \in 0 .. turns |-> IF j = 0 THEN s
                        ELSE Cmt(n, i, q, k)!Evict(e[j - 1], Cmt(n, i, q, k)!Oldest(e[j - 1], tied))]
             g == [j \in 0 .. turns |-> IF j = 0 THEN s ELSE w]
             ev == CHOOSE e : e = F(e)
  <1>4. g = F(g)
    <2>1. ASSUME NEW j \in 0 .. turns PROVE g[j] = F(g)[j]
      <3>1. CASE j = 0
        BY <3>1
      <3>2. CASE j # 0
        <4>1. j - 1 = 0 /\ 0 \in 0 .. turns
          BY <3>2
        <4>2. g[j] = w /\ g[0] = s
          BY <3>2, <4>1
        <4>3. F(g)[j] = Cmt(n, i, q, k)!Evict(g[0], Cmt(n, i, q, k)!Oldest(g[0], tied))
          BY <3>2, <4>1
        <4> QED BY <1>3, <4>2, <4>3, Zenon
      <3> QED BY <3>1, <3>2
    <2> QED BY <2>1
  <1>5. ev = F(ev)
    <2> HIDE DEF F, g
    <2> QED BY <1>4
  <1>6. ev[turns] = IF turns = 0 THEN s ELSE w
    <2>1. \A e : F(e)[0] = s
      OBVIOUS
    <2>2. ASSUME turns = 1, NEW e, e[0] = s PROVE F(e)[1] = w
      <3>1. F(e)[1] = Cmt(n, i, q, k)!Evict(e[0], Cmt(n, i, q, k)!Oldest(e[0], tied))
        BY <2>2
      <3> QED BY <1>3, <2>2, <3>1, Zenon
    <2> HIDE DEF F, ev
    <2>3. ev[0] = s
      BY <1>5, <2>1
    <2>4. turns = 1 => ev[1] = w
      BY <1>5, <2>2, <2>3
    <2> QED BY <1>2, <2>3, <2>4
  <1>7. Cmt(n, i, q, k)!EvictFromCache(s, tied) = ev[turns]
    BY <1>1, Zenon DEF Cmt!EvictFromCache
  <1> QED BY <1>2, <1>3, <1>6, <1>7

\* FtlImpl_DftlParent::evict_page_from_cache makes room and disturbs nothing else.
Rooms(n, M, s, t, total) ==
    /\ t \in Drives(n, M) /\ SameFlash(s, t) /\ SameManager(s, t) /\ t.abort = s.abort
    /\ SameTables(M, n, s.map, t.map)
    /\ \A v \in LogicalPages : t.map.trans_map[v].ppn = s.map.trans_map[v].ppn
    /\ CachedIn(t.map.trans_map) \subseteq CachedIn(s.map.trans_map)
    /\ Stamped(t.map.trans_map) /\ Kept(t.map)
    /\ t.map.cmt < total /\ t.map.cmt <= Cardinality(CachedIn(t.map.trans_map))

LEMMA MadeRoom ==
    ASSUME NEW n, NEW i, NEW q, NEW total \in Nat \ {0}, NEW M, M = DftlMaps(n) \/ M = BdftlMaps(n),
           NEW s \in Drives(n, M), TableOk(s.map, total), NEW tied,
           NEW t, t = Cmt(n, i, q, total)!EvictFromCache(s, tied)
    PROVE  Rooms(n, M, s, t, total)
  <1>1. PICK m \in M : m = s.map
    BY DEF Drives
  <1>2. PICK f \in Entries(n) : f = m.trans_map
    BY MapFields
  <1>3. m.cmt \in Int /\ m.cmt <= total /\ m.cmt <= Cardinality(CachedIn(f)) /\ Stamped(f) /\ Kept(m)
    BY <1>1, <1>2, MapFields DEF TableOk
  <1>4. \A v \in LogicalPages : Stamps(f[v])
    BY <1>3 DEF Stamped, Stamps
  <1>5. CASE m.cmt < total
    <2>1. t = s
      BY <1>1, <1>3, <1>5, OneTurn
    <2>2. SameTables(M, n, m, m)
      BY DEF SameTables, SameRest
    <2> QED BY <1>1, <1>2, <1>3, <1>5, <2>1, <2>2 DEF Rooms, SameFlash, SameManager
  <1>6. CASE ~(m.cmt < total)
    <2>1. PICK w : w = Cmt(n, i, q, total)!Oldest(s, tied)
      OBVIOUS
    <2>2. t = Cmt(n, i, q, total)!Evict(s, w)
      BY <1>1, <1>3, <1>6, <2>1, OneTurn
    <2>3. CachedIn(f) # {}
      <3>1. CachedIn(f) = {} => Cardinality(CachedIn(f)) = 0
        BY FS_EmptySet
      <3> QED BY <1>3, <1>6, <3>1
    <2>4. w \in CachedIn(f)
      <3>1. f = s.map.trans_map
        BY <1>1, <1>2
      <3>2. Stamped(f)
        BY <1>3
      <3> QED BY <2>1, <2>3, <3>1, <3>2, OldestCached, Zenon
    <2>5. w \in LogicalPages /\ f[w].cached /\ f[w].create_ts >= 0 /\ f[w].modified_ts >= 0
      BY <1>3, <2>4 DEF CachedIn, Stamped, Stamps
    <2>6. t \in Drives(n, M) /\ Evicts(n, M, s, t, w)
      BY <2>2, <2>5, Evicted
    <2>7. PICK h : h = t.map.trans_map
      OBVIOUS
    <2>8. /\ SameFlash(s, t) /\ SameManager(s, t) /\ SameTables(M, n, s.map, t.map)
          /\ t.map.cmt = m.cmt - 1 /\ EvictsEntries(f, h, w) /\ Kept(t.map) /\ t.abort = s.abort
      BY <1>1, <1>2, <1>3, <2>4, <2>5, <2>6, <2>7, Zenon DEF Evicts
    <2>9. Stamped(h)
      <3> SUFFICES ASSUME NEW v \in LogicalPages PROVE Stamps(h[v])
        BY DEF Stamped
      <3>1. h[v].cached <=> f[v].cached /\ v # w
        BY <2>8 DEF EvictsEntries, CachedIn
      <3>2. CASE v = w
        BY <2>8, <3>1, <3>2, ClockInt DEF EvictsEntries, Stamps
      <3>3. CASE v # w
        <4>1. /\ h[v].modified_ts = f[v].modified_ts /\ h[v].last_visited_time = f[v].last_visited_time
              /\ h[v].create_ts \in {f[v].create_ts, f[v].modified_ts}
          BY <2>8, <3>3 DEF EvictsEntries
        <4>2. Stamps(f[v])
          BY <1>4
        <4> QED BY <3>1, <4>1, <4>2 DEF Stamps
      <3> QED BY <3>2, <3>3
    <2>10. PICK C : C = CachedIn(f) /\ IsFiniteSet(C) /\ Cardinality(C) \in Nat
      BY CachedFinite
    <2>11. Cardinality(C \ {w}) = Cardinality(C) - 1
      BY <2>4, <2>10, FS_RemoveElement
    <2>12. CachedIn(h) = C \ {w}
      BY <2>8, <2>10 DEF EvictsEntries
    <2>13. t.map.cmt < total /\ t.map.cmt <= Cardinality(CachedIn(h))
      BY <1>3, <2>8, <2>10, <2>11, <2>12
    <2>14. CachedIn(h) \subseteq CachedIn(f) /\ \A v \in LogicalPages : h[v].ppn = f[v].ppn
      BY <2>8, <2>10, <2>12 DEF EvictsEntries
    <2> QED BY <1>1, <1>2, <2>6, <2>7, <2>8, <2>9, <2>13, <2>14 DEF Rooms
  <1> QED BY <1>5, <1>6

\* A drive with one new entry.
EntrySet(n, M, s, t, v, e, c, ov) ==
    /\ t \in Drives(n, M) /\ SameFlash(s, t) /\ SameManager(s, t) /\ t.abort = s.abort
    /\ SameTables(M, n, s.map, t.map) /\ t.map.gtd = s.map.gtd /\ t.map.cmt = c /\ t.map.overlooked = ov
    /\ Updated(LogicalPages, s.map.trans_map, t.map.trans_map, v, e)

LEMMA SetEntry ==
    ASSUME NEW n, NEW M, M = DftlMaps(n) \/ M = BdftlMaps(n), NEW s \in Drives(n, M),
           NEW v \in LogicalPages, NEW e \in Entry(n), NEW c \in Int, NEW ov \in SUBSET LogicalPages,
           NEW t, t = [s EXCEPT !.map.cmt = c, !.map.trans_map[v] = e, !.map.overlooked = ov]
    PROVE  EntrySet(n, M, s, t, v, e, c, ov)
  <1>1. PICK m \in M : m = s.map
    BY DEF Drives
  <1>2. PICK f \in Entries(n) : f = m.trans_map
    BY MapFields
  <1>3. PICK h : h = [f EXCEPT ![v] = e]
    OBVIOUS
  <1>4. h \in Entries(n) /\ Updated(LogicalPages, f, h, v, e)
    BY <1>3, Update DEF Entries
  <1>5. PICK g \in [LogicalPages -> Slots(n)] : g = m.gtd
    BY MapFields
  <1>6. PICK o : o = [m EXCEPT !.gtd = g, !.overlooked = ov, !.cmt = c, !.trans_map = h]
    OBVIOUS
  <1>7. TableSet(n, M, m, o, h, c, g, ov)
    BY <1>4, <1>6, SetTable
  <1>8. o \in M /\ o.trans_map = h /\ o.cmt = c /\ o.gtd = g /\ o.overlooked = ov /\ SameTables(M, n, m, o)
    BY <1>7, Zenon DEF TableSet, SameTables
  <1>9. t = [s EXCEPT !.map = o]
    <2>1. CASE M = DftlMaps(n)
      BY <1>1, <1>2, <1>3, <1>5, <1>6, <2>1 DEF Drives, DftlMaps, Entries
    <2>2. CASE M = BdftlMaps(n)
      BY <1>1, <1>2, <1>3, <1>5, <1>6, <2>2 DEF Drives, BdftlMaps, Entries
    <2> QED BY <2>1, <2>2
  <1>10. t \in Drives(n, M) /\ t.map = o /\ SameFlash(s, t) /\ SameManager(s, t) /\ t.abort = s.abort
    <2>1. o \in M
      BY <1>8
    <2>2. PICK u : u = [s EXCEPT !.map = o]
      OBVIOUS
    <2>3. u \in Drives(n, M) /\ u.map = o /\ SameFlash(s, u) /\ SameManager(s, u) /\ u.abort = s.abort
      BY <2>1, <2>2 DEF Drives, SameFlash, SameManager
    <2> QED BY <1>9, <2>2, <2>3, Zenon
  <1> QED BY <1>1, <1>2, <1>4, <1>5, <1>8, <1>10, Zenon DEF EntrySet

LEMMA SetSeenEntry ==
    ASSUME NEW n, NEW M, M = DftlMaps(n) \/ M = BdftlMaps(n), NEW s \in Drives(n, M),
           NEW v \in LogicalPages, NEW e \in Entry(n), NEW c \in Int, c = s.map.cmt,
           NEW ov \in SUBSET LogicalPages,
           NEW t, t = [s EXCEPT !.map.trans_map[v] = e, !.map.overlooked = ov]
    PROVE  EntrySet(n, M, s, t, v, e, c, ov)
  <1>1. PICK m \in M : m = s.map
    BY DEF Drives
  <1>2. c = m.cmt
    BY <1>1
  <1>3. t = [s EXCEPT !.map.cmt = c, !.map.trans_map[v] = e, !.map.overlooked = ov]
    <2>1. CASE M = DftlMaps(n)
      BY <1>1, <1>2, <2>1 DEF Drives, DftlMaps
    <2>2. CASE M = BdftlMaps(n)
      BY <1>1, <1>2, <2>2, Zenon DEF Drives, BdftlMaps
    <2> QED BY <2>1, <2>2
  <1> QED BY <1>1, <1>2, <1>3, SetEntry, Zenon

LEMMA SetOneEntry ==
    ASSUME NEW n, NEW M, M = DftlMaps(n) \/ M = BdftlMaps(n), NEW s \in Drives(n, M),
           NEW v \in LogicalPages, NEW e \in Entry(n), NEW c \in Int, c = s.map.cmt,
           NEW t, t = [s EXCEPT !.map.trans_map[v] = e]
    PROVE  EntrySet(n, M, s, t, v, e, c, s.map.overlooked)
  <1>1. PICK m \in M : m = s.map
    BY DEF Drives
  <1>2. PICK ov \in SUBSET LogicalPages : ov = m.overlooked
    BY MapFields
  <1>3. t = [s EXCEPT !.map.trans_map[v] = e, !.map.overlooked = ov]
    <2>1. CASE M = DftlMaps(n)
      BY <1>1, <1>2, <2>1 DEF Drives, DftlMaps
    <2>2. CASE M = BdftlMaps(n)
      BY <1>1, <1>2, <2>2, Zenon DEF Drives, BdftlMaps
    <2> QED BY <2>1, <2>2
  <1>4. EntrySet(n, M, s, t, v, e, c, ov)
    BY <1>3, SetSeenEntry, Zenon
  <1> QED BY <1>1, <1>2, <1>4, Zenon

\* An entry that is visited, and one that is brought in.
IsVisited(n, e, d, x, now) ==
    /\ d \in Entry(n) /\ d.ppn = e.ppn /\ d.create_ts = e.create_ts /\ d.modified_ts = x
    /\ d.last_visited_time = now /\ (d.cached <=> e.cached)

LEMMA VisitedEntry ==
    ASSUME NEW n, NEW e \in Entry(n), NEW x \in Int, NEW now \in Int,
           NEW d, d = [e EXCEPT !.modified_ts = x, !.last_visited_time = now]
    PROVE  IsVisited(n, e, d, x, now)
  BY DEF Entry, IsVisited

IsFetched(n, e, d, x, now) ==
    /\ d \in Entry(n) /\ d.ppn = e.ppn /\ d.create_ts = now /\ d.modified_ts = x
    /\ d.last_visited_time = now /\ d.cached

LEMMA FetchedEntry ==
    ASSUME NEW n, NEW e \in Entry(n), NEW x \in Int, NEW now \in Int, NEW yes \in BOOLEAN, yes,
           NEW d, d = [e EXCEPT !.create_ts = now, !.modified_ts = x, !.last_visited_time = now,
                                !.cached = yes]
    PROVE  IsFetched(n, e, d, x, now)
  BY DEF Entry, IsFetched

\* FtlImpl_DftlParent::resolve_mapping: entry v is in the cache, and marked as
\* changed for a write.
Resolves(n, M, s, t, total, v, isWrite) ==
    /\ t \in Drives(n, M) /\ SameFlash(s, t) /\ SameManager(s, t) /\ t.abort = s.abort
    /\ SameTables(M, n, s.map, t.map)
    /\ \A w \in LogicalPages : t.map.trans_map[w].ppn = s.map.trans_map[w].ppn
    /\ TableOk(t.map, total)
    /\ isWrite => Marked(t.map, v)

LEMMA ResolvedHit ==
    ASSUME NEW n, NEW total \in Nat \ {0}, NEW M, M = DftlMaps(n) \/ M = BdftlMaps(n),
           NEW s \in Drives(n, M), TableOk(s.map, total), NEW now \in StartTimes, NEW isWrite \in BOOLEAN,
           NEW v \in LogicalPages, NEW f, f = s.map.trans_map, f[v].cached, NEW x \in Int,
           isWrite => x = now, ~isWrite => x = f[v].modified_ts,
           NEW ov, \A w \in LogicalPages : w # v => (w \in ov <=> w \in s.map.overlooked),
           isWrite => (v \in ov <=> now = f[v].create_ts), ~isWrite => ov = s.map.overlooked,
           NEW e, IsVisited(n, f[v], e, x, now), NEW t, EntrySet(n, M, s, t, v, e, s.map.cmt, ov)
    PROVE  Resolves(n, M, s, t, total, v, isWrite)
  <1>1. PICK h : h = t.map.trans_map
    OBVIOUS
  <1>2. /\ e.ppn = f[v].ppn /\ e.create_ts = f[v].create_ts /\ e.modified_ts = x
        /\ e.last_visited_time = now /\ e.cached
    BY DEF IsVisited
  <1>3. h[v] = e /\ \A w \in LogicalPages : w # v => h[w] = f[w]
    BY <1>1 DEF EntrySet, Updated
  <1>4. /\ Stamped(f) /\ Kept(s.map) /\ s.map.cmt <= total
        /\ s.map.cmt <= Cardinality(CachedIn(f))
    BY DEF TableOk
  <1>5. CachedIn(h) = CachedIn(f)
    <2>1. \A w \in LogicalPages : h[w].cached <=> f[w].cached
      BY <1>2, <1>3
    <2> QED BY <2>1 DEF CachedIn
  <1>6. Stamps(f[v]) /\ f[v].create_ts >= 0 /\ f[v].modified_ts >= 0
    BY <1>4 DEF Stamped, Stamps
  <1>7. Stamped(h)
    <2> SUFFICES ASSUME NEW w \in LogicalPages PROVE Stamps(h[w])
      BY DEF Stamped
    <2>1. CASE w = v
      <3>1. x \in Clock /\ x >= 0 /\ now \in Clock
        BY <1>6, ClockInt DEF Stamps
      <3> QED BY <1>2, <1>3, <1>6, <2>1, <3>1 DEF Stamps
    <2>2. CASE w # v
      BY <1>3, <1>4, <2>2 DEF Stamped
    <2> QED BY <2>1, <2>2
  <1>8. isWrite => Marked(t.map, v)
    <2>1. t.map.overlooked = ov
      BY DEF EntrySet
    <2> QED BY <1>1, <1>2, <1>3, <2>1 DEF Marked, Settled, CachedIn
  <1>9. Kept(t.map)
    <2> SUFFICES ASSUME NEW w \in LogicalPages, w \notin ov, Settled(h, w)
                 PROVE  h[w].ppn \in {None, t.map.gtd[w]}
      BY <1>1 DEF Kept, EntrySet
    <2>1. Settled(f, w) /\ w \notin s.map.overlooked
      <3>1. CASE w = v
        <4>1. ~isWrite
          BY <1>2, <1>3, <1>5, <3>1 DEF Settled, CachedIn
        <4> QED BY <1>2, <1>3, <1>5, <3>1, <4>1 DEF Settled
      <3>2. CASE w # v
        BY <1>3, <1>5, <3>2 DEF Settled
      <3> QED BY <3>1, <3>2
    <2>2. h[w].ppn = f[w].ppn
      BY <1>2, <1>3
    <2>3. t.map.gtd = s.map.gtd
      BY DEF EntrySet
    <2> QED BY <1>4, <2>1, <2>2, <2>3 DEF Kept
  <1>10. TableOk(t.map, total)
    <2>1. t.map.cmt = s.map.cmt
      BY DEF EntrySet
    <2> QED BY <1>1, <1>4, <1>5, <1>7, <1>9, <2>1 DEF TableOk
  <1>11. \A w \in LogicalPages : h[w].ppn = f[w].ppn
    BY <1>2, <1>3
  <1> QED BY <1>1, <1>8, <1>10, <1>11 DEF Resolves, EntrySet

Fetches(n, M, room, t, v, isWrite, now) ==
    \E x \in Int, e \in Entry(n), k \in Int, ov \in SUBSET LogicalPages :
        /\ isWrite => x = now + 1
        /\ ~isWrite => x = now
        /\ ov = IF isWrite THEN room.map.overlooked \ {v} ELSE room.map.overlooked
        /\ IsFetched(n, room.map.trans_map[v], e, x, now) /\ EntrySet(n, M, room, t, v, e, k, ov)
        /\ room.map.cmt \in Int /\ k = room.map.cmt + 1 /\ v \notin CachedIn(room.map.trans_map)

LEMMA ResolvedMiss ==
    ASSUME NEW n, NEW total \in Nat \ {0}, NEW M, M = DftlMaps(n) \/ M = BdftlMaps(n),
           NEW s \in Drives(n, M), NEW now \in StartTimes,
           NEW room, Rooms(n, M, s, room, total), NEW isWrite \in BOOLEAN,
           NEW v \in LogicalPages, NEW t, Fetches(n, M, room, t, v, isWrite, now)
    PROVE  Resolves(n, M, s, t, total, v, isWrite)
  <1> DEFINE f == room.map.trans_map
  <1>0. PICK x \in Int, e \in Entry(n), k \in Int, ov \in SUBSET LogicalPages :
            /\ isWrite => x = now + 1
            /\ ~isWrite => x = now
            /\ ov = IF isWrite THEN room.map.overlooked \ {v} ELSE room.map.overlooked
            /\ IsFetched(n, f[v], e, x, now) /\ EntrySet(n, M, room, t, v, e, k, ov)
            /\ room.map.cmt \in Int /\ k = room.map.cmt + 1 /\ v \notin CachedIn(f)
    BY DEF Fetches
  <1>1. PICK h : h = t.map.trans_map
    OBVIOUS
  <1>2. /\ e.ppn = f[v].ppn /\ e.create_ts = now /\ e.modified_ts = x
        /\ e.last_visited_time = now /\ e.cached
    BY <1>0 DEF IsFetched
  <1>3. h[v] = e /\ \A w \in LogicalPages : w # v => h[w] = f[w]
    BY <1>0, <1>1 DEF EntrySet, Updated
  <1>4. /\ Stamped(f) /\ Kept(room.map) /\ room.map.cmt < total
        /\ room.map.cmt <= Cardinality(CachedIn(f))
    BY DEF Rooms
  <1>5. \A w \in LogicalPages : w \in CachedIn(h) <=> (w \in CachedIn(f) \/ w = v)
    BY <1>2, <1>3 DEF CachedIn
  <1>6. Cardinality(CachedIn(h)) = Cardinality(CachedIn(f)) + 1
    <2>1. CachedIn(h) = CachedIn(f) \cup {v}
      BY <1>5 DEF CachedIn
    <2>2. PICK C : C = CachedIn(f) /\ IsFiniteSet(C) /\ Cardinality(C) \in Nat
      BY CachedFinite
    <2>3. Cardinality(C \cup {v}) = Cardinality(C) + 1
      BY <1>0, <2>2, FS_AddElement
    <2> QED BY <2>1, <2>2, <2>3, Zenon
  <1>7. Stamped(h)
    <2> SUFFICES ASSUME NEW w \in LogicalPages PROVE Stamps(h[w])
      BY DEF Stamped
    <2>1. CASE w = v
      <3>1. x \in Clock /\ x >= 0 /\ now \in Clock /\ now >= 0
        BY <1>0, ClockInt
      <3> QED BY <1>2, <1>3, <2>1, <3>1 DEF Stamps
    <2>2. CASE w # v
      BY <1>3, <1>4, <2>2 DEF Stamped
    <2> QED BY <2>1, <2>2
  <1>8. isWrite => Marked(t.map, v)
    <2>1. now + 1 # now
      BY ClockInt
    <2> QED BY <1>0, <1>1, <1>2, <1>3, <1>5, <2>1 DEF Marked, Settled
  <1>9. Kept(t.map)
    <2> SUFFICES ASSUME NEW w \in LogicalPages, w \notin ov, Settled(h, w)
                 PROVE  h[w].ppn \in {None, t.map.gtd[w]}
      BY <1>0, <1>1 DEF Kept, EntrySet
    <2>1. Settled(f, w) /\ w \notin room.map.overlooked
      <3>1. CASE w = v
        <4>1. ~isWrite
          <5>1. now + 1 # now
            BY ClockInt
          <5> QED BY <1>0, <1>2, <1>3, <1>5, <3>1, <5>1 DEF Settled
        <4> QED BY <1>0, <3>1, <4>1 DEF Settled
      <3>2. CASE w # v
        BY <1>0, <1>3, <1>5, <3>2 DEF Settled
      <3> QED BY <3>1, <3>2
    <2>2. h[w].ppn = f[w].ppn
      BY <1>2, <1>3
    <2>3. t.map.gtd = room.map.gtd
      BY <1>0 DEF EntrySet
    <2> QED BY <1>4, <2>1, <2>2, <2>3 DEF Kept
  <1>10. TableOk(t.map, total)
    <2>1. Cardinality(CachedIn(f)) \in Nat
      BY CachedFinite
    <2>3. t.map.cmt = k
      BY <1>0 DEF EntrySet
    <2>2. t.map.cmt <= total /\ t.map.cmt <= Cardinality(CachedIn(h))
      BY <1>0, <1>4, <1>6, <2>1, <2>3
    <2> QED BY <1>1, <1>7, <1>9, <2>2 DEF TableOk
  <1>11. \A w \in LogicalPages : h[w].ppn = f[w].ppn
    BY <1>2, <1>3
  <1>12. SameFlash(s, t) /\ SameManager(s, t) /\ t.abort = s.abort /\ t \in Drives(n, M)
    BY <1>0 DEF EntrySet, Rooms, SameFlash, SameManager
  <1>13. SameTables(M, n, s.map, t.map)
    BY <1>0 DEF EntrySet, Rooms, SameTables, SameRest
  <1>14. \A w \in LogicalPages : h[w].ppn = s.map.trans_map[w].ppn
    BY <1>11 DEF Rooms
  <1> QED BY <1>1, <1>8, <1>10, <1>12, <1>13, <1>14 DEF Resolves

LEMMA Resolved ==
    ASSUME NEW n, NEW i, NEW q, NEW total \in Nat \ {0}, NEW M, M = DftlMaps(n) \/ M = BdftlMaps(n),
           NEW s \in Drives(n, M), TableOk(s.map, total), NEW isWrite \in BOOLEAN, NEW v \in LogicalPages,
           NEW now \in StartTimes, NEW tied,
           NEW t, t = Cmt(n, i, q, total)!ResolveMapping(s, v, isWrite, now, tied)
    PROVE  Resolves(n, M, s, t, total, v, isWrite)
  <1>1. PICK m \in M : m = s.map
    BY DEF Drives
  <1>2. PICK f \in Entries(n) : f = m.trans_map
    BY MapFields
  <1>3. now \in Nat /\ now \in Int
    BY ClockInt
  <1>4. PICK a \in Entry(n) : a = f[v]
    BY DEF Entries
  <1>5. CASE f[v].cached
    <2>1. PICK x \in Int : x = IF isWrite THEN now ELSE a.modified_ts
      BY <1>3 DEF Entry
    <2>2. PICK e : e = [a EXCEPT !.modified_ts = x, !.last_visited_time = now]
      OBVIOUS
    <2>3. IsVisited(n, a, e, x, now)
      BY <1>3, <2>2, VisitedEntry
    <2>8. PICK ov \in SUBSET LogicalPages :
              ov = IF ~isWrite THEN m.overlooked
                   ELSE IF now = a.create_ts THEN m.overlooked \cup {v} ELSE m.overlooked \ {v}
      <3>1. m.overlooked \subseteq LogicalPages
        BY MapFields
      <3> QED BY <3>1
    <2>4. t = [s EXCEPT !.map.trans_map[v] = e, !.map.overlooked = ov]
      <3>1. e = [s.map.trans_map[v] EXCEPT
                     !.modified_ts = IF isWrite THEN now ELSE s.map.trans_map[v].modified_ts,
                     !.last_visited_time = now]
        BY <1>1, <1>2, <1>4, <2>1, <2>2, Zenon
      <3>2. s.map.trans_map[v].cached
        BY <1>1, <1>2, <1>5, Zenon
      <3>3. ov = IF ~isWrite THEN s.map.overlooked
                 ELSE IF now = s.map.trans_map[v].create_ts THEN s.map.overlooked \cup {v}
                 ELSE s.map.overlooked \ {v}
        BY <1>1, <1>2, <1>4, <2>8, Zenon
      <3> QED BY <3>1, <3>2, <3>3, Zenon DEF Cmt!ResolveMapping
    <2>5. e \in Entry(n)
      BY <2>3 DEF IsVisited
    <2>6. EntrySet(n, M, s, t, v, e, s.map.cmt, ov)
      <3>1. PICK k \in Int : k = s.map.cmt
        BY <1>1, MapFields
      <3> QED BY <2>4, <2>5, <3>1, SetSeenEntry
    <2>9. /\ \A w \in LogicalPages : w # v => (w \in ov <=> w \in s.map.overlooked)
          /\ isWrite => (v \in ov <=> now = f[v].create_ts)
          /\ ~isWrite => ov = s.map.overlooked
      BY <1>1, <1>4, <2>8
    <2>7. (isWrite => x = now) /\ (~isWrite => x = f[v].modified_ts)
      BY <1>4, <2>1
    <2> QED BY <1>1, <1>2, <1>4, <1>5, <2>3, <2>6, <2>7, <2>9, ResolvedHit, Zenon
  <1>6. CASE ~f[v].cached
    <2>1. PICK room : room = Cmt(n, i, q, total)!EvictFromCache(s, tied)
      OBVIOUS
    <2>2. Rooms(n, M, s, room, total)
      BY <2>1, MadeRoom, Zenon
    <2>3. room \in Drives(n, M)
      BY <2>2 DEF Rooms
    <2>4. PICK o \in M : o = room.map
      BY <2>3 DEF Drives
    <2>5. PICK h \in Entries(n) : h = o.trans_map
      BY MapFields
    <2>6. v \notin CachedIn(f)
      BY <1>6 DEF CachedIn
    <2>7. v \notin CachedIn(h) /\ ~h[v].cached
      <3>1. v \notin CachedIn(h)
        BY <1>1, <1>2, <2>2, <2>4, <2>5, <2>6 DEF Rooms
      <3> QED BY <3>1 DEF CachedIn
    <2>8. PICK b \in Entry(n) : b = h[v]
      BY DEF Entries
    <2>9. PICK x \in Int : x = IF isWrite THEN now + 1 ELSE now
      BY <1>3
    <2>10. PICK yes \in BOOLEAN : yes /\ yes = TRUE
      BY Zenon
    <2>11. PICK e : e = [b EXCEPT !.create_ts = now, !.modified_ts = x, !.last_visited_time = now,
                                  !.cached = yes]
      OBVIOUS
    <2>12. IsFetched(n, b, e, x, now)
      BY <1>3, <2>10, <2>11, FetchedEntry
    <2>13. e \in Entry(n)
      BY <2>12 DEF IsFetched
    <2>14. PICK k \in Int : k = o.cmt + 1 /\ o.cmt \in Int
      <3>1. o.cmt \in Int
        BY MapFields
      <3> QED BY <3>1
    <2>21. PICK ov \in SUBSET LogicalPages : ov = IF isWrite THEN o.overlooked \ {v} ELSE o.overlooked
      <3>1. o.overlooked \subseteq LogicalPages
        BY MapFields
      <3> QED BY <3>1
    <2>15. t = [room EXCEPT !.map.cmt = k, !.map.trans_map[v] = e, !.map.overlooked = ov]
      BY <1>1, <1>2, <1>6, <2>1, <2>4, <2>5, <2>8, <2>9, <2>10, <2>11, <2>14, <2>21, Zenon
         DEF Cmt!ResolveMapping
    <2>16. EntrySet(n, M, room, t, v, e, k, ov)
      BY <2>3, <2>13, <2>15, SetEntry
    <2>17. (isWrite => x = now + 1) /\ (~isWrite => x = now)
      BY <2>9
    <2>18. ov = IF isWrite THEN room.map.overlooked \ {v} ELSE room.map.overlooked
      BY <2>4, <2>21, Zenon
    <2>19. k = room.map.cmt + 1 /\ room.map.cmt \in Int /\ IsFetched(n, room.map.trans_map[v], e, x, now)
           /\ v \notin CachedIn(room.map.trans_map)
      BY <2>4, <2>5, <2>7, <2>8, <2>12, <2>14, Zenon
    <2>20. Fetches(n, M, room, t, v, isWrite, now)
      BY <2>13, <2>16, <2>17, <2>18, <2>19, Zenon DEF Fetches
    <2> QED BY <2>2, <2>20, ResolvedMiss, Zenon
  <1> QED BY <1>5, <1>6

-----------------------------------------------------------------------------
\* The cached mapping table works on a drive like any other.
LEMMA CmtChip ==
    ASSUME NEW n, NEW i, NEW q, NEW k
    PROVE  /\ \A s, a : Cmt(n, i, q, k)!PlaneReplace(s, a) = Chip(n, i, 1)!PlaneReplace(s, a)
           /\ \A s, a, r, v : Cmt(n, i, q, k)!IssueWrite(s, a, r, v) = Chip(n, i, 1)!IssueWrite(s, a, r, v)
           /\ \A s, v : Cmt(n, i, q, k)!Outdate(s, v) = Chip(n, i, 1)!Outdate(s, v)
           /\ \A s : Cmt(n, i, q, k)!InsertEvents(s) = Chip(n, i, 1)!InsertEvents(s)
           /\ \A s, type : Cmt(n, i, q, k)!GetFreeBlock(s, type) = Chip(n, i, 1)!GetFreeBlock(s, type)
  <1>1. ASSUME NEW s, NEW a
        PROVE  Cmt(n, i, q, k)!PlaneReplace(s, a) = Chip(n, i, 1)!PlaneReplace(s, a)
    BY Zenon DEF Cmt!PlaneReplace, Chip!PlaneReplace, Cmt!BlockInvalidate,
        Chip!BlockInvalidate, Cmt!BlockOf, Chip!BlockOf, Cmt!PageOf, Chip!PageOf, Cmt!None,
        Chip!None
  <1>2. ASSUME NEW s, NEW b, NEW ps, NEW d
        PROVE  Cmt(n, i, q, k)!PlaneWrite(s, b, ps, d) = Chip(n, i, 1)!PlaneWrite(s, b, ps, d)
    BY Zenon DEF Cmt!PlaneWrite, Chip!PlaneWrite, Cmt!Assert, Chip!Assert, Cmt!BlockWrite,
        Chip!BlockWrite, Cmt!Cardinality, Chip!Cardinality, Cmt!Pages, Chip!Pages,
        Cmt!Addresses, Chip!Addresses, Cmt!NumBlocks, Chip!NumBlocks, Cmt!BlockOf,
        Chip!BlockOf, Cmt!PageOf, Chip!PageOf, Cmt!PlaneOf, Chip!PlaneOf
  <1>3. ASSUME NEW s, NEW a, NEW r, NEW v
        PROVE  Cmt(n, i, q, k)!IssueWrite(s, a, r, v) = Chip(n, i, 1)!IssueWrite(s, a, r, v)
    BY <1>1, <1>2, Zenon DEF Cmt!IssueWrite, Chip!IssueWrite, Cmt!BlockOf, Chip!BlockOf,
        Cmt!PageOf, Chip!PageOf, Cmt!Pages, Chip!Pages
  <1>4. ASSUME NEW s, NEW v
        PROVE  Cmt(n, i, q, k)!Outdate(s, v) = Chip(n, i, 1)!Outdate(s, v)
    BY Zenon DEF Cmt!Outdate, Chip!Outdate, Cmt!Addresses, Chip!Addresses, Cmt!NumBlocks,
        Chip!NumBlocks, Cmt!None, Chip!None
  <1>5. ASSUME NEW s
        PROVE  Cmt(n, i, q, k)!EraseInvalid(s) = Chip(n, i, 1)!EraseInvalid(s)
    BY Zenon DEF Cmt!EraseInvalid, Chip!EraseInvalid, Cmt!PlaneErase, Chip!PlaneErase,
        Cmt!Assert, Chip!Assert, Cmt!PlaneOf, Chip!PlaneOf, Cmt!BlockErase, Chip!BlockErase,
        Cmt!NewBlock, Chip!NewBlock, Cmt!Pages, Chip!Pages, Cmt!LeastWorn, Chip!LeastWorn,
        Cmt!Addresses, Chip!Addresses, Cmt!NumBlocks, Chip!NumBlocks, Cmt!BlockOf,
        Chip!BlockOf, Cmt!None, Chip!None
  <1>6. ASSUME NEW s
        PROVE  Cmt(n, i, q, k)!InsertEvents(s) = Chip(n, i, 1)!InsertEvents(s)
    <2>1. PICK x : x = Chip(n, i, 1)!EraseInvalid(s)
      OBVIOUS
    <2>2. Cmt(n, i, q, k)!BelowThreshold(s) <=> Chip(n, i, 1)!BelowThreshold(s)
      BY Zenon DEF Cmt!BelowThreshold, Chip!BelowThreshold, Cmt!NumBlocks, Chip!NumBlocks
    <2>3. PICK S : S = {"DFTL", "BIMODAL"}
      OBVIOUS
    <2>4. Cmt(n, i, q, k)!InsertEvents(s) = IF Cmt(n, i, q, k)!BelowThreshold(s) THEN s
              ELSE Cmt(n, i, q, k)!Assert(x, i \notin S, "empty cost index")
      BY <1>5, <2>1, <2>3, Zenon DEF Cmt!InsertEvents, Cmt!ImplDftl, Cmt!ImplBimodal
    <2>5. Chip(n, i, 1)!InsertEvents(s) = IF Chip(n, i, 1)!BelowThreshold(s) THEN s
              ELSE Chip(n, i, 1)!Assert(x, i \notin S, "empty cost index")
      BY <2>1, <2>3, Zenon DEF Chip!InsertEvents, Chip!ImplDftl, Chip!ImplBimodal
    <2>6. Cmt(n, i, q, k)!Assert(x, i \notin S, "empty cost index")
            = Chip(n, i, 1)!Assert(x, i \notin S, "empty cost index")
      BY Zenon DEF Cmt!Assert, Chip!Assert
    <2>7. CASE Chip(n, i, 1)!BelowThreshold(s)
      BY <2>2, <2>4, <2>5, <2>7
    <2>8. CASE ~Chip(n, i, 1)!BelowThreshold(s)
      BY <2>2, <2>4, <2>5, <2>6, <2>8
    <2> QED BY <2>7, <2>8
  <1>7. ASSUME NEW s
        PROVE  Cmt(n, i, q, k)!Replenished(s) = Chip(n, i, 1)!Replenished(s)
    BY <1>6, Zenon DEF Cmt!Replenished, Chip!Replenished, Cmt!NumBlocks, Chip!NumBlocks
  <1>8. ASSUME NEW s
        PROVE  Cmt(n, i, q, k)!NextFree(s) = Chip(n, i, 1)!NextFree(s)
    BY Zenon DEF Cmt!NextFree, Chip!NextFree, Cmt!NumBlocks, Chip!NumBlocks
  <1>9. ASSUME NEW s
        PROVE  Cmt(n, i, q, k)!TakeNextFree(s) = Chip(n, i, 1)!TakeNextFree(s)
    BY Zenon DEF Cmt!TakeNextFree, Chip!TakeNextFree, Cmt!NumBlocks, Chip!NumBlocks,
        Cmt!Assert, Chip!Assert
  <1>10. ASSUME NEW s, NEW type
        PROVE  Cmt(n, i, q, k)!CountBlock(s, type) = Chip(n, i, 1)!CountBlock(s, type)
    BY Zenon DEF Cmt!CountBlock, Chip!CountBlock, Cmt!Assert, Chip!Assert, Cmt!MaxLogBlocks,
        Chip!MaxLogBlocks, Cmt!ImplFast, Chip!ImplFast, Cmt!NumBlocks, Chip!NumBlocks
  <1>11. ASSUME NEW s, NEW type
        PROVE  Cmt(n, i, q, k)!GetFreeBlock(s, type) = Chip(n, i, 1)!GetFreeBlock(s, type)
    BY <1>7, <1>8, <1>9, <1>10, Zenon DEF Cmt!GetFreeBlock, Chip!GetFreeBlock, Cmt!HandOut,
        Chip!HandOut
  <1> QED BY <1>1, <1>3, <1>4, <1>6, <1>11, Zenon

LEMMA DftlCmt ==
    /\ \A s, v, w, now, tied : Dftl!ResolveMapping(s, v, w, now, tied)
           = Cmt(DftlPlanes, "DFTL", DftlRequests, DftlEntries)!ResolveMapping(s, v, w, now, tied)
    /\ \A s : Dftl!GetFreeDataPage(s) = Cmt(DftlPlanes, "DFTL", DftlRequests, DftlEntries)!GetFreeDataPage(s)
    /\ \A s, v, a : Dftl!MapTo(s, v, a) = Cmt(DftlPlanes, "DFTL", DftlRequests, DftlEntries)!MapTo(s, v, a)
    /\ \A s, v : Dftl!Unmap(s, v) = Cmt(DftlPlanes, "DFTL", DftlRequests, DftlEntries)!Unmap(s, v)
  <1>17. ASSUME NEW s, NEW v
         PROVE  Dftl!Evict(s, v) = Cmt(DftlPlanes, "DFTL", DftlRequests, DftlEntries)!Evict(s, v)
    BY Zenon DEF Dftl!Evict, Cmt!Evict, Dftl!Cached, Cmt!Cached, Dftl!LogicalPages, Cmt!LogicalPages,
        Dftl!MPage, Cmt!MPage, Dftl!None, Cmt!None, Dftl!Assert, Cmt!Assert
  <1>18. ASSUME NEW s, NEW tied
         PROVE  Dftl!Oldest(s, tied) = Cmt(DftlPlanes, "DFTL", DftlRequests, DftlEntries)!Oldest(s, tied)
    BY Zenon DEF Dftl!Oldest, Cmt!Oldest, Dftl!Cached, Cmt!Cached, Dftl!LogicalPages, Cmt!LogicalPages
  <1>19. ASSUME NEW s, NEW tied
         PROVE  Dftl!EvictFromCache(s, tied) = Cmt(DftlPlanes, "DFTL", DftlRequests, DftlEntries)!EvictFromCache(s, tied)
    BY <1>17, <1>18, Zenon DEF Dftl!EvictFromCache, Cmt!EvictFromCache
  <1>1. ASSUME NEW s, NEW v, NEW w, NEW now, NEW tied
        PROVE  Dftl!ResolveMapping(s, v, w, now, tied)
                 = Cmt(DftlPlanes, "DFTL", DftlRequests, DftlEntries)!ResolveMapping(s, v, w, now, tied)
    <2>1. PICK room : room = Cmt(DftlPlanes, "DFTL", DftlRequests, DftlEntries)!EvictFromCache(s, tied)
      OBVIOUS
    <2>2. Dftl!EvictFromCache(s, tied) = room
      BY <1>19, <2>1, Zenon
    <2>3. PICK u : u = [room EXCEPT !.map.cmt = @ + 1,
                         !.map.trans_map[v] =
                             [@ EXCEPT !.create_ts = now, !.modified_ts = IF w THEN now + 1 ELSE now,
                                       !.last_visited_time = now, !.cached = TRUE],
                         !.map.overlooked = IF w THEN @ \ {v} ELSE @]
      OBVIOUS
    <2>4. PICK x : x = [s EXCEPT !.map.trans_map[v] =
                          [s.map.trans_map[v] EXCEPT
                               !.modified_ts = IF w THEN now ELSE s.map.trans_map[v].modified_ts,
                               !.last_visited_time = now],
                      !.map.overlooked = IF ~w THEN @
                                         ELSE IF now = s.map.trans_map[v].create_ts THEN @ \cup {v}
                                         ELSE @ \ {v}]
      OBVIOUS
    <2>5. Dftl!ResolveMapping(s, v, w, now, tied) = IF s.map.trans_map[v].cached THEN x ELSE u
      BY <2>2, <2>3, <2>4, Zenon DEF Dftl!ResolveMapping
    <2>6. Cmt(DftlPlanes, "DFTL", DftlRequests, DftlEntries)!ResolveMapping(s, v, w, now, tied)
            = IF s.map.trans_map[v].cached THEN x ELSE u
      BY <2>1, <2>3, <2>4, ZenonT(60) DEF Cmt!ResolveMapping
    <2>7. PICK y : y = IF s.map.trans_map[v].cached THEN x ELSE u
      OBVIOUS
    <2> QED BY <2>5, <2>6, <2>7
  <1>2. ASSUME NEW s
        PROVE  Dftl!EraseInvalid(s) = Cmt(DftlPlanes, "DFTL", DftlRequests, DftlEntries)!EraseInvalid(s)
    BY Zenon DEF Dftl!EraseInvalid, Cmt!EraseInvalid, Dftl!PlaneErase, Cmt!PlaneErase,
        Dftl!Assert, Cmt!Assert, Dftl!PlaneOf, Cmt!PlaneOf, Dftl!BlockErase, Cmt!BlockErase,
        Dftl!NewBlock, Cmt!NewBlock, Dftl!Pages, Cmt!Pages, Dftl!LeastWorn, Cmt!LeastWorn,
        Dftl!Addresses, Cmt!Addresses, Dftl!NumBlocks, Cmt!NumBlocks, Dftl!BlockOf,
        Cmt!BlockOf, Dftl!None, Cmt!None
  <1>3. ASSUME NEW s
        PROVE  Dftl!InsertEvents(s) = Cmt(DftlPlanes, "DFTL", DftlRequests, DftlEntries)!InsertEvents(s)
    BY <1>2, Zenon DEF Dftl!InsertEvents, Cmt!InsertEvents, Dftl!BelowThreshold,
        Cmt!BelowThreshold, Dftl!NumBlocks, Cmt!NumBlocks, Dftl!ImplDftl, Cmt!ImplDftl,
        Dftl!ImplBimodal, Cmt!ImplBimodal, Dftl!Assert, Cmt!Assert
  <1>4. ASSUME NEW s
        PROVE  Dftl!Replenished(s) = Cmt(DftlPlanes, "DFTL", DftlRequests, DftlEntries)!Replenished(s)
    BY <1>3, Zenon DEF Dftl!Replenished, Cmt!Replenished, Dftl!NumBlocks, Cmt!NumBlocks
  <1>5. ASSUME NEW s
        PROVE  Dftl!NextFree(s) = Cmt(DftlPlanes, "DFTL", DftlRequests, DftlEntries)!NextFree(s)
    BY Zenon DEF Dftl!NextFree, Cmt!NextFree, Dftl!NumBlocks, Cmt!NumBlocks
  <1>6. ASSUME NEW s
        PROVE  Dftl!TakeNextFree(s) = Cmt(DftlPlanes, "DFTL", DftlRequests, DftlEntries)!TakeNextFree(s)
    BY Zenon DEF Dftl!TakeNextFree, Cmt!TakeNextFree, Dftl!NumBlocks, Cmt!NumBlocks,
        Dftl!Assert, Cmt!Assert
  <1>7. ASSUME NEW s, NEW type
        PROVE  Dftl!CountBlock(s, type) = Cmt(DftlPlanes, "DFTL", DftlRequests, DftlEntries)!CountBlock(s, type)
    BY Zenon DEF Dftl!CountBlock, Cmt!CountBlock, Dftl!Assert, Cmt!Assert, Dftl!MaxLogBlocks,
        Cmt!MaxLogBlocks, Dftl!ImplFast, Cmt!ImplFast, Dftl!NumBlocks, Cmt!NumBlocks
  <1>8. ASSUME NEW s, NEW type
        PROVE  Dftl!GetFreeBlock(s, type) = Cmt(DftlPlanes, "DFTL", DftlRequests, DftlEntries)!GetFreeBlock(s, type)
    BY <1>4, <1>5, <1>6, <1>7, Zenon DEF Dftl!GetFreeBlock, Cmt!GetFreeBlock, Dftl!HandOut,
        Cmt!HandOut
  <1>9. ASSUME NEW s
        PROVE  Dftl!GetFreeDataPage(s) = Cmt(DftlPlanes, "DFTL", DftlRequests, DftlEntries)!GetFreeDataPage(s)
    BY <1>3, <1>8, Zenon DEF Dftl!GetFreeDataPage, Cmt!GetFreeDataPage, Dftl!PageOf,
        Cmt!PageOf, Dftl!None, Cmt!None, Dftl!Linear, Cmt!Linear
  <1>10. ASSUME NEW s, NEW a
        PROVE  Dftl!PlaneReplace(s, a) = Cmt(DftlPlanes, "DFTL", DftlRequests, DftlEntries)!PlaneReplace(s, a)
    BY Zenon DEF Dftl!PlaneReplace, Cmt!PlaneReplace, Dftl!BlockInvalidate,
        Cmt!BlockInvalidate, Dftl!BlockOf, Cmt!BlockOf, Dftl!PageOf, Cmt!PageOf, Dftl!None,
        Cmt!None
  <1>11. ASSUME NEW s, NEW b, NEW ps, NEW d
        PROVE  Dftl!PlaneWrite(s, b, ps, d) = Cmt(DftlPlanes, "DFTL", DftlRequests, DftlEntries)!PlaneWrite(s, b, ps, d)
    BY Zenon DEF Dftl!PlaneWrite, Cmt!PlaneWrite, Dftl!Assert, Cmt!Assert, Dftl!BlockWrite,
        Cmt!BlockWrite, Dftl!Cardinality, Cmt!Cardinality, Dftl!Pages, Cmt!Pages,
        Dftl!Addresses, Cmt!Addresses, Dftl!NumBlocks, Cmt!NumBlocks, Dftl!BlockOf,
        Cmt!BlockOf, Dftl!PageOf, Cmt!PageOf, Dftl!PlaneOf, Cmt!PlaneOf
  <1>12. ASSUME NEW s, NEW a, NEW r, NEW v
        PROVE  Dftl!IssueWrite(s, a, r, v) = Cmt(DftlPlanes, "DFTL", DftlRequests, DftlEntries)!IssueWrite(s, a, r, v)
    BY <1>10, <1>11, Zenon DEF Dftl!IssueWrite, Cmt!IssueWrite, Dftl!BlockOf, Cmt!BlockOf,
        Dftl!PageOf, Cmt!PageOf, Dftl!Pages, Cmt!Pages
  <1>13. ASSUME NEW s, NEW v
        PROVE  Dftl!Outdate(s, v) = Cmt(DftlPlanes, "DFTL", DftlRequests, DftlEntries)!Outdate(s, v)
    BY Zenon DEF Dftl!Outdate, Cmt!Outdate, Dftl!Addresses, Cmt!Addresses, Dftl!NumBlocks,
        Cmt!NumBlocks, Dftl!None, Cmt!None
  <1>14. ASSUME NEW s, NEW v, NEW a
        PROVE  Dftl!MapTo(s, v, a) = Cmt(DftlPlanes, "DFTL", DftlRequests, DftlEntries)!MapTo(s, v, a)
    BY <1>12, <1>13, Zenon DEF Dftl!MapTo, Cmt!MapTo
  <1>15. ASSUME NEW s, NEW v
        PROVE  Dftl!Evict(s, v) = Cmt(DftlPlanes, "DFTL", DftlRequests, DftlEntries)!Evict(s, v)
    BY Zenon DEF Dftl!Evict, Cmt!Evict, Dftl!Cached, Cmt!Cached, Dftl!LogicalPages,
        Cmt!LogicalPages, Dftl!MPage, Cmt!MPage, Dftl!None, Cmt!None, Dftl!Assert, Cmt!Assert
  <1>16. ASSUME NEW s, NEW v
        PROVE  Dftl!Unmap(s, v) = Cmt(DftlPlanes, "DFTL", DftlRequests, DftlEntries)!Unmap(s, v)
    BY <1>10, <1>15, <1>13, Zenon DEF Dftl!Unmap, Cmt!Unmap, Dftl!None, Cmt!None
  <1> QED BY <1>1, <1>9, <1>14, <1>16, Zenon

LEMMA BdftlCmt ==
    /\ \A s, v, w, now, tied : Bdftl!ResolveMapping(s, v, w, now, tied)
           = Cmt(BdftlPlanes, "BIMODAL", BdftlRequests, BdftlEntries)!ResolveMapping(s, v, w, now, tied)
    /\ \A s : Bdftl!GetFreeDataPage(s) = Cmt(BdftlPlanes, "BIMODAL", BdftlRequests, BdftlEntries)!GetFreeDataPage(s)
    /\ \A s, v, a : Bdftl!MapTo(s, v, a) = Cmt(BdftlPlanes, "BIMODAL", BdftlRequests, BdftlEntries)!MapTo(s, v, a)
    /\ \A s, v : Bdftl!Unmap(s, v) = Cmt(BdftlPlanes, "BIMODAL", BdftlRequests, BdftlEntries)!Unmap(s, v)
  <1>17. ASSUME NEW s, NEW v
         PROVE  Bdftl!Evict(s, v) = Cmt(BdftlPlanes, "BIMODAL", BdftlRequests, BdftlEntries)!Evict(s, v)
    BY Zenon DEF Bdftl!Evict, Cmt!Evict, Bdftl!Cached, Cmt!Cached, Bdftl!LogicalPages, Cmt!LogicalPages,
        Bdftl!MPage, Cmt!MPage, Bdftl!None, Cmt!None, Bdftl!Assert, Cmt!Assert
  <1>18. ASSUME NEW s, NEW tied
         PROVE  Bdftl!Oldest(s, tied) = Cmt(BdftlPlanes, "BIMODAL", BdftlRequests, BdftlEntries)!Oldest(s, tied)
    BY Zenon DEF Bdftl!Oldest, Cmt!Oldest, Bdftl!Cached, Cmt!Cached, Bdftl!LogicalPages, Cmt!LogicalPages
  <1>19. ASSUME NEW s, NEW tied
         PROVE  Bdftl!EvictFromCache(s, tied) = Cmt(BdftlPlanes, "BIMODAL", BdftlRequests, BdftlEntries)!EvictFromCache(s, tied)
    BY <1>17, <1>18, Zenon DEF Bdftl!EvictFromCache, Cmt!EvictFromCache
  <1>1. ASSUME NEW s, NEW v, NEW w, NEW now, NEW tied
        PROVE  Bdftl!ResolveMapping(s, v, w, now, tied)
                 = Cmt(BdftlPlanes, "BIMODAL", BdftlRequests, BdftlEntries)!ResolveMapping(s, v, w, now, tied)
    <2>1. PICK room : room = Cmt(BdftlPlanes, "BIMODAL", BdftlRequests, BdftlEntries)!EvictFromCache(s, tied)
      OBVIOUS
    <2>2. Bdftl!EvictFromCache(s, tied) = room
      BY <1>19, <2>1, Zenon
    <2>3. PICK u : u = [room EXCEPT !.map.cmt = @ + 1,
                         !.map.trans_map[v] =
                             [@ EXCEPT !.create_ts = now, !.modified_ts = IF w THEN now + 1 ELSE now,
                                       !.last_visited_time = now, !.cached = TRUE],
                         !.map.overlooked = IF w THEN @ \ {v} ELSE @]
      OBVIOUS
    <2>4. PICK x : x = [s EXCEPT !.map.trans_map[v] =
                          [s.map.trans_map[v] EXCEPT
                               !.modified_ts = IF w THEN now ELSE s.map.trans_map[v].modified_ts,
                               !.last_visited_time = now],
                      !.map.overlooked = IF ~w THEN @
                                         ELSE IF now = s.map.trans_map[v].create_ts THEN @ \cup {v}
                                         ELSE @ \ {v}]
      OBVIOUS
    <2>5. Bdftl!ResolveMapping(s, v, w, now, tied) = IF s.map.trans_map[v].cached THEN x ELSE u
      BY <2>2, <2>3, <2>4, Zenon DEF Bdftl!ResolveMapping
    <2>6. Cmt(BdftlPlanes, "BIMODAL", BdftlRequests, BdftlEntries)!ResolveMapping(s, v, w, now, tied)
            = IF s.map.trans_map[v].cached THEN x ELSE u
      BY <2>1, <2>3, <2>4, ZenonT(60) DEF Cmt!ResolveMapping
    <2>7. PICK y : y = IF s.map.trans_map[v].cached THEN x ELSE u
      OBVIOUS
    <2> QED BY <2>5, <2>6, <2>7
  <1>2. ASSUME NEW s
        PROVE  Bdftl!EraseInvalid(s) = Cmt(BdftlPlanes, "BIMODAL", BdftlRequests, BdftlEntries)!EraseInvalid(s)
    BY Zenon DEF Bdftl!EraseInvalid, Cmt!EraseInvalid, Bdftl!PlaneErase, Cmt!PlaneErase,
        Bdftl!Assert, Cmt!Assert, Bdftl!PlaneOf, Cmt!PlaneOf, Bdftl!BlockErase, Cmt!BlockErase,
        Bdftl!NewBlock, Cmt!NewBlock, Bdftl!Pages, Cmt!Pages, Bdftl!LeastWorn, Cmt!LeastWorn,
        Bdftl!Addresses, Cmt!Addresses, Bdftl!NumBlocks, Cmt!NumBlocks, Bdftl!BlockOf,
        Cmt!BlockOf, Bdftl!None, Cmt!None
  <1>3. ASSUME NEW s
        PROVE  Bdftl!InsertEvents(s) = Cmt(BdftlPlanes, "BIMODAL", BdftlRequests, BdftlEntries)!InsertEvents(s)
    BY <1>2, Zenon DEF Bdftl!InsertEvents, Cmt!InsertEvents, Bdftl!BelowThreshold,
        Cmt!BelowThreshold, Bdftl!NumBlocks, Cmt!NumBlocks, Bdftl!ImplDftl, Cmt!ImplDftl,
        Bdftl!ImplBimodal, Cmt!ImplBimodal, Bdftl!Assert, Cmt!Assert
  <1>4. ASSUME NEW s
        PROVE  Bdftl!Replenished(s) = Cmt(BdftlPlanes, "BIMODAL", BdftlRequests, BdftlEntries)!Replenished(s)
    BY <1>3, Zenon DEF Bdftl!Replenished, Cmt!Replenished, Bdftl!NumBlocks, Cmt!NumBlocks
  <1>5. ASSUME NEW s
        PROVE  Bdftl!NextFree(s) = Cmt(BdftlPlanes, "BIMODAL", BdftlRequests, BdftlEntries)!NextFree(s)
    BY Zenon DEF Bdftl!NextFree, Cmt!NextFree, Bdftl!NumBlocks, Cmt!NumBlocks
  <1>6. ASSUME NEW s
        PROVE  Bdftl!TakeNextFree(s) = Cmt(BdftlPlanes, "BIMODAL", BdftlRequests, BdftlEntries)!TakeNextFree(s)
    BY Zenon DEF Bdftl!TakeNextFree, Cmt!TakeNextFree, Bdftl!NumBlocks, Cmt!NumBlocks,
        Bdftl!Assert, Cmt!Assert
  <1>7. ASSUME NEW s, NEW type
        PROVE  Bdftl!CountBlock(s, type) = Cmt(BdftlPlanes, "BIMODAL", BdftlRequests, BdftlEntries)!CountBlock(s, type)
    BY Zenon DEF Bdftl!CountBlock, Cmt!CountBlock, Bdftl!Assert, Cmt!Assert,
        Bdftl!MaxLogBlocks, Cmt!MaxLogBlocks, Bdftl!ImplFast, Cmt!ImplFast, Bdftl!NumBlocks,
        Cmt!NumBlocks
  <1>8. ASSUME NEW s, NEW type
        PROVE  Bdftl!GetFreeBlock(s, type) = Cmt(BdftlPlanes, "BIMODAL", BdftlRequests, BdftlEntries)!GetFreeBlock(s, type)
    BY <1>4, <1>5, <1>6, <1>7, Zenon DEF Bdftl!GetFreeBlock, Cmt!GetFreeBlock, Bdftl!HandOut,
        Cmt!HandOut
  <1>9. ASSUME NEW s
        PROVE  Bdftl!GetFreeDataPage(s) = Cmt(BdftlPlanes, "BIMODAL", BdftlRequests, BdftlEntries)!GetFreeDataPage(s)
    BY <1>3, <1>8, Zenon DEF Bdftl!GetFreeDataPage, Cmt!GetFreeDataPage, Bdftl!PageOf,
        Cmt!PageOf, Bdftl!None, Cmt!None, Bdftl!Linear, Cmt!Linear
  <1>10. ASSUME NEW s, NEW a
        PROVE  Bdftl!PlaneReplace(s, a) = Cmt(BdftlPlanes, "BIMODAL", BdftlRequests, BdftlEntries)!PlaneReplace(s, a)
    BY Zenon DEF Bdftl!PlaneReplace, Cmt!PlaneReplace, Bdftl!BlockInvalidate,
        Cmt!BlockInvalidate, Bdftl!BlockOf, Cmt!BlockOf, Bdftl!PageOf, Cmt!PageOf, Bdftl!None,
        Cmt!None
  <1>11. ASSUME NEW s, NEW b, NEW ps, NEW d
        PROVE  Bdftl!PlaneWrite(s, b, ps, d) = Cmt(BdftlPlanes, "BIMODAL", BdftlRequests, BdftlEntries)!PlaneWrite(s, b, ps, d)
    BY Zenon DEF Bdftl!PlaneWrite, Cmt!PlaneWrite, Bdftl!Assert, Cmt!Assert, Bdftl!BlockWrite,
        Cmt!BlockWrite, Bdftl!Cardinality, Cmt!Cardinality, Bdftl!Pages, Cmt!Pages,
        Bdftl!Addresses, Cmt!Addresses, Bdftl!NumBlocks, Cmt!NumBlocks, Bdftl!BlockOf,
        Cmt!BlockOf, Bdftl!PageOf, Cmt!PageOf, Bdftl!PlaneOf, Cmt!PlaneOf
  <1>12. ASSUME NEW s, NEW a, NEW r, NEW v
        PROVE  Bdftl!IssueWrite(s, a, r, v) = Cmt(BdftlPlanes, "BIMODAL", BdftlRequests, BdftlEntries)!IssueWrite(s, a, r, v)
    BY <1>10, <1>11, Zenon DEF Bdftl!IssueWrite, Cmt!IssueWrite, Bdftl!BlockOf, Cmt!BlockOf,
        Bdftl!PageOf, Cmt!PageOf, Bdftl!Pages, Cmt!Pages
  <1>13. ASSUME NEW s, NEW v
        PROVE  Bdftl!Outdate(s, v) = Cmt(BdftlPlanes, "BIMODAL", BdftlRequests, BdftlEntries)!Outdate(s, v)
    BY Zenon DEF Bdftl!Outdate, Cmt!Outdate, Bdftl!Addresses, Cmt!Addresses, Bdftl!NumBlocks,
        Cmt!NumBlocks, Bdftl!None, Cmt!None
  <1>14. ASSUME NEW s, NEW v, NEW a
        PROVE  Bdftl!MapTo(s, v, a) = Cmt(BdftlPlanes, "BIMODAL", BdftlRequests, BdftlEntries)!MapTo(s, v, a)
    BY <1>12, <1>13, Zenon DEF Bdftl!MapTo, Cmt!MapTo
  <1>15. ASSUME NEW s, NEW v
        PROVE  Bdftl!Evict(s, v) = Cmt(BdftlPlanes, "BIMODAL", BdftlRequests, BdftlEntries)!Evict(s, v)
    BY Zenon DEF Bdftl!Evict, Cmt!Evict, Bdftl!Cached, Cmt!Cached, Bdftl!LogicalPages,
        Cmt!LogicalPages, Bdftl!MPage, Cmt!MPage, Bdftl!None, Cmt!None, Bdftl!Assert,
        Cmt!Assert
  <1>16. ASSUME NEW s, NEW v
        PROVE  Bdftl!Unmap(s, v) = Cmt(BdftlPlanes, "BIMODAL", BdftlRequests, BdftlEntries)!Unmap(s, v)
    BY <1>10, <1>15, <1>13, Zenon DEF Bdftl!Unmap, Cmt!Unmap, Bdftl!None, Cmt!None
  <1> QED BY <1>1, <1>9, <1>14, <1>16, Zenon

-----------------------------------------------------------------------------
\* The page after page a of the same block.
LEMMA NextAddress ==
    ASSUME NEW n \in Nat \ {0}, NEW a \in AddressesOf(n), PageOf(a) # BlockSize - 1
    PROVE  a + 1 \in AddressesOf(n) /\ BlockOf(a + 1) = BlockOf(a) /\ PageOf(a + 1) = PageOf(a) + 1
  <1>1. PICK b \in BlocksOf(n) : b = BlockOf(a)
    BY Geometry
  <1>2. PICK p \in Pages : p = PageOf(a)
    BY Geometry
  <1>3. PICK r \in Pages : r = p + 1
    BY <1>2, Sizes DEF Pages
  <1>4. a = Linear(b, p)
    BY <1>1, <1>2, Geometry
  <1>5. a + 1 = Linear(b, r)
    <2>1. b * BlockSize \in Int
      BY Sizes, Times DEF BlocksOf
    <2> QED BY <1>3, <1>4, <2>1 DEF Linear, Pages
  <1>6. Linear(b, r) \in AddressesOf(n) /\ BlockOf(Linear(b, r)) = b /\ PageOf(Linear(b, r)) = r
    BY Geometry
  <1> QED BY <1>1, <1>2, <1>3, <1>5, <1>6

\* A drive with a new current page.
PageSet(n, M, s, t, a) ==
    /\ t \in Drives(n, M) /\ SameFlash(s, t) /\ SameManager(s, t) /\ t.abort = s.abort
    /\ t.map.currentDataPage = a /\ t.map.trans_map = s.map.trans_map /\ t.map.cmt = s.map.cmt
    /\ t.map.gtd = s.map.gtd /\ t.map.overlooked = s.map.overlooked /\ t.map.requests = s.map.requests
    /\ M = BdftlMaps(n) => SameRest(t.map, s.map)

LEMMA SetPage ==
    ASSUME NEW n, NEW M, M = DftlMaps(n) \/ M = BdftlMaps(n), NEW s \in Drives(n, M), NEW a \in Slots(n),
           NEW t, t = [s EXCEPT !.map.currentDataPage = a]
    PROVE  PageSet(n, M, s, t, a)
  <1> USE DEF PageSet
  <1>1. PICK m \in M : m = s.map
    BY DEF Drives
  <1>2. PICK o : o = [m EXCEPT !.currentDataPage = a]
    OBVIOUS
  <1>3. /\ o \in M /\ o.currentDataPage = a /\ o.trans_map = m.trans_map /\ o.cmt = m.cmt
        /\ o.gtd = m.gtd /\ o.overlooked = m.overlooked /\ o.requests = m.requests
        /\ M = BdftlMaps(n) => SameRest(o, m)
    <2>1. CASE M # BdftlMaps(n)
      <3>1. m \in DftlMaps(n)
        BY <2>1
      <3> QED BY <1>2, <2>1, <3>1 DEF DftlMaps
    <2>2. CASE M = BdftlMaps(n)
      BY <1>2, <2>2 DEF BdftlMaps, SameRest
    <2> QED BY <2>1, <2>2
  <1>4. t = [s EXCEPT !.map = o]
    BY <1>1, <1>2, Zenon
  <1>5. t \in Drives(n, M) /\ t.map = o /\ SameFlash(s, t) /\ SameManager(s, t) /\ t.abort = s.abort
    <2>1. o \in M
      BY <1>3
    <2>2. PICK u : u = [s EXCEPT !.map = o]
      OBVIOUS
    <2>3. u \in Drives(n, M) /\ u.map = o /\ SameFlash(s, u) /\ SameManager(s, u) /\ u.abort = s.abort
      BY <2>1, <2>2 DEF Drives, SameFlash, SameManager
    <2> QED BY <1>4, <2>2, <2>3, Zenon
  <1> QED BY <1>1, <1>3, <1>5, Zenon

\* FtlImpl_DftlParent::get_free_data_page
Full(c) == c = None \/ PageOf(c) = BlockSize - 1
NextData(n, M, s, t) ==
    /\ t \in Drives(n, M) /\ SameFlash(s, t) /\ Sticky(s, t) /\ t.invalid_list = s.invalid_list
    /\ t.log_active = s.log_active
    /\ t.map.trans_map = s.map.trans_map /\ t.map.cmt = s.map.cmt
    /\ t.map.gtd = s.map.gtd /\ t.map.overlooked = s.map.overlooked /\ t.map.requests = s.map.requests
    /\ M = BdftlMaps(n) => SameRest(t.map, s.map)
    /\ t.map.currentDataPage \in AddressesOf(n)
    /\ Full(s.map.currentDataPage) =>
          /\ PageOf(t.map.currentDataPage) = 0 /\ t.data_active = s.data_active + 1
          /\ t.abort = "none" => Takes(n, s, t, BlockOf(t.map.currentDataPage))
    /\ ~Full(s.map.currentDataPage) =>
          /\ t.map.currentDataPage = s.map.currentDataPage + 1 /\ t.abort = s.abort
          /\ SameManager(s, t)

LEMMA NextDataPage ==
    ASSUME NEW n \in Nat \ {0}, NEW i, NEW q, NEW k, NEW M, M = DftlMaps(n) \/ M = BdftlMaps(n),
           NEW s \in Drives(n, M), s.invalid_list = << >>,
           NEW t, t = Cmt(n, i, q, k)!GetFreeDataPage(s)
    PROVE  NextData(n, M, s, t)
  <1>1. PICK c \in Slots(n) : c = s.map.currentDataPage
    BY MapFields DEF Drives
  <1>2. CASE Full(c)
    <2>1. PICK w : w = Chip(n, i, 1)!InsertEvents(s)
      OBVIOUS
    <2>2. w \in Drives(n, M) /\ Pauses(s, w)
      BY <2>1, Inserted
    <2>3. SameFlash(s, w) /\ SameManager(s, w) /\ w.map = s.map /\ Sticky(s, w) /\ w.invalid_list = << >>
      BY <2>2 DEF Pauses, SameManager
    <2>4. PICK g : g = Chip(n, i, 1)!GetFreeBlock(w, "DATA")
      OBVIOUS
    <2>5. PICK type : type = "DATA"
      OBVIOUS
    <2>6. g.block \in BlocksOf(n) /\ g.state \in Drives(n, M) /\ Allocates(n, w, g.state, g.block, type)
      BY <2>2, <2>3, <2>4, <2>5, Allocated
    <2>7. PICK b \in BlocksOf(n) : b = g.block
      BY <2>6
    <2>8. PICK u \in Drives(n, M) : u = g.state
      BY <2>6
    <2>9. /\ SameFlash(w, u) /\ u.map = w.map /\ u.invalid_list = w.invalid_list /\ Sticky(w, u)
          /\ u.log_active = w.log_active /\ u.data_active = w.data_active + 1
          /\ u.abort = "none" => Takes(n, w, u, b)
      BY <2>5, <2>6, <2>7, <2>8 DEF Allocates
    <2>10. PICK a \in AddressesOf(n) : a = Linear(b, 0) /\ BlockOf(a) = b /\ PageOf(a) = 0 /\ a \in Slots(n)
      BY Geometry, FirstPage DEF Slots
    <2>11. t = [u EXCEPT !.map.currentDataPage = a]
      <3>1. Cmt(n, i, q, k)!GetFreeBlock(Cmt(n, i, q, k)!InsertEvents(s), "DATA") = g
        <4>1. \A x : Cmt(n, i, q, k)!InsertEvents(x) = Chip(n, i, 1)!InsertEvents(x)
          BY CmtChip, Zenon
        <4>2. \A x, y : Cmt(n, i, q, k)!GetFreeBlock(x, y) = Chip(n, i, 1)!GetFreeBlock(x, y)
          BY CmtChip, Zenon
        <4> QED BY <2>1, <2>4, <4>1, <4>2, Zenon
      <3>2. Cmt(n, i, q, k)!Linear(b, 0) = a
        BY <2>10, Zenon DEF Cmt!Linear, Linear
      <3>3. s.map.currentDataPage = Cmt(n, i, q, k)!None
            \/ Cmt(n, i, q, k)!PageOf(s.map.currentDataPage) = BlockSize - 1
        BY <1>1, <1>2, Zenon DEF Full, Cmt!None, Cmt!PageOf, None, PageOf
      <3> QED BY <2>7, <2>8, <3>1, <3>2, <3>3, Zenon DEF Cmt!GetFreeDataPage
    <2>12. PageSet(n, M, u, t, a)
      BY <2>10, <2>11, SetPage
    <2>13. /\ t \in Drives(n, M) /\ SameFlash(u, t) /\ SameManager(u, t) /\ t.abort = u.abort
           /\ t.map.currentDataPage = a /\ t.map.trans_map = u.map.trans_map /\ t.map.cmt = u.map.cmt
           /\ t.map.gtd = u.map.gtd /\ t.map.overlooked = u.map.overlooked /\ t.map.requests = u.map.requests
           /\ M = BdftlMaps(n) => SameRest(t.map, u.map)
      BY <2>12, Zenon DEF PageSet
    <2>14. SameFlash(s, t) /\ t.invalid_list = s.invalid_list /\ t.log_active = s.log_active
           /\ t.data_active = w.data_active + 1 /\ w.data_active = s.data_active
      BY <2>3, <2>9, <2>13 DEF SameFlash, SameManager
    <2>15. Sticky(s, t)
      <3>1. Sticky(s, u)
        BY <2>3, <2>9, StickyChain
      <3> QED BY <2>13, <3>1, StickyVia
    <2>16. t.abort = "none" => Takes(n, s, t, b)
      BY <2>3, <2>9, <2>13 DEF Takes, SameManager
    <2>17. /\ t.map.trans_map = s.map.trans_map /\ t.map.cmt = s.map.cmt
           /\ t.map.gtd = s.map.gtd /\ t.map.overlooked = s.map.overlooked /\ t.map.requests = s.map.requests
           /\ M = BdftlMaps(n) => SameRest(t.map, s.map)
      BY <2>3, <2>9, <2>13, Zenon
    <2> QED BY <1>1, <1>2, <2>10, <2>13, <2>14, <2>15, <2>16, <2>17, Zenon DEF NextData
  <1>3. CASE ~Full(c)
    <2>1. c \in AddressesOf(n) /\ PageOf(c) # BlockSize - 1
      BY <1>3 DEF Full, Slots
    <2>2. PICK a \in AddressesOf(n) : a = c + 1 /\ a \in Slots(n)
      BY <2>1, NextAddress DEF Slots
    <2>3. t = [s EXCEPT !.map.currentDataPage = a]
      <3>1. ~(s.map.currentDataPage = Cmt(n, i, q, k)!None
             \/ Cmt(n, i, q, k)!PageOf(s.map.currentDataPage) = BlockSize - 1)
        BY <1>1, <1>3, Zenon DEF Full, Cmt!None, Cmt!PageOf, None, PageOf
      <3> QED BY <1>1, <2>2, <3>1, Zenon DEF Cmt!GetFreeDataPage
    <2>4. PageSet(n, M, s, t, a)
      BY <2>2, <2>3, SetPage
    <2>5. Sticky(s, t)
      BY <2>4, StickySame DEF PageSet
    <2> QED BY <1>1, <1>3, <2>2, <2>4, <2>5 DEF PageSet, NextData, SameManager
  <1> QED BY <1>2, <1>3

\* An entry that leads to page a, or to none.
IsMoved(n, e, d, a) ==
    /\ d \in Entry(n) /\ d.ppn = a /\ d.create_ts = e.create_ts /\ d.modified_ts = e.modified_ts
    /\ d.last_visited_time = e.last_visited_time /\ (d.cached <=> e.cached)

LEMMA MovedEntry ==
    ASSUME NEW n, NEW e \in Entry(n), NEW a \in Slots(n), NEW d, d = [e EXCEPT !.ppn = a]
    PROVE  IsMoved(n, e, d, a)
  BY DEF Entry, IsMoved

\* Entry v leads to page a: the tables agree if v is marked as changed or known to
\* be overlooked, or a is no page.
Leads(f, h, v, a) == \A w \in LogicalPages : h[w].ppn = IF w = v THEN a ELSE f[w].ppn

Carries(m, o, v, a) ==
    /\ Leads(m.trans_map, o.trans_map, v, a)
    /\ \A total : TableOk(m, total) /\ (Marked(m, v) \/ a = None) => TableOk(o, total)

LEMMA MovedTable ==
    ASSUME NEW n, NEW M, NEW s, NEW t, NEW v \in LogicalPages, NEW a, NEW e, NEW k,
           EntrySet(n, M, s, t, v, e, k, s.map.overlooked), IsMoved(n, s.map.trans_map[v], e, a),
           k = s.map.cmt
    PROVE  Carries(s.map, t.map, v, a)
  <1>1. PICK f : f = s.map.trans_map
    OBVIOUS
  <1>2. PICK h : h = t.map.trans_map
    OBVIOUS
  <1>3. h[v] = e /\ (\A w \in LogicalPages : w # v => h[w] = f[w]) /\ t.map.gtd = s.map.gtd
        /\ t.map.cmt = s.map.cmt /\ t.map.overlooked = s.map.overlooked
    BY <1>1, <1>2 DEF EntrySet, Updated
  <1>4. /\ e.ppn = a /\ e.create_ts = f[v].create_ts /\ e.modified_ts = f[v].modified_ts
        /\ e.last_visited_time = f[v].last_visited_time /\ (e.cached <=> f[v].cached)
    BY <1>1, Zenon DEF IsMoved
  <1>5. Leads(f, h, v, a)
    BY <1>3, <1>4 DEF Leads
  <1>6. CachedIn(h) = CachedIn(f)
    <2>1. \A w \in LogicalPages : h[w].cached <=> f[w].cached
      BY <1>3, <1>4
    <2> QED BY <2>1 DEF CachedIn
  <1>7. \A w \in LogicalPages : Settled(h, w) <=> Settled(f, w)
    BY <1>3, <1>4, <1>6 DEF Settled
  <1>8. ASSUME NEW total, TableOk(s.map, total), Marked(s.map, v) \/ a = None
        PROVE  TableOk(t.map, total)
    <2>1. /\ Stamped(f) /\ Kept(s.map) /\ s.map.cmt <= total
          /\ s.map.cmt <= Cardinality(CachedIn(f))
      BY <1>1, <1>8 DEF TableOk
    <2>2. Stamped(h)
      <3> SUFFICES ASSUME NEW w \in LogicalPages PROVE Stamps(h[w])
        BY DEF Stamped
      <3>1. Stamps(f[w])
        BY <2>1 DEF Stamped
      <3>2. CASE w = v
        BY <1>3, <1>4, <3>1, <3>2 DEF Stamps
      <3>3. CASE w # v
        BY <1>3, <3>1, <3>3
      <3> QED BY <3>2, <3>3
    <2>3. Kept(t.map)
      <3> SUFFICES ASSUME NEW w \in LogicalPages, w \notin s.map.overlooked, Settled(h, w)
                   PROVE  h[w].ppn \in {None, t.map.gtd[w]}
        BY <1>2, <1>3 DEF Kept
      <3>1. CASE w = v
        BY <1>1, <1>3, <1>4, <1>7, <1>8, <3>1 DEF Marked
      <3>2. CASE w # v
        <4>1. f[w].ppn \in {None, s.map.gtd[w]}
          BY <1>1, <1>7, <2>1 DEF Kept
        <4> QED BY <1>3, <3>2, <4>1
      <3> QED BY <3>1, <3>2
    <2>4. t.map.cmt <= total /\ t.map.cmt <= Cardinality(CachedIn(h))
      BY <1>3, <1>6, <2>1
    <2> QED BY <1>2, <2>2, <2>3, <2>4 DEF TableOk
  <1> QED BY <1>1, <1>2, <1>5, <1>8 DEF Carries

\* The end of a page-mapped write.
Maps(n, M, s, t, v, a) ==
    /\ t \in Drives(n, M) /\ SameManager(s, t) /\ SameTables(M, n, s.map, t.map)
    /\ PageAt(s, a) = "EMPTY" \/ s.abort # "none" => t.abort = s.abort
    /\ PageAt(s, a) # "EMPTY" => t.abort # "none"
    /\ \A x \in AddressesOf(n) : t.data[x] = IF x = a THEN v ELSE IF s.data[x] = v THEN None ELSE s.data[x]
    /\ \A x \in AddressesOf(n) : PageAt(t, x) = IF x = s.map.trans_map[v].ppn THEN "INVALID"
                                                ELSE IF x = a THEN "VALID" ELSE PageAt(s, x)
    /\ Fits(n, s) /\ PageAt(s, a) = "EMPTY" => Fits(n, t)
    /\ Leads(s.map.trans_map, t.map.trans_map, v, a)

LEMMA MappedTo ==
    ASSUME NEW n \in Nat \ {0}, NEW i, NEW q, NEW k, NEW M, M = DftlMaps(n) \/ M = BdftlMaps(n),
           NEW s \in Drives(n, M), NEW v \in LogicalPages, NEW a \in AddressesOf(n),
           NEW t, t = Cmt(n, i, q, k)!MapTo(s, v, a)
    PROVE  /\ Maps(n, M, s, t, v, a)
           /\ \A total : TableOk(s.map, total) /\ Marked(s.map, v) => TableOk(t.map, total)
  <1>1. PICK m \in M : m = s.map
    BY DEF Drives
  <1>2. PICK f \in Entries(n) : f = m.trans_map
    BY MapFields
  <1>3. PICK e \in Entry(n) : e = f[v]
    BY DEF Entries
  <1>4. PICK d : d = [e EXCEPT !.ppn = a]
    OBVIOUS
  <1>5. IsMoved(n, e, d, a) /\ d \in Entry(n)
    BY <1>4, MovedEntry DEF IsMoved, Slots
  <1>6. PICK cmt \in Int : cmt = s.map.cmt
    BY <1>1, MapFields
  <1>7. PICK u : u = [s EXCEPT !.map.trans_map[v] = d]
    OBVIOUS
  <1>8. EntrySet(n, M, s, u, v, d, cmt, s.map.overlooked)
    BY <1>5, <1>6, <1>7, SetOneEntry
  <1>9. u \in Drives(n, M) /\ SameFlash(s, u) /\ SameManager(s, u) /\ u.abort = s.abort
        /\ SameTables(M, n, s.map, u.map)
    BY <1>8 DEF EntrySet
  <1>10. PICK w : w = Chip(n, i, 1)!Outdate(u, v)
    OBVIOUS
  <1>11. v \in Int
    BY DEF LogicalPages
  <1>12. w \in Drives(n, M) /\ Outdates(n, u, w, v)
    BY <1>9, <1>10, <1>11, Outdated
  <1>13. PICK r \in Slots(n) : r = e.ppn /\ (r = None \/ r \in AddressesOf(n)) /\ r = s.map.trans_map[v].ppn
    BY <1>1, <1>2, <1>3 DEF Entry, Slots
  <1>14. t = Chip(n, i, 1)!IssueWrite(w, a, r, v)
    <2>1. \A x, y : Cmt(n, i, q, k)!Outdate(x, y) = Chip(n, i, 1)!Outdate(x, y)
      BY CmtChip, Zenon
    <2>2. Cmt(n, i, q, k)!IssueWrite(w, a, r, v) = Chip(n, i, 1)!IssueWrite(w, a, r, v)
      BY CmtChip
    <2>3. u = [s EXCEPT !.map.trans_map[v].ppn = a]
      BY <1>1, <1>2, <1>3, <1>4, <1>7, Zenon
    <2>4. Cmt(n, i, q, k)!Outdate(u, v) = w
      BY <1>10, <2>1, Zenon
    <2> QED BY <1>13, <2>2, <2>3, <2>4, Zenon DEF Cmt!MapTo
  <1>15. t \in Drives(n, M) /\ Issues(n, w, t, a, r, v)
    BY <1>11, <1>12, <1>13, <1>14, Issued
  <1>16. w.map = u.map /\ SameManager(u, w) /\ w.abort = u.abort /\ SameBlocks(u, w)
         /\ \A x \in AddressesOf(n) : w.data[x] = IF s.data[x] = v THEN None ELSE s.data[x]
    BY <1>9, <1>12 DEF Outdates, SameFlash
  <1>17. SameBlocks(s, w)
    BY <1>9, <1>16 DEF SameBlocks, SameFlash
  <1>18. (Fits(n, s) => Fits(n, w)) /\ \A x : PageAt(w, x) = PageAt(s, x)
    BY <1>17, SameFits
  <1>19. w.abort = s.abort
    BY <1>9, <1>16
  <1>20. t.map = u.map /\ SameManager(s, t)
    BY <1>9, <1>15, <1>16 DEF Issues, SameManager
  <1>21. /\ PageAt(s, a) = "EMPTY" \/ s.abort # "none" => t.abort = s.abort
         /\ PageAt(s, a) # "EMPTY" => t.abort # "none"
         /\ Fits(n, s) /\ PageAt(s, a) = "EMPTY" => Fits(n, t)
    BY <1>15, <1>18, <1>19 DEF Issues
  <1>22. /\ \A x \in AddressesOf(n) : t.data[x] = IF x = a THEN v ELSE IF s.data[x] = v THEN None ELSE s.data[x]
         /\ \A x \in AddressesOf(n) : PageAt(t, x) = IF x = r THEN "INVALID"
                                                ELSE IF x = a THEN "VALID" ELSE PageAt(s, x)
    BY <1>15, <1>16, <1>18 DEF Issues
  <1>23. IsMoved(n, s.map.trans_map[v], d, a)
    BY <1>1, <1>2, <1>3, <1>5, Zenon
  <1>24. /\ Leads(s.map.trans_map, u.map.trans_map, v, a)
         /\ \A total : TableOk(s.map, total) /\ (Marked(s.map, v) \/ a = None)
                           => TableOk(u.map, total)
    <2>1. Carries(s.map, u.map, v, a)
      BY <1>6, <1>8, <1>23, MovedTable, Zenon
    <2> QED BY <2>1, Zenon DEF Carries
  <1>25. Maps(n, M, s, t, v, a)
    BY <1>9, <1>13, <1>15, <1>20, <1>21, <1>22, <1>24, Zenon DEF Maps
  <1> QED BY <1>20, <1>24, <1>25, Zenon

\* A page-mapped trim.
Unmaps(n, M, s, t, v, total) ==
    /\ t \in Drives(n, M) /\ SameManager(s, t) /\ SameTables(M, n, s.map, t.map) /\ t.abort = s.abort
    /\ LET r == s.map.trans_map[v].ppn
       IN /\ \A x \in AddressesOf(n) : t.data[x] \in {s.data[x], None}
                                       /\ (s.data[x] # v => t.data[x] = s.data[x])
          /\ \A x \in AddressesOf(n) : PageAt(t, x) = IF x = r THEN "INVALID" ELSE PageAt(s, x)
    /\ Fits(n, s) => Fits(n, t)
    /\ Leads(s.map.trans_map, t.map.trans_map, v, None)
    /\ TableOk(t.map, total)

\* The copy of an evicted entry that is stored back.
StoresBack(n, m, p, o, v, e) ==
    /\ EvictsEntries(m.trans_map, p.trans_map, v) /\ Kept(p) /\ p.cmt = m.cmt - 1
    /\ o.gtd = p.gtd /\ o.overlooked = p.overlooked /\ o.cmt = p.cmt /\ IsMoved(n, m.trans_map[v], e, None)
    /\ Updated(LogicalPages, p.trans_map, o.trans_map, v, e)

LEMMA StoredBack ==
    ASSUME NEW n, NEW v \in LogicalPages, NEW total \in Nat, NEW m, TableOk(m, total),
           v \in CachedIn(m.trans_map), m.cmt \in Int, NEW p, NEW o, NEW e, StoresBack(n, m, p, o, v, e)
    PROVE  Leads(m.trans_map, o.trans_map, v, None) /\ TableOk(o, total)
  <1> DEFINE f == m.trans_map
             g == p.trans_map
             h == o.trans_map
  <1>1. h[v] = e /\ \A w \in LogicalPages : w # v => h[w] = g[w]
    BY DEF Updated, StoresBack
  <1>2. /\ e.ppn = None /\ e.create_ts = f[v].create_ts /\ e.modified_ts = f[v].modified_ts
        /\ e.last_visited_time = f[v].last_visited_time /\ (e.cached <=> f[v].cached)
    BY Zenon DEF IsMoved, StoresBack
  <1>3. /\ \A w \in LogicalPages : g[w].ppn = f[w].ppn
        /\ \A w \in LogicalPages : w # v => /\ g[w].modified_ts = f[w].modified_ts
                                        /\ g[w].last_visited_time = f[w].last_visited_time
                                        /\ g[w].create_ts \in {f[w].create_ts, f[w].modified_ts}
        /\ CachedIn(g) = CachedIn(f) \ {v}
    BY DEF EvictsEntries, StoresBack
  <1>4. Leads(f, h, v, None)
    BY <1>1, <1>2, <1>3 DEF Leads
  <1>5. \A w \in LogicalPages : w # v => (g[w].cached <=> f[w].cached)
    BY <1>3 DEF CachedIn
  <1>6. CachedIn(h) = CachedIn(f)
    <2>1. \A w \in LogicalPages : h[w].cached <=> f[w].cached
      BY <1>1, <1>2, <1>5
    <2> QED BY <2>1 DEF CachedIn
  <1>7. Stamped(f) /\ m.cmt <= total /\ m.cmt <= Cardinality(CachedIn(f)) /\ Cardinality(CachedIn(f)) \in Nat
    BY CachedFinite DEF TableOk
  <1>8. Stamped(h)
    <2> SUFFICES ASSUME NEW w \in LogicalPages PROVE Stamps(h[w])
      BY DEF Stamped
    <2>1. Stamps(f[w])
      BY <1>7 DEF Stamped
    <2>2. CASE w = v
      BY <1>1, <1>2, <2>1, <2>2 DEF Stamps
    <2>3. CASE w # v
      BY <1>1, <1>3, <1>5, <2>1, <2>3 DEF Stamps
    <2> QED BY <2>2, <2>3
  <1>9. Kept(o)
    <2> SUFFICES ASSUME NEW w \in LogicalPages, w \notin p.overlooked, Settled(h, w)
                 PROVE  h[w].ppn \in {None, o.gtd[w]}
      BY DEF Kept, StoresBack
    <2>1. CASE w = v
      BY <1>1, <1>2, <2>1
    <2>2. CASE w # v
      <3>1. Settled(g, w)
        BY <1>1, <1>3, <1>6, <2>2 DEF Settled
      <3>2. g[w].ppn \in {None, p.gtd[w]}
        BY <3>1 DEF Kept, StoresBack
      <3> QED BY <1>1, <2>2, <3>2 DEF StoresBack
    <2> QED BY <2>1, <2>2
  <1>10. o.cmt <= total /\ o.cmt <= Cardinality(CachedIn(h))
    BY <1>6, <1>7 DEF StoresBack
  <1> QED BY <1>4, <1>8, <1>9, <1>10 DEF TableOk

LEMMA Unmapped ==
    ASSUME NEW n \in Nat \ {0}, NEW i, NEW q, NEW k, NEW M, M = DftlMaps(n) \/ M = BdftlMaps(n),
           NEW s \in Drives(n, M), NEW v \in LogicalPages, NEW total \in Nat,
           TableOk(s.map, total), NEW t, t = Cmt(n, i, q, k)!Unmap(s, v)
    PROVE  Unmaps(n, M, s, t, v, total)
  <1>1. PICK m \in M : m = s.map
    BY DEF Drives
  <1>2. PICK f \in Entries(n) : f = m.trans_map
    BY MapFields
  <1>3. PICK e \in Entry(n) : e = f[v]
    BY DEF Entries
  <1>5. PICK r \in Slots(n) : r = e.ppn
    BY DEF Entry
  <1>6. TableOk(m, total)
    BY <1>1
  <1>7. CASE r = None
    <2>1. t = s
      BY <1>1, <1>2, <1>3, <1>5, <1>7, Zenon DEF Cmt!Unmap, Cmt!None, None
    <2>2. Leads(f, f, v, None)
      BY <1>3, <1>5, <1>7 DEF Leads
    <2>3. SameManager(s, s) /\ SameTables(M, n, m, m)
      BY DEF SameManager, SameTables, SameRest
    <2>4. r \notin AddressesOf(n)
      BY <1>7 DEF AddressesOf, None
    <2>5. \A x \in AddressesOf(n) : PageAt(s, x) = IF x = r THEN "INVALID" ELSE PageAt(s, x)
      BY <2>4
    <2> QED BY <1>1, <1>2, <1>3, <1>5, <1>6, <2>1, <2>2, <2>3, <2>5, Zenon DEF Unmaps
  <1>8. CASE r # None
    <2>1. r \in AddressesOf(n)
      BY <1>8 DEF Slots
    <2>2. PICK u : u = Chip(n, i, 1)!PlaneReplace(s, r)
      OBVIOUS
    <2>3. u \in Drives(n, M) /\ Invalidates(n, s, u, r)
      BY <2>1, <2>2, Invalidated
    <2>4. /\ u.map = s.map /\ SameManager(s, u) /\ u.abort = s.abort /\ u.data = s.data
          /\ \A x \in AddressesOf(n) : PageAt(u, x) = IF x = r THEN "INVALID" ELSE PageAt(s, x)
          /\ Fits(n, s) => Fits(n, u)
      BY <2>3 DEF Invalidates
    <2>5. PICK w : w = IF e.cached THEN Cmt(n, i, q, k)!Evict(u, v) ELSE u
      BY Zenon
    <2>6. /\ w \in Drives(n, M) /\ SameFlash(u, w) /\ SameManager(u, w) /\ SameTables(M, n, m, w.map)
          /\ w.abort = u.abort
          /\ e.cached => EvictsEntries(f, w.map.trans_map, v) /\ Kept(w.map) /\ w.map.cmt = m.cmt - 1
          /\ ~e.cached => w = u
      <3>1. CASE e.cached
        <4>1. w \in Drives(n, M) /\ Evicts(n, M, u, w, v)
          <5>1. w = Cmt(n, i, q, k)!Evict(u, v)
            BY <2>5, <3>1, Zenon
          <5> QED BY <2>3, <5>1, Evicted
        <4>2. v \in CachedIn(f) /\ Kept(m) /\ e.create_ts >= 0 /\ e.modified_ts >= 0
          BY <1>2, <1>3, <1>6, <3>1 DEF CachedIn, TableOk, Stamped, Stamps
        <4>3. u.map.trans_map = f /\ u.map = m /\ u.map.trans_map[v] = e
          BY <1>1, <1>2, <1>3, <2>4, Zenon
        <4> QED BY <3>1, <4>1, <4>2, <4>3, Zenon DEF Evicts
      <3>2. CASE ~e.cached
        <4>1. w = u
          BY <2>5, <3>2, Zenon
        <4>2. SameFlash(u, u) /\ SameManager(u, u) /\ SameTables(M, n, m, m) /\ u.map = m
          BY <1>1, <2>4, Zenon DEF SameFlash, SameManager, SameTables, SameRest
        <4> QED BY <2>3, <3>2, <4>1, <4>2, Zenon
      <3> QED BY <3>1, <3>2
    <2>7. PICK o : o = Chip(n, i, 1)!Outdate(w, v)
      OBVIOUS
    <2>8. v \in Int
      BY DEF LogicalPages
    <2>9. o \in Drives(n, M) /\ Outdates(n, w, o, v)
      BY <2>6, <2>7, <2>8, Outdated
    <2>10. /\ o.map = w.map /\ SameManager(w, o) /\ o.abort = w.abort /\ SameBlocks(w, o)
           /\ \A x \in AddressesOf(n) : o.data[x] = IF w.data[x] = v THEN None ELSE w.data[x]
      BY <2>9 DEF Outdates
    <2>11. PICK d : d = [e EXCEPT !.ppn = None]
      OBVIOUS
    <2>12. IsMoved(n, e, d, None) /\ d \in Entry(n)
      <3>1. None \in Slots(n)
        BY DEF Slots
      <3>2. IsMoved(n, e, d, None)
        BY <2>11, <3>1, MovedEntry
      <3> QED BY <3>2 DEF IsMoved
    <2>13. t = [o EXCEPT !.map.trans_map[v] = d]
      <3>1. \A x, y : Cmt(n, i, q, k)!Outdate(x, y) = Chip(n, i, 1)!Outdate(x, y)
        BY CmtChip, Zenon
      <3>2. \A x, y : Cmt(n, i, q, k)!PlaneReplace(x, y) = Chip(n, i, 1)!PlaneReplace(x, y)
        BY CmtChip, Zenon
      <3>3. s.map.trans_map[v] = e /\ Cmt(n, i, q, k)!None = None
        BY <1>1, <1>2, <1>3, Zenon DEF Cmt!None, None
      <3>4. Cmt(n, i, q, k)!PlaneReplace(s, e.ppn) = u
        BY <1>5, <2>2, <3>2, Zenon
      <3>5. Cmt(n, i, q, k)!Outdate(w, v) = o
        BY <2>7, <3>1, Zenon
      <3> QED BY <1>5, <1>8, <2>5, <2>11, <3>3, <3>4, <3>5, Zenon DEF Cmt!Unmap
    <2>14. PICK y \in Int : y = o.map.cmt
      BY <2>9, MapFields DEF Drives
    <2>15. EntrySet(n, M, o, t, v, d, y, o.map.overlooked)
      BY <2>9, <2>12, <2>13, <2>14, SetOneEntry
    <2>16. /\ t \in Drives(n, M) /\ SameFlash(o, t) /\ SameManager(o, t) /\ t.abort = o.abort
           /\ SameTables(M, n, o.map, t.map) /\ t.map.gtd = o.map.gtd /\ t.map.cmt = y
           /\ t.map.overlooked = o.map.overlooked
           /\ Updated(LogicalPages, o.map.trans_map, t.map.trans_map, v, d)
      BY <2>15 DEF EntrySet
    <2>17. SameManager(s, t) /\ t.abort = s.abort
      BY <2>4, <2>6, <2>10, <2>16 DEF SameManager
    <2>18. SameBlocks(u, t)
      BY <2>6, <2>10, <2>16 DEF SameBlocks, SameFlash
    <2>19. SameTables(M, n, m, t.map)
      BY <2>6, <2>10, <2>16 DEF SameTables, SameRest
    <2>20. /\ \A x \in AddressesOf(n) : t.data[x] \in {s.data[x], None}
                                       /\ (s.data[x] # v => t.data[x] = s.data[x])
      BY <2>4, <2>6, <2>10, <2>16 DEF SameFlash
    <2>21. (Fits(n, s) => Fits(n, t))
           /\ \A x \in AddressesOf(n) : PageAt(t, x) = IF x = r THEN "INVALID" ELSE PageAt(s, x)
      BY <2>4, <2>18, SameFits
    <2>22. Leads(f, t.map.trans_map, v, None) /\ TableOk(t.map, total)
      <3>1. CASE e.cached
        <4>1. StoresBack(n, m, o.map, t.map, v, d)
          BY <1>2, <1>3, <2>6, <2>10, <2>12, <2>14, <2>16, <3>1, Zenon DEF StoresBack
        <4>2. v \in CachedIn(m.trans_map)
          BY <1>2, <1>3, <3>1 DEF CachedIn
        <4>3. m.cmt \in Int
          BY MapFields
        <4>4. Leads(m.trans_map, t.map.trans_map, v, None) /\ TableOk(t.map, total)
          BY <1>6, <4>1, <4>2, <4>3, StoredBack, Zenon
        <4> QED BY <1>2, <4>4, Zenon
      <3>2. CASE ~e.cached
        <4>1. o.map = m
          BY <1>1, <2>4, <2>6, <2>10, <3>2, Zenon
        <4>2. IsMoved(n, o.map.trans_map[v], d, None)
          BY <1>2, <1>3, <2>12, <4>1, Zenon
        <4>3. /\ Leads(o.map.trans_map, t.map.trans_map, v, None)
              /\ \A x : TableOk(o.map, x) /\ (Marked(o.map, v) \/ None = None) => TableOk(t.map, x)
          <5>1. Carries(o.map, t.map, v, None)
            BY <2>14, <2>15, <4>2, MovedTable, Zenon
          <5> QED BY <5>1, Zenon DEF Carries
        <4> QED BY <1>2, <1>6, <4>1, <4>3, Zenon
      <3> QED BY <3>1, <3>2
    <2>23. r = s.map.trans_map[v].ppn /\ f = s.map.trans_map /\ m = s.map
      BY <1>1, <1>2, <1>3, <1>5, Zenon
    <2> QED BY <2>16, <2>17, <2>19, <2>20, <2>21, <2>22, <2>23, Zenon DEF Unmaps
  <1> QED BY <1>7, <1>8

-----------------------------------------------------------------------------
\* DFTL.  Blocks are handed out in order and never come back: a page is empty
\* when it is behind the current page, or in a block not handed out yet.
DftlFlash(s, alive) ==
    LET n == DftlPlanes
        ppn(v) == s.map.trans_map[v].ppn
    IN /\ s \in Drives(n, DftlMaps(n)) /\ Fits(n, s)
       /\ s.free_list = << >> /\ s.invalid_list = << >> /\ s.log_active = 0
       /\ s.data_active = s.simpleCurrentFree /\ s.simpleCurrentFree <= PlaneSize * n
       /\ \A x \in AddressesOf(n) : BlockOf(x) >= s.simpleCurrentFree => PageAt(s, x) = "EMPTY"
       /\ s.map.currentDataPage # None =>
             /\ BlockOf(s.map.currentDataPage) < s.simpleCurrentFree
             /\ \A x \in AddressesOf(n) : BlockOf(x) = BlockOf(s.map.currentDataPage)
                    /\ PageOf(x) > PageOf(s.map.currentDataPage) => PageAt(s, x) = "EMPTY"
       /\ \A v \in LogicalPages : ppn(v) # None => PageAt(s, ppn(v)) = "VALID" /\ s.data[ppn(v)] = v
       /\ alive \subseteq LogicalPages
       /\ \A v \in LogicalPages : v \in alive <=> ppn(v) # None
       /\ \A x \in AddressesOf(n) : s.data[x] \in LogicalPages \cup {None}

LEMMA DftlSizes == DftlPlanes \in Nat \ {0} /\ DftlEntries \in Nat \ {0} /\ DftlRequests \in Nat
  BY FtlsAssumption

LEMMA DftlCarry ==
    ASSUME NEW s, NEW alive, DftlFlash(s, alive), NEW t \in Drives(DftlPlanes, DftlMaps(DftlPlanes)),
           SameFlash(s, t), SameManager(s, t), t.map.currentDataPage = s.map.currentDataPage,
           \A v \in LogicalPages : t.map.trans_map[v].ppn = s.map.trans_map[v].ppn
    PROVE  DftlFlash(t, alive)
  <1>1. SameBlocks(s, t)
    BY DEF SameFlash, SameBlocks
  <1>2. (Fits(DftlPlanes, s) => Fits(DftlPlanes, t)) /\ \A x : PageAt(t, x) = PageAt(s, x)
    BY <1>1, SameFits
  <1> QED BY <1>2 DEF DftlFlash, SameFlash, SameManager

\* The page that GetFreeDataPage finds is empty.
LEMMA DftlNext ==
    ASSUME NEW s, NEW alive, DftlFlash(s, alive), NEW t, NextData(DftlPlanes, DftlMaps(DftlPlanes), s, t),
           t.abort = "none"
    PROVE  /\ DftlFlash(t, alive) /\ t.map.currentDataPage \in AddressesOf(DftlPlanes)
           /\ PageAt(t, t.map.currentDataPage) = "EMPTY"
  <1>1. PICK n \in Nat \ {0} : n = DftlPlanes
    BY DftlSizes
  <1>2. PICK a \in AddressesOf(n) : a = t.map.currentDataPage
    BY <1>1 DEF NextData
  <1>3. PICK c \in Slots(n) : c = s.map.currentDataPage
    BY <1>1, MapFields DEF DftlFlash, Drives
  <1>4. PICK f \in Nat : f = s.simpleCurrentFree
    BY <1>1 DEF DftlFlash, Drives
  <1>5. BlockOf(a) \in BlocksOf(n) /\ PageOf(a) \in Pages /\ \A x \in AddressesOf(n) : PageOf(x) \in Pages /\ BlockOf(x) \in BlocksOf(n)
    BY Geometry
  <1>6. /\ s \in Drives(n, DftlMaps(n)) /\ Fits(n, s) /\ t \in Drives(n, DftlMaps(n))
        /\ \A x \in AddressesOf(n) : BlockOf(x) >= f => PageAt(s, x) = "EMPTY"
        /\ c # None =>
             /\ BlockOf(c) < f
             /\ \A x \in AddressesOf(n) : BlockOf(x) = BlockOf(c) /\ PageOf(x) > PageOf(c) => PageAt(s, x) = "EMPTY"
    BY <1>1, <1>3, <1>4 DEF DftlFlash, NextData
  <1>7. SameFlash(s, t) /\ SameBlocks(s, t)
    BY DEF NextData, SameFlash, SameBlocks
  <1>8. (Fits(n, s) => Fits(n, t)) /\ \A x : PageAt(t, x) = PageAt(s, x)
    BY <1>7, SameFits
  <1>9. PICK g \in Nat : g = t.simpleCurrentFree
    BY <1>6 DEF Drives
  <1>10. /\ g <= PlaneSize * n /\ g >= f /\ t.free_list = << >> /\ t.data_active = g
         /\ BlockOf(a) < g /\ PageAt(s, a) = "EMPTY"
         /\ \A x \in AddressesOf(n) : BlockOf(x) = BlockOf(a) /\ PageOf(x) > PageOf(a) => PageAt(s, x) = "EMPTY"
    <2>1. f <= PlaneSize * n /\ s.free_list = << >> /\ s.data_active = f
      BY <1>1, <1>4 DEF DftlFlash
    <2>2. CASE Full(c)
      <3>1. /\ PageOf(a) = 0 /\ t.data_active = f + 1 /\ Takes(n, s, t, BlockOf(a))
        BY <1>1, <1>2, <1>3, <2>1, <2>2 DEF NextData
      <3>2. f < PlaneSize * n /\ BlockOf(a) = f /\ g = f + 1 /\ t.free_list = << >>
        BY <1>4, <1>9, <2>1, <3>1 DEF Takes
      <3>3. PlaneSize * n \in Nat
        BY Geometry
      <3> QED BY <1>5, <1>6, <3>1, <3>2, <3>3
    <2>3. CASE ~Full(c)
      <3>1. c # None /\ c \in AddressesOf(n) /\ PageOf(c) # BlockSize - 1
        BY <2>3 DEF Full, Slots
      <3>2. a = c + 1 /\ SameManager(s, t)
        BY <1>1, <1>2, <1>3, <2>3 DEF NextData
      <3>3. BlockOf(a) = BlockOf(c) /\ PageOf(a) = PageOf(c) + 1
        BY <3>1, <3>2, NextAddress
      <3>4. PageOf(c) \in Nat /\ \A x \in AddressesOf(n) : PageOf(x) \in Nat
        BY <1>5, <3>1 DEF Pages
      <3>5. g = f /\ t.free_list = << >> /\ t.data_active = f
        BY <1>4, <1>9, <2>1, <3>2 DEF SameManager
      <3>6. PageAt(s, a) = "EMPTY"
        BY <1>6, <3>1, <3>3, <3>4
      <3>7. ASSUME NEW x \in AddressesOf(n), BlockOf(x) = BlockOf(a), PageOf(x) > PageOf(a)
            PROVE  PageAt(s, x) = "EMPTY"
        <4>1. PageOf(x) > PageOf(c)
          BY <3>3, <3>4, <3>7
        <4> QED BY <1>6, <3>1, <3>3, <3>7, <4>1
      <3> QED BY <1>4, <1>6, <2>1, <3>1, <3>3, <3>5, <3>6, <3>7
    <2> QED BY <2>2, <2>3
  <1>11. t.invalid_list = << >> /\ t.log_active = 0 /\ t.data = s.data /\ t.map.trans_map = s.map.trans_map
    BY <1>7 DEF NextData, DftlFlash, SameFlash
  <1>12. \A x \in AddressesOf(n) : BlockOf(x) >= g => PageAt(t, x) = "EMPTY"
    <2> SUFFICES ASSUME NEW x \in AddressesOf(n), BlockOf(x) >= g PROVE PageAt(s, x) = "EMPTY"
      BY <1>8
    <2>1. BlockOf(x) \in Int
      BY <1>5 DEF BlocksOf
    <2>2. BlockOf(x) >= f
      BY <1>10, <2>1
    <2> QED BY <1>6, <2>2
  <1>13. /\ \A v \in LogicalPages : s.map.trans_map[v].ppn # None => PageAt(s, s.map.trans_map[v].ppn) = "VALID" /\ s.data[s.map.trans_map[v].ppn] = v
         /\ alive \subseteq LogicalPages
         /\ \A v \in LogicalPages : v \in alive <=> s.map.trans_map[v].ppn # None
         /\ \A x \in AddressesOf(n) : s.data[x] \in LogicalPages \cup {None}
    BY <1>1 DEF DftlFlash
  <1>14. /\ \A v \in LogicalPages : t.map.trans_map[v].ppn # None => PageAt(t, t.map.trans_map[v].ppn) = "VALID" /\ t.data[t.map.trans_map[v].ppn] = v
         /\ \A v \in LogicalPages : v \in alive <=> t.map.trans_map[v].ppn # None
         /\ \A x \in AddressesOf(n) : t.data[x] \in LogicalPages \cup {None}
    BY <1>8, <1>11, <1>13
  <1>15. DftlFlash(t, alive)
    <2>1. \A x \in AddressesOf(n) : BlockOf(x) = BlockOf(t.map.currentDataPage)
              /\ PageOf(x) > PageOf(t.map.currentDataPage) => PageAt(t, x) = "EMPTY"
      BY <1>2, <1>8, <1>10
    <2>2. BlockOf(t.map.currentDataPage) < t.simpleCurrentFree /\ t.data_active = t.simpleCurrentFree
          /\ t.simpleCurrentFree <= PlaneSize * n
          /\ \A x \in AddressesOf(n) : BlockOf(x) >= t.simpleCurrentFree => PageAt(t, x) = "EMPTY"
      BY <1>2, <1>9, <1>10, <1>12
    <2>3. Fits(n, t) /\ t \in Drives(n, DftlMaps(n)) /\ alive \subseteq LogicalPages
      BY <1>6, <1>8, <1>13
    <2>4. t.free_list = << >> /\ t.invalid_list = << >> /\ t.log_active = 0
      BY <1>10, <1>11
    <2> QED BY <1>1, <1>14, <2>1, <2>2, <2>3, <2>4 DEF DftlFlash
  <1> QED BY <1>1, <1>2, <1>8, <1>10, <1>15

\* A write to the current page, which is empty.
LEMMA DftlMapped ==
    ASSUME NEW s, NEW alive, DftlFlash(s, alive), NEW v \in LogicalPages, NEW a \in AddressesOf(DftlPlanes),
           a = s.map.currentDataPage, PageAt(s, a) = "EMPTY", NEW t, Maps(DftlPlanes, DftlMaps(DftlPlanes), s, t, v, a)
    PROVE  DftlFlash(t, alive \cup {v})
  <1>1. PICK n \in Nat \ {0} : n = DftlPlanes
    BY DftlSizes
  <1> DEFINE ppn(w) == s.map.trans_map[w].ppn
             new(w) == t.map.trans_map[w].ppn
  <1>2. /\ a \in AddressesOf(n) /\ a # None /\ t \in Drives(n, DftlMaps(n)) /\ Fits(n, t)
        /\ SameManager(s, t) /\ t.map.currentDataPage = a
    BY <1>1 DEF Maps, SameTables, AddressesOf, None, DftlFlash
  <1>3. /\ \A x \in AddressesOf(n) : t.data[x] = IF x = a THEN v ELSE IF s.data[x] = v THEN None ELSE s.data[x]
        /\ \A x \in AddressesOf(n) : PageAt(t, x) = IF x = ppn(v) THEN "INVALID"
                                                ELSE IF x = a THEN "VALID" ELSE PageAt(s, x)
        /\ \A w \in LogicalPages : new(w) = IF w = v THEN a ELSE ppn(w)
    BY <1>1 DEF Maps, Leads
  <1>4. \A w \in LogicalPages : ppn(w) # None => PageAt(s, ppn(w)) = "VALID" /\ s.data[ppn(w)] = w
    BY DEF DftlFlash
  <1>5. \A w \in LogicalPages : ppn(w) # None => ppn(w) \in AddressesOf(n)
    BY <1>1 DEF DftlFlash, Drives, DftlMaps, Entries, Entry, Slots
  <1>6. \A x \in AddressesOf(n) : x # a /\ PageAt(s, x) = "EMPTY" => PageAt(t, x) = "EMPTY"
    <2>1. ASSUME NEW x \in AddressesOf(n), x = ppn(v) PROVE PageAt(s, x) # "EMPTY"
      <3>1. ppn(v) # None
        BY <2>1 DEF AddressesOf, None
      <3> QED BY <1>4, <2>1, <3>1
    <2> QED BY <1>3, <2>1
  <1>7. ppn(v) # a /\ \A w \in LogicalPages : ppn(w) # a
    <2>1. ASSUME NEW w \in LogicalPages, ppn(w) = a PROVE FALSE
      BY <1>2, <1>4, <2>1
    <2> QED BY <2>1
  <1>8. ASSUME NEW w \in LogicalPages, new(w) # None
        PROVE  PageAt(t, new(w)) = "VALID" /\ t.data[new(w)] = w
    <2>1. CASE w = v
      BY <1>2, <1>3, <1>7, <2>1
    <2>2. CASE w # v
      <3>1. PICK x \in AddressesOf(n) : x = ppn(w) /\ x = new(w)
        BY <1>3, <1>5, <1>8, <2>2
      <3>2. PageAt(s, x) = "VALID" /\ s.data[x] = w /\ x # a /\ x # None
        BY <1>3, <1>4, <1>7, <1>8, <2>2, <3>1
      <3>3. x # ppn(v)
        BY <1>4, <2>2, <3>1, <3>2
      <3> QED BY <1>3, <2>2, <3>1, <3>2, <3>3
    <2> QED BY <2>1, <2>2
  <1>9. \A w \in LogicalPages : w \in alive \cup {v} <=> new(w) # None
    BY <1>2, <1>3 DEF DftlFlash
  <1>10. \A x \in AddressesOf(n) : t.data[x] \in LogicalPages \cup {None}
    BY <1>1, <1>3 DEF DftlFlash
  <1>11. /\ s.free_list = << >> /\ s.invalid_list = << >> /\ s.log_active = 0
         /\ s.data_active = s.simpleCurrentFree /\ s.simpleCurrentFree <= PlaneSize * n
         /\ \A x \in AddressesOf(n) : BlockOf(x) >= s.simpleCurrentFree => PageAt(s, x) = "EMPTY"
         /\ BlockOf(a) < s.simpleCurrentFree
         /\ \A x \in AddressesOf(n) : BlockOf(x) = BlockOf(a) /\ PageOf(x) > PageOf(a) => PageAt(s, x) = "EMPTY"
    BY <1>1, <1>2 DEF DftlFlash
  <1>12. \A x \in AddressesOf(n) : BlockOf(x) >= t.simpleCurrentFree => PageAt(t, x) = "EMPTY"
    <2> SUFFICES ASSUME NEW x \in AddressesOf(n), BlockOf(x) >= s.simpleCurrentFree PROVE PageAt(t, x) = "EMPTY"
      BY <1>2 DEF SameManager
    <2>1. BlockOf(x) \in Int /\ BlockOf(a) \in Int /\ s.simpleCurrentFree \in Int
      BY <1>1, Geometry DEF BlocksOf, DftlFlash, Drives
    <2>2. x # a
      BY <1>11, <2>1
    <2> QED BY <1>6, <1>11, <2>2
  <1>13. \A x \in AddressesOf(n) : BlockOf(x) = BlockOf(a) /\ PageOf(x) > PageOf(a) => PageAt(t, x) = "EMPTY"
    <2> SUFFICES ASSUME NEW x \in AddressesOf(n), BlockOf(x) = BlockOf(a), PageOf(x) > PageOf(a)
                 PROVE  PageAt(t, x) = "EMPTY"
      OBVIOUS
    <2>1. PageOf(x) \in Int /\ PageOf(a) \in Int
      BY <1>1, Geometry DEF Pages
    <2>2. x # a
      BY <2>1
    <2> QED BY <1>6, <1>11, <2>2
  <1>14. /\ t.free_list = << >> /\ t.invalid_list = << >> /\ t.log_active = 0
         /\ t.data_active = t.simpleCurrentFree /\ t.simpleCurrentFree <= PlaneSize * n
         /\ BlockOf(a) < t.simpleCurrentFree
    BY <1>2, <1>11 DEF SameManager
  <1>15. alive \cup {v} \subseteq LogicalPages
    BY DEF DftlFlash
  <1> QED BY <1>1, <1>2, <1>8, <1>9, <1>10, <1>12, <1>13, <1>14, <1>15 DEF DftlFlash

\* A trim.
LEMMA DftlUnmapped ==
    ASSUME NEW s, NEW alive, DftlFlash(s, alive), NEW v \in LogicalPages, NEW total,
           NEW t, Unmaps(DftlPlanes, DftlMaps(DftlPlanes), s, t, v, total)
    PROVE  DftlFlash(t, alive \ {v})
  <1>1. PICK n \in Nat \ {0} : n = DftlPlanes
    BY DftlSizes
  <1> DEFINE ppn(w) == s.map.trans_map[w].ppn
             new(w) == t.map.trans_map[w].ppn
  <1>2. /\ t \in Drives(n, DftlMaps(n)) /\ Fits(n, t)
        /\ SameManager(s, t) /\ t.map.currentDataPage = s.map.currentDataPage
    BY <1>1 DEF Unmaps, SameTables, DftlFlash
  <1>3. /\ \A x \in AddressesOf(n) : t.data[x] \in {s.data[x], None} /\ (s.data[x] # v => t.data[x] = s.data[x])
        /\ \A x \in AddressesOf(n) : PageAt(t, x) = IF x = ppn(v) THEN "INVALID" ELSE PageAt(s, x)
        /\ \A w \in LogicalPages : new(w) = IF w = v THEN None ELSE ppn(w)
    BY <1>1 DEF Unmaps, Leads
  <1>4. \A w \in LogicalPages : ppn(w) # None => PageAt(s, ppn(w)) = "VALID" /\ s.data[ppn(w)] = w
    BY DEF DftlFlash
  <1>5. \A w \in LogicalPages : ppn(w) # None => ppn(w) \in AddressesOf(n)
    BY <1>1 DEF DftlFlash, Drives, DftlMaps, Entries, Entry, Slots
  <1>6. \A x \in AddressesOf(n) : PageAt(s, x) = "EMPTY" => PageAt(t, x) = "EMPTY"
    <2>1. ASSUME NEW x \in AddressesOf(n), x = ppn(v) PROVE PageAt(s, x) # "EMPTY"
      <3>1. ppn(v) # None
        BY <2>1 DEF AddressesOf, None
      <3> QED BY <1>4, <2>1, <3>1
    <2> QED BY <1>3, <2>1
  <1>8. ASSUME NEW w \in LogicalPages, new(w) # None
        PROVE  PageAt(t, new(w)) = "VALID" /\ t.data[new(w)] = w
    <2>1. w # v /\ new(w) = ppn(w)
      BY <1>3, <1>8
    <2>2. PICK x \in AddressesOf(n) : x = ppn(w)
      BY <1>5, <1>8, <2>1
    <2>3. PageAt(s, x) = "VALID" /\ s.data[x] = w
      BY <1>4, <1>8, <2>1, <2>2
    <2>4. x # ppn(v)
      BY <1>4, <1>8, <2>1, <2>2, <2>3
    <2> QED BY <1>3, <2>1, <2>2, <2>3, <2>4
  <1>9. \A w \in LogicalPages : w \in alive \ {v} <=> new(w) # None
    BY <1>3 DEF DftlFlash
  <1>10. \A x \in AddressesOf(n) : t.data[x] \in LogicalPages \cup {None}
    BY <1>1, <1>3 DEF DftlFlash
  <1>11. /\ s.free_list = << >> /\ s.invalid_list = << >> /\ s.log_active = 0
         /\ s.data_active = s.simpleCurrentFree /\ s.simpleCurrentFree <= PlaneSize * n
         /\ \A x \in AddressesOf(n) : BlockOf(x) >= s.simpleCurrentFree => PageAt(s, x) = "EMPTY"
         /\ s.map.currentDataPage # None =>
             /\ BlockOf(s.map.currentDataPage) < s.simpleCurrentFree
             /\ \A x \in AddressesOf(n) : BlockOf(x) = BlockOf(s.map.currentDataPage)
                    /\ PageOf(x) > PageOf(s.map.currentDataPage) => PageAt(s, x) = "EMPTY"
    BY <1>1 DEF DftlFlash
  <1>12. /\ t.free_list = << >> /\ t.invalid_list = << >> /\ t.log_active = 0
         /\ t.data_active = t.simpleCurrentFree /\ t.simpleCurrentFree <= PlaneSize * n
         /\ t.simpleCurrentFree = s.simpleCurrentFree
    BY <1>2, <1>11 DEF SameManager
  <1>13. \A x \in AddressesOf(n) : BlockOf(x) >= t.simpleCurrentFree => PageAt(t, x) = "EMPTY"
    BY <1>6, <1>11, <1>12
  <1>14. t.map.currentDataPage # None =>
             /\ BlockOf(t.map.currentDataPage) < t.simpleCurrentFree
             /\ \A x \in AddressesOf(n) : BlockOf(x) = BlockOf(t.map.currentDataPage)
                    /\ PageOf(x) > PageOf(t.map.currentDataPage) => PageAt(t, x) = "EMPTY"
    BY <1>2, <1>6, <1>11, <1>12
  <1>15. alive \ {v} \subseteq LogicalPages
    BY DEF DftlFlash
  <1> QED BY <1>1, <1>2, <1>8, <1>9, <1>10, <1>12, <1>13, <1>14, <1>15 DEF DftlFlash
=============================================================================
