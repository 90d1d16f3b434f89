----------------------------- MODULE ArenaProofs -----------------------------
(***************************************************************************)
(* Blocks of an arena are disjoint, aligned and inside their pages, for    *)
(* every size of page and every sequence of requests.                      *)
(*                                                                         *)
(* The free part of the newest page begins after all the blocks in it:     *)
(* that is what makes a block cut from it disjoint from those before, and  *)
(* a page that is added empty is larger than the request it is added for.  *)
(***************************************************************************)
EXTENDS Arena, TLAPS

(* An aligned slot is the first multiple of the alignment not before the   *)
(* offset (Arena::alignedSlot).                                            *)
LEMMA AlignedSlot ==
  ASSUME NEW from \in Nat, NEW align \in Alignments
  PROVE  /\ alignedSlot(from, align) \in Nat
         /\ alignedSlot(from, align) >= from
         /\ alignedSlot(from, align) % align = 0
         /\ alignedSlot(0, align) = 0
<1>1. CASE align = 1  BY <1>1 DEF alignedSlot
<1>2. CASE align = 2  BY <1>2 DEF alignedSlot
<1>3. CASE align = 4  BY <1>3 DEF alignedSlot
<1>4. CASE align = 8  BY <1>4 DEF alignedSlot
<1>5. CASE align = 16 BY <1>5 DEF alignedSlot
<1> QED BY <1>1, <1>2, <1>3, <1>4, <1>5 DEF Alignments

(* A page that is added has room for what was asked for (Arena.cpp:10).    *)
LEMMA PageCapacity ==
  ASSUME NEW minSize \in Nat
  PROVE  /\ pageCapacity(minSize) \in Nat
         /\ minSize < pageCapacity(minSize)
<1> DEFINE whole == minSize \div PageSize
           rest  == minSize % PageSize
<1>1. /\ whole \in Nat /\ rest \in Nat
      /\ rest < PageSize
      /\ minSize = PageSize * whole + rest
  BY PageSizeAssumption
<1>2. pageCapacity(minSize) = (whole + 1) * PageSize
  BY DEF pageCapacity
<1>3. (whole + 1) * PageSize = PageSize * whole + PageSize
  BY <1>1, PageSizeAssumption
<1>4. PageSize * whole \in Nat
  BY <1>1, PageSizeAssumption
<1> HIDE DEF whole, rest
<1> QED BY <1>1, <1>2, <1>3, <1>4, PageSizeAssumption

----------------------------------------------------------------------------
\* The blocks of the newest page are before its free part.
NewestBelow == \A i \in DOMAIN blocks : blocks[i].page = Len(mem) => blocks[i].start + blocks[i].bytes <= offset

ArenaInv == ArenaTypeOK /\ BlocksInPages /\ BlocksApart /\ NewestBelow

(* A block cut from a page after all the blocks in it keeps the invariant, *)
(* on the newest page and on one that is added.                            *)
LEMMA TakeKeepsInv ==
  ASSUME ArenaInv,
         NEW request \in Requests, NEW pages \in Seq(Nat), NEW size \in Nat, NEW from \in Nat,
         pages # <<>>, size = pages[Len(pages)],
         Len(mem) <= Len(pages),
         \A i \in DOMAIN mem : pages[i] = mem[i],
         Len(mem) = Len(pages) => from = offset,
         alignedSlot(from, request.align) + request.bytes <= size,
         Take(request, pages, size, from)
  PROVE  ArenaInv'
<1> DEFINE slot  == alignedSlot(from, request.align)
           block == [ page  |-> Len(pages), start |-> slot,
                      bytes |-> request.bytes, align |-> request.align ]
           n     == Len(blocks)
<1>1. /\ request.bytes \in Nat /\ request.align \in Alignments
  BY RequestsAssumption DEF Request
<1>2. slot \in Nat /\ slot >= from /\ slot % request.align = 0
  BY <1>1, AlignedSlot
<1> HIDE DEF slot
<1>3. mem' = pages /\ capacity' = size /\ offset' = slot + request.bytes
      /\ blocks' = Append(blocks, block)
  BY DEF Take, slot
<1>4. block \in Block /\ blocks \in Seq(Block) /\ n \in Nat
  BY <1>1, <1>2 DEF Block, ArenaInv, ArenaTypeOK
<1>5. /\ DOMAIN blocks = 1 .. n /\ DOMAIN blocks' = 1 .. (n + 1)
      /\ \A i \in 1 .. n : blocks'[i] = blocks[i] /\ blocks[i] \in Block
      /\ blocks'[n + 1] = block
  BY <1>3, <1>4
<1>6. ArenaTypeOK'
  <2>1. slot + request.bytes \in 0 .. size
    BY <1>1, <1>2 DEF slot
  <2>2. blocks' \in Seq(Block)
    BY <1>3, <1>4
  <2> QED BY <1>3, <2>1, <2>2 DEF ArenaTypeOK
<1>7. BlocksInPages'
  <2> SUFFICES ASSUME NEW i \in DOMAIN blocks'
               PROVE  /\ blocks'[i].page \in DOMAIN pages
                      /\ blocks'[i].start + blocks'[i].bytes <= pages[blocks'[i].page]
                      /\ blocks'[i].start % blocks'[i].align = 0
    BY <1>3 DEF BlocksInPages
  <2>1. CASE i \in 1 .. n
    <3>1. /\ blocks[i].page \in DOMAIN mem
          /\ blocks[i].start + blocks[i].bytes <= mem[blocks[i].page]
          /\ blocks[i].start % blocks[i].align = 0
      BY <1>5, <2>1 DEF ArenaInv, BlocksInPages
    <3>2. DOMAIN mem \subseteq DOMAIN pages
      BY DEF ArenaInv, ArenaTypeOK
    <3> QED BY <1>5, <2>1, <3>1, <3>2
  <2>2. CASE i = n + 1
    <3>1. Len(pages) \in DOMAIN pages
      OBVIOUS
    <3>2. slot + request.bytes <= pages[Len(pages)]
      BY DEF slot
    <3> QED BY <1>2, <1>5, <2>2, <3>1, <3>2
  <2> QED BY <1>4, <1>5, <2>1, <2>2
<1>8. /\ \A i \in 1 .. n : blocks[i].page \in DOMAIN mem
      /\ mem \in Seq(Nat) /\ offset \in Nat
  <2>1. BlocksInPages /\ DOMAIN blocks = 1 .. n
    BY <1>5 DEF ArenaInv
  <2>2. mem \in Seq(Nat) /\ capacity \in Nat /\ offset \in 0 .. capacity
    BY DEF ArenaInv, ArenaTypeOK
  <2> QED BY <2>1, <2>2 DEF BlocksInPages
<1>9. \A i \in 1 .. n : blocks[i].page = Len(pages) => blocks[i].start + blocks[i].bytes <= slot
  <2> SUFFICES ASSUME NEW i \in 1 .. n, blocks[i].page = Len(pages)
               PROVE  blocks[i].start + blocks[i].bytes <= slot
    OBVIOUS
  <2>1. Len(mem) = Len(pages)
    BY <1>8
  <2>2. blocks[i].start + blocks[i].bytes <= offset
    BY <1>5, <2>1 DEF ArenaInv, NewestBelow
  <2>3. offset \in Nat /\ blocks[i].start \in Nat /\ blocks[i].bytes \in Nat
    BY <1>5, <1>8 DEF Block
  <2> QED BY <1>2, <2>1, <2>2, <2>3
<1>10. BlocksApart'
  <2> SUFFICES ASSUME NEW i \in 1 .. (n + 1), NEW j \in 1 .. (n + 1), i # j
               PROVE  Apart(blocks'[i], blocks'[j])
    BY <1>5 DEF BlocksApart, Apart
  <2>1. CASE i \in 1 .. n /\ j \in 1 .. n
    BY <1>5, <2>1 DEF ArenaInv, BlocksApart
  <2>2. CASE i \in 1 .. n /\ j = n + 1
    BY <1>5, <1>9, <2>2 DEF Apart
  <2>3. CASE i = n + 1 /\ j \in 1 .. n
    BY <1>5, <1>9, <2>3 DEF Apart
  <2> QED BY <1>4, <2>1, <2>2, <2>3
<1>11. NewestBelow'
  <2> SUFFICES ASSUME NEW i \in 1 .. (n + 1), blocks'[i].page = Len(pages)
               PROVE  blocks'[i].start + blocks'[i].bytes <= slot + request.bytes
    BY <1>3, <1>5 DEF NewestBelow
  <2>1. CASE i \in 1 .. n
    <3>1. blocks[i].start + blocks[i].bytes <= slot
      BY <1>5, <1>9, <2>1
    <3>2. blocks[i].start \in Nat /\ blocks[i].bytes \in Nat
      BY <1>5, <2>1 DEF Block
    <3> QED BY <1>1, <1>2, <1>5, <2>1, <3>1, <3>2
  <2>2. CASE i = n + 1
    <3>1. blocks'[i].start = slot /\ blocks'[i].bytes = request.bytes
      BY <1>5, <2>2
    <3> QED BY <1>1, <1>2, <3>1
  <2> QED BY <1>4, <2>1, <2>2
<1> QED BY <1>6, <1>7, <1>10, <1>11 DEF ArenaInv

----------------------------------------------------------------------------
LEMMA InitInv == ArenaInit => ArenaInv
BY DEF ArenaInit, ArenaInv, ArenaTypeOK, BlocksInPages, BlocksApart, NewestBelow

(* Each allocation keeps the invariant.                                    *)
LEMMA NextInv == ArenaInv /\ [ArenaNext]_arenaVars => ArenaInv'
<1> SUFFICES ASSUME ArenaInv, [ArenaNext]_arenaVars PROVE ArenaInv'
  OBVIOUS
<1>1. CASE UNCHANGED arenaVars
  BY <1>1 DEF arenaVars, ArenaInv, ArenaTypeOK, BlocksInPages, BlocksApart, Apart, NewestBelow
<1>2. CASE ArenaNext
  <2>1. PICK request \in Requests : allocN(request)
    BY <1>2 DEF ArenaNext
  <2>2. mem \in Seq(Nat) /\ offset \in Nat /\ capacity \in Nat
        /\ (mem # <<>> => capacity = mem[Len(mem)]) /\ (mem = <<>> => capacity = 0)
    BY DEF ArenaInv, ArenaTypeOK
  <2>3. request.bytes \in Nat /\ request.align \in Alignments
    BY RequestsAssumption DEF Request
  <2>4. CASE HasRoom(request) /\ Take(request, mem, capacity, offset)
    <3>1. alignedSlot(offset, request.align) \in Nat
      BY <2>2, <2>3, AlignedSlot
    <3>2. alignedSlot(offset, request.align) + request.bytes < capacity
      BY <2>4 DEF HasRoom
    <3>3. mem # <<>>
      BY <2>2, <2>3, <3>1, <3>2
    <3> QED BY <2>2, <2>3, <2>4, <3>1, <3>2, <3>3, TakeKeepsInv
  <2>5. CASE pushPage(request)
    <3> DEFINE size == pageCapacity(request.bytes)
    <3>1. size \in Nat /\ request.bytes < size
      BY <2>3, PageCapacity
    <3>2. alignedSlot(0, request.align) = 0
      BY <2>3, AlignedSlot
    <3>3. Take(request, Append(mem, size), size, 0)
      BY <2>5 DEF pushPage
    <3> HIDE DEF size
    <3>4. /\ Append(mem, size) \in Seq(Nat) /\ Append(mem, size) # <<>>
          /\ Len(Append(mem, size)) = Len(mem) + 1
          /\ size = Append(mem, size)[Len(mem) + 1]
          /\ \A i \in DOMAIN mem : Append(mem, size)[i] = mem[i]
      BY <2>2, <3>1
    <3>5. Len(mem) \in Nat
      BY <2>2
    <3> DEFINE pages == Append(mem, size)
    <3>6. /\ pages \in Seq(Nat) /\ pages # <<>> /\ size = pages[Len(pages)]
          /\ Len(mem) <= Len(pages) /\ Len(mem) # Len(pages)
          /\ \A i \in DOMAIN mem : pages[i] = mem[i]
      BY <3>4, <3>5
    <3>7. alignedSlot(0, request.align) + request.bytes <= size
      BY <2>3, <3>1, <3>2
    <3>8. Take(request, pages, size, 0)
      BY <3>3
    <3> HIDE DEF pages
    <3> QED BY <3>1, <3>6, <3>7, <3>8, TakeKeepsInv
  <2> QED BY <2>1, <2>4, <2>5 DEF allocN
<1> QED BY <1>1, <1>2

THEOREM ArenaInvariant == ArenaSpec => []ArenaInv
BY InitInv, NextInv, PTL DEF ArenaSpec

(* The arena's pages and its free part stay well typed.                    *)
THEOREM ArenaTypeCorrect == ArenaSpec => []ArenaTypeOK
BY ArenaInvariant, PTL DEF ArenaInv

(* Whatever is asked for in which order, no two blocks share a byte.       *)
THEOREM BlocksAlwaysApart == ArenaSpec => []BlocksApart
BY ArenaInvariant, PTL DEF ArenaInv

(* Whatever is asked for, every block is aligned and inside its page.      *)
THEOREM BlocksAlwaysInPages == ArenaSpec => []BlocksInPages
BY ArenaInvariant, PTL DEF ArenaInv
=============================================================================
