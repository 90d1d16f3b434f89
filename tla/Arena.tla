-------------------------------- MODULE Arena --------------------------------
(***************************************************************************)
(* The pooling allocator (src/lib/support/Arena.hpp and Arena.cpp) that    *)
(* every graph, type and package is built in: blocks are cut from the      *)
(* newest page by moving an offset, and freed with the arena.              *)
(*                                                                         *)
(* A request is what allocN<T>(count) comes down to: count * sizeof(T)     *)
(* bytes at a multiple of alignof(T).  malloc aligns a page for every type *)
(* there is, so that a block is aligned if its offset in its page is.      *)
(***************************************************************************)
EXTENDS Integers, Sequences

CONSTANTS
  PageSize,    \* the constructor's pageSize
  Requests,    \* the allocations the program makes
  MaxBlocks    \* bound: how many of them it makes

Alignments == {1, 2, 4, 8, 16}

Request == [bytes : Nat, align : Alignments]

ASSUME PageSizeAssumption == PageSize \in Nat \ {0}
ASSUME RequestsAssumption == Requests \subseteq Request
ASSUME MaxBlocksAssumption == MaxBlocks \in Nat

VARIABLES
  mem,       \* the pages: the size each was allocated with
  capacity,  \* of the newest page
  offset,    \* where its free part begins
  blocks     \* what the callers hold, in the order of allocation

arenaVars == <<mem, capacity, offset, blocks>>

----------------------------------------------------------------------------
ArenaInit ==
  /\ mem = <<>>
  /\ capacity = 0
  /\ offset = 0
  /\ blocks = <<>>

alignedSlot_down(from, align) == from - (from % align)

alignedSlot(from, align) ==
  IF from % align # 0 THEN from + align - (from % align) ELSE from

pageCapacity_short(minSize) == (minSize \div PageSize) * PageSize

pageCapacity(minSize) == (minSize \div PageSize + 1) * PageSize

\* The newest page, pages, its size and the offset in it, serve the request.
Take(request, pages, size, from) ==
  LET slot == alignedSlot(from, request.align) IN
  /\ mem' = pages
  /\ capacity' = size
  /\ offset' = slot + request.bytes
  /\ blocks' = Append(blocks, [ page  |-> Len(pages), start |-> slot,
                                bytes |-> request.bytes, align |-> request.align ])

pushPage_keepsOffset(request) ==
  LET size == pageCapacity(request.bytes) IN
  Take(request, Append(mem, size), size, offset)

\* pushPage, and the allocation from the page it adds.
pushPage(request) ==
  LET size == pageCapacity(request.bytes) IN
  Take(request, Append(mem, size), size, 0)

HasRoom(request) == alignedSlot(offset, request.align) + request.bytes < capacity

allocN(request) ==
  /\ Len(blocks) < MaxBlocks
  /\ \/ HasRoom(request) /\ Take(request, mem, capacity, offset)
     \/ ~HasRoom(request) /\ pushPage(request)

ArenaNext == \E request \in Requests : allocN(request)

ArenaSpec == ArenaInit /\ [][ArenaNext]_arenaVars

----------------------------------------------------------------------------
\* Correctness.

Block == [page : Nat, start : Nat, bytes : Nat, align : Alignments]

ArenaTypeOK ==
  /\ mem \in Seq(Nat)
  /\ capacity = IF mem = <<>> THEN 0 ELSE mem[Len(mem)]
  /\ offset \in 0 .. capacity
  /\ blocks \in Seq(Block)

Apart(a, b) ==
  a.page # b.page \/ a.start + a.bytes <= b.start \/ b.start + b.bytes <= a.start

(* No two blocks share a byte, whatever was asked for in which order:      *)
(* nothing built in an arena overwrites anything else built in it.         *)
BlocksApart == \A i, j \in DOMAIN blocks : i # j => Apart(blocks[i], blocks[j])

(* No block reaches beyond the page that was allocated for it, also when   *)
(* alignment moves its start, when it fills a page exactly and when it is  *)
(* larger than a page (Arena.hpp:66-71, "capable of storing at least       *)
(* minSize", Arena.cpp:10); and it starts where its type may (Arena.hpp:86 *)
(* asserts it), on a page just added too.                                  *)
BlocksInPages ==
  \A i \in DOMAIN blocks :
    /\ blocks[i].page \in DOMAIN mem
    /\ blocks[i].start + blocks[i].bytes <= mem[blocks[i].page]
    /\ blocks[i].start % blocks[i].align = 0
=============================================================================
