-------------------------------- MODULE Cmem --------------------------------
(***************************************************************************)
(* The allocator of the texts, the connections' buffers and the energy     *)
(* points (ARM_src/Core/Memory/cmem.c), a buddy system, together with what *)
(* its clients do with their pointers.  A packet of SCP frees its text     *)
(* when it is sent and keeps the pointer, which is freed once more when    *)
(* the packet is sent again or times out (SCP_Comm.c line 365,             *)
(* SCP_Buffer.c line 182).                                                 *)
(*                                                                         *)
(* mem_block is kept in the order of the addresses: it is the set of the   *)
(* addresses at which blocks begin, and of those whose used bit is set.    *)
(* The pool begins at 0 and NULL is where it ends.  A step is an iteration *)
(* of a loop of cmem.c; call is the call of it that main() is in.          *)
(***************************************************************************)
EXTENDS Integers, FiniteSets

CONSTANTS
  Holder,   \* the pointers of the program that cmem_malloc is assigned to
  Text,     \* those of them that are texts of SCP packets
  Pool,     \* CMEM_SIZE
  Sizes     \* the sizes asked for

\* 1 << i
shift[i \in 0..30] == IF i = 0 THEN 1 ELSE 2 * shift[i - 1]
\* The bits of a size that the loop over i may meet.
Bit == {shift[i] : i \in 0..30}

ASSUME PoolAssumption == Pool \in Nat /\ Pool > 1
\* It is one bit, so that cmem_init makes one block, and the sizes of blocks
\* are kept in 16 bits.
ASSUME PowerAssumption == Pool \in Bit /\ Pool < 65536
\* A request that is larger than the pool fails in the same way.
ASSUME SizesAssumption == Sizes \subseteq 1..(2 * Pool)
\* Every size has a highest bit.
ASSUME BitAssumption ==
  \A size \in Sizes : \E p \in Bit : p <= size /\ size < 2 * p
ASSUME TextAssumption == Text \subseteq Holder

VARIABLES
  starts,   \* mem_block
  used,     \* its entries with the used bit
  call,     \* the call of cmem.c that is in progress
  ptr,      \* the clients' pointers
  asked,    \* history: the size each has asked for
  owns,     \* history: the pointers whose block has not been given back
  hit       \* history: the owners whose block another pointer has freed

clientVars == <<ptr, asked, owns, hit>>
vars == <<starts, used, call, clientVars>>

NULL == Pool
Returned == [op |-> "none", h |-> NULL, n |-> 0, size |-> 0]
Idle == call = Returned

\* A block from b to end: nothing begins in it.
Bound == starts \cup {Pool}
Block(b, end) ==
  /\ b \in starts /\ end \in Bound /\ b < end
  /\ \A s \in starts : s <= b \/ end <= s
Size(b) == (CHOOSE end \in Bound : Block(b, end)) - b

(***************************************************************************)
(* The size of the block: the highest bit of the size, doubled if another  *)
(* bit is set.  If none is, i-- wraps from 0 to 255, shifts by more than   *)
(* the width find nothing, and the highest bit is met again and doubled.   *)
(***************************************************************************)
BlockSize(size) ==
  2 * CHOOSE p \in Bit : p <= size /\ size < 2 * p

Init ==
  /\ starts = {0} /\ used = {}
  /\ call = Returned
  /\ ptr = [h \in Holder |-> NULL]
  /\ asked = [h \in Holder |-> 0]
  /\ owns = {} /\ hit = {}

-----------------------------------------------------------------------------
(* cmem_malloc. *)

Malloc(h, size) ==
  /\ Idle /\ ptr[h] = NULL
  /\ call' = [op |-> "malloc", h |-> h, n |-> BlockSize(size),
              size |-> size]
  /\ UNCHANGED <<starts, used, clientVars>>

\* Mutant of Fits: a used block that is too big is split up, too.
FitsTooBig(b) ==
  b \in starts /\ Size(b) >= call.n /\ (b \notin used \/ Size(b) > call.n)

\* The block the search stops at: the first free one that is not too small.
Fits(b) == b \in starts \ used /\ Size(b) >= call.n
FirstFit(b) == Fits(b) /\ \A c \in starts : Fits(c) => b <= c

\* It is too big: it is split up in two.
Split ==
  /\ call.op = "malloc"
  /\ \E b \in starts :
       /\ FirstFit(b)
       /\ \E end \in Bound :
            /\ Block(b, end) /\ end - b > call.n
            /\ starts' = starts \cup {b + (end - b) \div 2}
  /\ UNCHANGED <<used, call, clientVars>>

\* It is perfect.
Take ==
  /\ call.op = "malloc"
  /\ \E b \in starts :
       /\ FirstFit(b) /\ Block(b, b + call.n)
       /\ used' = used \cup {b}
       /\ ptr' = [ptr EXCEPT ![call.h] = b]
  /\ asked' = [asked EXCEPT ![call.h] = call.size]
  /\ owns' = owns \cup {call.h}
  /\ call' = Returned
  /\ UNCHANGED <<starts, hit>>

NoMemory ==
  /\ call.op = "malloc"
  /\ \A b \in starts : ~Fits(b)
  /\ call' = Returned
  /\ UNCHANGED <<starts, used, clientVars>>

-----------------------------------------------------------------------------
(* cmem_free.  A pointer that is no block or a free one is left alone. *)

Frees(h) ==
  /\ IF ptr[h] \in used
       THEN /\ used' = used \ {ptr[h]}
            /\ call' = [op |-> "free", h |-> NULL, n |-> ptr[h], size |-> 0]
            /\ hit' = (hit \ {h}) \cup {g \in owns \ {h} : ptr[g] = ptr[h]}
       ELSE /\ UNCHANGED <<used, call>>
            /\ hit' = hit \ {h}
  /\ owns' = owns \ {h}
  /\ UNCHANGED <<starts, asked>>

\* The owner gives its block back; a packet that has been sent keeps ptr.
Free(h) ==
  /\ Idle /\ h \in owns
  /\ Frees(h)
  /\ ptr' = IF h \in Text THEN ptr ELSE [ptr EXCEPT ![h] = NULL]

\* A packet is sent again, or times out and is gone.
FreeAgain(h) ==
  /\ Idle /\ h \in Text \ owns /\ ptr[h] # NULL
  /\ Frees(h)
  /\ \E p \in {ptr[h], NULL} : ptr' = [ptr EXCEPT ![h] = p]

\* A packet that is answered is gone.
Answered(h) ==
  /\ Idle /\ h \in Text \ owns /\ ptr[h] # NULL
  /\ ptr' = [ptr EXCEPT ![h] = NULL]
  /\ UNCHANGED <<starts, used, call, asked, owns, hit>>

\* The other half of what the block at b was split from, if it is as big.
\* Mutant of Twin: the block behind is always taken for it.
TwinBehind(b, c) == c \in starts /\ c = b + Size(b) /\ Size(c) = Size(b)
Twin(b, c) ==
  /\ c \in starts \ {b} /\ Size(c) = Size(b)
  /\ IF b % (2 * Size(b)) = 0 THEN c = b + Size(b) ELSE c = b - Size(b)

\* Mutant of Mergeable: the used bit of the twin is not looked at.
MergeableUsed(c) == Twin(call.n, c)
Mergeable(c) == Twin(call.n, c) /\ c \notin used

Merge ==
  /\ call.op = "free"
  /\ \E c \in starts :
       /\ Mergeable(c)
       /\ IF c > call.n
            THEN starts' = starts \ {c} /\ UNCHANGED call
            ELSE starts' = starts \ {call.n} /\ call' = [call EXCEPT !.n = c]
  /\ UNCHANGED <<used, clientVars>>

FreeReturns ==
  /\ call.op = "free"
  /\ \A c \in starts : ~Mergeable(c)
  /\ call' = Returned
  /\ UNCHANGED <<starts, used, clientVars>>

-----------------------------------------------------------------------------
Client ==
  \E h \in Holder :
    \/ \E size \in Sizes : Malloc(h, size)
    \/ Free(h) \/ FreeAgain(h) \/ Answered(h)
Library == Split \/ Take \/ NoMemory \/ Merge \/ FreeReturns

Next == Client \/ Library

Spec == Init /\ [][Next]_vars
-----------------------------------------------------------------------------
Op == {"none", "malloc", "free"}

TypeOK ==
  /\ starts \subseteq 0..(Pool - 1)
  /\ used \subseteq starts
  /\ call \in [op : Op, h : Holder \cup {NULL}, n : Nat, size : Nat]
  /\ ptr \in [Holder -> 0..Pool]
  /\ asked \in [Holder -> Nat]
  /\ owns \subseteq Holder /\ hit \subseteq owns

(***************************************************************************)
(* Whoever has got a block has it to himself until he gives it back: its   *)
(* used bit is set, it is in the pool, and no block begins in it, however  *)
(* blocks are split and merged around it and although packets free their   *)
(* texts twice.  The one exception is an owner whose block begins where a  *)
(* text that was freed before had been: the second free gives his block    *)
(* away (SCP_Comm.c line 366).                                             *)
(***************************************************************************)
OwnersSafe ==
  \A h \in owns \ hit :
    /\ ptr[h] \in used /\ ptr[h] + asked[h] <= Pool
    /\ \A s \in starts : s <= ptr[h] \/ ptr[h] + asked[h] <= s
    /\ \A g \in owns \ hit : ptr[g] = ptr[h] => g = h

(***************************************************************************)
(* The pool stays a buddy system, which the merging relies on: a block is  *)
(* as large as a power of two and begins at a multiple of its size, and    *)
(* between two calls no free block has a free twin, so that memory that is *)
(* given back is found again by a request of twice the size.  A text that  *)
(* is freed twice does not break it.                                       *)
(***************************************************************************)
BuddySystem ==
  /\ \A b \in starts :
       Size(b) \in Bit /\ b % Size(b) = 0
  /\ Idle =>
       \A b, c \in starts \ used :
         ~(c = b + Size(b) /\ Size(c) = Size(b) /\ b % (2 * Size(b)) = 0)
=============================================================================
