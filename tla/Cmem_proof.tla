----------------------------- MODULE Cmem_proof -----------------------------
(***************************************************************************)
(* For every pool and all sizes, whoever has got a block of cmem.c has it  *)
(* to himself, and the pool stays a buddy system: the theorems             *)
(* TypeCorrect, OwnersCorrect and BuddyCorrect about Cmem.                 *)
(*                                                                         *)
(* OwnersSafe speaks of no call in progress; what a call carries from one  *)
(* iteration to the next is added in CallOK: the block that cmem_free is   *)
(* merging is free, and cmem_malloc works for a pointer that owns nothing  *)
(* and looks for a block that is not smaller than the size asked for.      *)
(* That owners are safe has nothing to do with powers of two; BuddyInv,    *)
(* further below, has.                                                     *)
(***************************************************************************)
EXTENDS Cmem, DataInduction

CallOK ==
  /\ call.op = "malloc" =>
       call.h \in Holder \ owns /\ call.size \in Nat /\ call.size <= call.n
  /\ call.op = "free" => call.n \in starts \ used

IInv ==
  /\ TypeOK
  /\ \A h \in owns : ptr[h] # NULL
  /\ CallOK
  /\ OwnersSafe

-----------------------------------------------------------------------------
(* The bits of a size. *)

LEMMA Shift ==
  /\ shift \in [0..30 -> Nat \ {0}]
  /\ shift[0] = 1
  /\ \A i \in 1..30 : shift[i] = 2 * shift[i - 1]
<1> DEFINE V == Nat \ {0}
           G == [i \in 1..30 |-> [v \in V |-> 2 * v]]
           IsShift(f) == f = [i \in 0..30 |-> IF i = 0 THEN 1 ELSE 2 * f[i - 1]]
<1>1. G \in [1..30 -> [V -> V]] /\ 1 \in V
  OBVIOUS
<1>2. PICK f \in [0..30 -> V] : Steps(f, 30, 1, G)
  <2> HIDE DEF G, V
  <2> QED
    BY <1>1, Recursion
<1>3. f[0] = 1 /\ \A i \in 1..30 : f[i] = 2 * f[i - 1]
  BY <1>2 DEF Steps
<1>4. IsShift(f)
  BY <1>3
<1>5. shift = CHOOSE g : IsShift(g)
  BY DEF shift
<1>6. IsShift(shift)
  <2> HIDE DEF IsShift
  <2> QED
    BY <1>4, <1>5
<1>7. shift = [i \in 0..30 |-> IF i = 0 THEN 1 ELSE 2 * shift[i - 1]]
  BY <1>6
<1>8. shift[0] = 1 /\ \A i \in 1..30 : shift[i] = 2 * shift[i - 1]
  BY <1>7
<1>9. \A i \in 0..30 : i \in {j \in 0..30 : shift[j] \in Nat \ {0}}
  <2> DEFINE S == {j \in 0..30 : shift[j] \in Nat \ {0}}
  <2>1. 0 \in S
    BY <1>8
  <2>2. \A i \in 0..29 : i \in S => i + 1 \in S
    <3> SUFFICES ASSUME NEW i \in 0..29, i \in S PROVE i + 1 \in S
      OBVIOUS
    <3>1. shift[i + 1] = 2 * shift[i] /\ i + 1 \in 0..30
      BY <1>8
    <3> QED
      BY <3>1
  <2> HIDE DEF S
  <2> QED
    BY <2>1, <2>2, IntervalInduction DEF S
<1> QED
  BY <1>7, <1>8, <1>9

\* A higher bit is at least twice as large.
LEMMA ShiftGrows ==
  ASSUME NEW i \in 0..30, NEW j \in 0..30, i < j
  PROVE  2 * shift[i] <= shift[j]
<1> DEFINE S == {m \in 0..(29 - i) : 2 * shift[i] <= shift[i + 1 + m]}
<1>1. 0 \in S
  BY Shift
<1>2. \A m \in 0..(29 - i - 1) : m \in S => m + 1 \in S
  <2> SUFFICES ASSUME NEW m \in 0..(29 - i - 1), m \in S PROVE m + 1 \in S
    OBVIOUS
  <2>1. i + 1 + (m + 1) \in 1..30 /\ i + 1 + m \in 0..30 /\ i \in 0..30
    OBVIOUS
  <2>2. shift[i + 1 + (m + 1)] = 2 * shift[i + 1 + m]
    BY <2>1, Shift
  <2>3. shift[i + 1 + m] \in Nat /\ shift[i] \in Nat
    BY <2>1, Shift
  <2> QED
    BY <2>1, <2>2, <2>3
<1>3. 29 - i \in Nat /\ j - i - 1 \in 0..(29 - i)
  OBVIOUS
<1> HIDE DEF S
<1>4. j - i - 1 \in S
  BY <1>1, <1>2, <1>3, IntervalInduction
<1> QED
  BY <1>4 DEF S

LEMMA Bits ==
  /\ \A p \in Bit : p \in Nat \ {0}
  /\ \A p \in Bit : p # 1 => \E h \in Bit : p = 2 * h
  /\ \A p, q \in Bit : p < q => 2 * p <= q
<1>1. \A p \in Bit : p \in Nat \ {0}
  BY Shift DEF Bit
<1>2. \A p \in Bit : p # 1 => \E h \in Bit : p = 2 * h
  <2> SUFFICES ASSUME NEW i \in 0..30, shift[i] # 1
               PROVE  \E h \in Bit : shift[i] = 2 * h
    BY DEF Bit
  <2>1. i \in 1..30 /\ i - 1 \in 0..30
    BY Shift
  <2>2. shift[i - 1] \in Bit
    BY <2>1 DEF Bit
  <2> QED
    BY <2>1, <2>2, Shift
<1>3. \A p, q \in Bit : p < q => 2 * p <= q
  <2> SUFFICES ASSUME NEW i \in 0..30, NEW j \in 0..30, shift[i] < shift[j]
               PROVE  2 * shift[i] <= shift[j]
    BY DEF Bit
  <2>1. shift[i] \in Nat \ {0} /\ shift[j] \in Nat \ {0}
    BY Shift
  <2>2. i # j
    BY <2>1
  <2>3. ~(j < i)
    BY <2>1, ShiftGrows
  <2> QED
    BY <2>2, <2>3, ShiftGrows
<1> QED
  BY <1>1, <1>2, <1>3

\* In the pool, twice a bit is a bit.
LEMMA TwiceBit ==
  ASSUME NEW p \in Bit, 2 * p <= Pool
  PROVE  2 * p \in Bit
<1>1. PICK i \in 0..30 : p = shift[i]
  BY DEF Bit
<1>2. PICK k \in 0..30 : Pool = shift[k]
  BY PowerAssumption DEF Bit
<1>3. p \in Nat \ {0}
  BY Bits
<1>4. i < k
  <2>1. i # k
    BY <1>1, <1>2, <1>3
  <2>2. ~(k < i)
    BY <1>1, <1>2, <1>3, ShiftGrows, PoolAssumption
  <2> QED
    BY <2>1, <2>2
<1>5. i + 1 \in 1..30 /\ shift[i + 1] = 2 * shift[i]
  BY <1>4, Shift
<1> QED
  BY <1>1, <1>5 DEF Bit

-----------------------------------------------------------------------------
(* Owners have their blocks to themselves. *)

(***************************************************************************)
(* The block looked for is larger than the size asked for: the highest bit *)
(* is doubled in any case (cmem.c lines 77-86).                            *)
(***************************************************************************)
LEMMA BlockSizeFits ==
  ASSUME NEW size \in Sizes
  PROVE  BlockSize(size) \in Nat /\ size < BlockSize(size)
<1>1. PICK p \in Bit : p <= size /\ size < 2 * p
  BY BitAssumption
<1> DEFINE top == CHOOSE q \in Bit : q <= size /\ size < 2 * q
<1>2. top \in Bit /\ size < 2 * top
  BY <1>1
<1>3. top \in Nat
  BY <1>2, Bits
<1>4. BlockSize(size) = 2 * top
  BY DEF BlockSize
<1> HIDE DEF top
<1> QED
  BY <1>2, <1>3, <1>4

\* At the start there is one free block and no owner.
LEMMA InitIInv == Init => IInv
BY PoolAssumption DEF Init, IInv, TypeOK, CallOK, OwnersSafe, Returned, NULL, Op

(***************************************************************************)
(* Splitting a free block puts the new beginning into no owner's block.    *)
(***************************************************************************)
LEMMA SplitKeeps == IInv /\ Split => IInv'
<1> SUFFICES ASSUME IInv, Split PROVE IInv'
  OBVIOUS
<1>1. PICK b \in starts, end \in Bound :
        /\ FirstFit(b) /\ Block(b, end) /\ end - b > call.n
        /\ starts' = starts \cup {b + (end - b) \div 2}
  BY DEF Split
<1> DEFINE m == b + (end - b) \div 2
<1>2. b \in starts \ used /\ b \in Nat /\ end \in Nat /\ call.n \in Nat
  BY <1>1, PoolAssumption DEF Bound, FirstFit, Fits, IInv, TypeOK
<1>3. (m \in Nat /\ b < m /\ m < end) \/ end - b = 1
  BY <1>1, <1>2 DEF Block
<1>4. end <= Pool
  BY <1>1, PoolAssumption DEF Bound, IInv, TypeOK
<1>5. m \in 0..(Pool - 1)
  BY <1>1, <1>2, <1>3, <1>4, PoolAssumption DEF Block
<1>6. UNCHANGED <<used, call, ptr, asked, owns, hit>>
  BY DEF Split, clientVars
<1>7. TypeOK'
  BY <1>1, <1>5, <1>6 DEF IInv, TypeOK
<1>8. CallOK' /\ (\A h \in owns : ptr[h] # NULL)'
  BY <1>1, <1>6 DEF IInv, CallOK, NULL
<1>9. ASSUME NEW h \in owns \ hit
      PROVE  m <= ptr[h] \/ ptr[h] + asked[h] <= m
  <2>1. h \in Holder /\ ptr[h] \in Nat /\ asked[h] \in Nat /\ ptr[h] \in starts
    BY <1>9 DEF IInv, TypeOK, OwnersSafe
  <2>2. ptr[h] # b
    BY <1>2, <1>9 DEF IInv, OwnersSafe
  <2>3. b <= ptr[h] \/ ptr[h] + asked[h] <= b
    BY <1>2, <1>9 DEF IInv, OwnersSafe
  <2>4. ptr[h] <= b \/ end <= ptr[h]
    BY <1>1, <2>1 DEF Block
  <2>5. CASE end - b = 1
    <3>1. (end - b) \div 2 = 0
      BY <2>5
    <3> QED
      BY <3>1, <2>1, <2>2, <2>3, <1>2
  <2>6. CASE end - b # 1
    <3> HIDE DEF m
    <3>1. m \in Nat /\ b < m /\ m < end
      BY <1>3, <2>6
    <3> QED
      BY <2>1, <2>2, <2>3, <2>4, <3>1, <1>2
  <2> QED
    BY <2>5, <2>6
<1>10. OwnersSafe'
  BY <1>1, <1>6, <1>9 DEF IInv, OwnersSafe
<1> QED
  BY <1>7, <1>8, <1>10 DEF IInv

(***************************************************************************)
(* A block that is taken was free, so it is not that of another owner, and *)
(* it is large enough.                                                     *)
(***************************************************************************)
LEMMA TakeKeeps == IInv /\ Take => IInv'
<1> SUFFICES ASSUME IInv, Take PROVE IInv'
  OBVIOUS
<1>1. PICK b \in starts :
        /\ FirstFit(b) /\ Block(b, b + call.n)
        /\ used' = used \cup {b}
        /\ ptr' = [ptr EXCEPT ![call.h] = b]
  BY DEF Take
<1>2. /\ call.op = "malloc"
      /\ asked' = [asked EXCEPT ![call.h] = call.size]
      /\ owns' = owns \cup {call.h}
      /\ call' = Returned
      /\ UNCHANGED <<starts, hit>>
  BY DEF Take
<1>3. b \in Nat /\ b < Pool /\ b \notin used
  BY <1>1, PoolAssumption DEF IInv, TypeOK, FirstFit, Fits
<1>4. /\ call.h \in Holder /\ call.h \notin owns
      /\ call.size \in Nat /\ call.n \in Nat /\ call.size <= call.n
  BY <1>2 DEF IInv, TypeOK, CallOK
<1>5. TypeOK'
  <2>1. call' \in [op : Op, h : Holder \cup {NULL}, n : Nat, size : Nat]
    BY <1>2 DEF Returned, Op
  <2>2. used' \subseteq starts' /\ ptr' \in [Holder -> 0..Pool]
    <3>1. b \in 0..Pool
      BY <1>3, PoolAssumption
    <3> QED
      BY <1>1, <1>2, <3>1 DEF IInv, TypeOK
  <2>3. asked' \in [Holder -> Nat] /\ owns' \subseteq Holder
    BY <1>2, <1>4 DEF IInv, TypeOK
  <2>4. starts' \subseteq 0..(Pool - 1) /\ hit' \subseteq owns'
    BY <1>2 DEF IInv, TypeOK
  <2> QED
    BY <2>1, <2>2, <2>3, <2>4 DEF TypeOK, Op, NULL
<1>6. CallOK'
  BY <1>2 DEF CallOK, Returned
<1>7. (\A h \in owns : ptr[h] # NULL)'
  BY <1>1, <1>2, <1>3, <1>4, PoolAssumption DEF IInv, TypeOK, NULL
<1>8. OwnersSafe'
  <2> SUFFICES ASSUME NEW h \in owns' \ hit'
               PROVE  /\ ptr'[h] \in used' /\ ptr'[h] + asked'[h] <= Pool
                      /\ \A s \in starts : s <= ptr'[h] \/ ptr'[h] + asked'[h] <= s
                      /\ \A g \in owns' \ hit' : ptr'[g] = ptr'[h] => g = h
    BY <1>2 DEF OwnersSafe
  <2>1. CASE h = call.h
    <3>1. ptr'[h] = b /\ asked'[h] = call.size
      BY <1>1, <1>2, <1>4, <2>1 DEF IInv, TypeOK
    <3>2. \A g \in owns \ hit : ptr'[g] = ptr[g] /\ ptr[g] # b
      BY <1>1, <1>3, <1>4 DEF IInv, TypeOK, OwnersSafe
    <3>3. \A s \in starts : s \in Nat /\ (s <= b \/ b + call.n <= s)
      BY <1>1 DEF Block, Bound, IInv, TypeOK
    <3>4. b + call.n <= Pool
      BY <1>1, PoolAssumption DEF Block, Bound, IInv, TypeOK
    <3>5. /\ b + call.size <= Pool
          /\ \A s \in starts : s <= b \/ b + call.size <= s
      BY <1>3, <1>4, <3>3, <3>4, PoolAssumption
    <3> QED
      BY <1>1, <1>2, <2>1, <3>1, <3>2, <3>5
  <2>2. CASE h # call.h
    <3>1. h \in owns \ hit /\ ptr'[h] = ptr[h] /\ asked'[h] = asked[h]
      BY <1>1, <1>2, <2>2 DEF IInv, TypeOK
    <3>2. ptr[h] \in used /\ ptr[h] # b
      BY <1>3, <3>1 DEF IInv, OwnersSafe
    <3>3. ASSUME NEW g \in owns' \ hit', ptr'[g] = ptr'[h]
          PROVE  g = h
      <4>1. CASE g = call.h
        BY <1>1, <1>4, <3>1, <3>2, <3>3, <4>1 DEF IInv, TypeOK
      <4>2. CASE g # call.h
        BY <1>1, <1>2, <3>1, <3>3, <4>2 DEF IInv, TypeOK, OwnersSafe
      <4> QED
        BY <4>1, <4>2
    <3> QED
      BY <1>1, <3>1, <3>2, <3>3 DEF IInv, OwnersSafe
  <2> QED
    BY <2>1, <2>2
<1> QED
  BY <1>5, <1>6, <1>7, <1>8 DEF IInv

(***************************************************************************)
(* What a free takes away from another owner is recorded in hit.           *)
(***************************************************************************)
LEMMA FreesKeeps ==
  ASSUME NEW h \in Holder, IInv, Idle, Frees(h),
         NEW p \in {ptr[h], NULL}, ptr' = [ptr EXCEPT ![h] = p]
  PROVE  IInv'
<1>1. /\ owns' = owns \ {h}
      /\ UNCHANGED <<starts, asked>>
      /\ ptr' \in [Holder -> 0..Pool]
      /\ \A k \in Holder \ {h} : ptr'[k] = ptr[k]
  BY PoolAssumption DEF Frees, IInv, TypeOK, NULL
<1>2. ASSUME NEW k \in owns' \ hit'
      PROVE  k \in owns \ hit /\ k # h /\ ptr[k] \in used'
  BY <1>1, <1>2 DEF Frees, IInv, TypeOK, OwnersSafe
<1>3. TypeOK'
  <2>1. call' \in [op : Op, h : Holder \cup {NULL}, n : Nat, size : Nat]
    <3>1. ptr[h] \in Nat
      BY PoolAssumption DEF IInv, TypeOK
    <3> QED
      BY <3>1 DEF Frees, IInv, TypeOK, Op
  <2>2. used' \subseteq starts' /\ hit' \subseteq owns'
    BY <1>1 DEF Frees, IInv, TypeOK
  <2> QED
    BY <1>1, <2>1, <2>2 DEF IInv, TypeOK
<1>4. CallOK'
  BY <1>1 DEF Frees, IInv, TypeOK, CallOK, Idle, Returned
<1>5. (\A k \in owns : ptr[k] # NULL)'
  BY <1>1 DEF IInv, TypeOK, NULL
<1>6. OwnersSafe'
  BY <1>1, <1>2 DEF IInv, TypeOK, OwnersSafe
<1> QED
  BY <1>3, <1>4, <1>5, <1>6 DEF IInv

\* Merging takes beginnings of free blocks away only.
LEMMA MergeKeeps == IInv /\ Merge => IInv'
<1> SUFFICES ASSUME IInv, Merge PROVE IInv'
  OBVIOUS
<1>1. PICK c \in starts :
        /\ Mergeable(c)
        /\ IF c > call.n
             THEN starts' = starts \ {c} /\ UNCHANGED call
             ELSE starts' = starts \ {call.n} /\ call' = [call EXCEPT !.n = c]
  BY DEF Merge
<1>2. /\ c \notin used /\ c # call.n /\ c \in Nat
      /\ call.op = "free" /\ call.n \in starts \ used
      /\ UNCHANGED <<used, ptr, asked, owns, hit>>
  BY <1>1 DEF Merge, Mergeable, Twin, clientVars, IInv, TypeOK, CallOK
<1>3. used \subseteq starts' /\ starts' \subseteq starts
  BY <1>1, <1>2 DEF IInv, TypeOK
<1>4. TypeOK' /\ CallOK'
  BY <1>1, <1>2, <1>3 DEF IInv, TypeOK, CallOK
<1>5. OwnersSafe' /\ (\A h \in owns : ptr[h] # NULL)'
  BY <1>2, <1>3 DEF IInv, TypeOK, OwnersSafe, NULL
<1> QED
  BY <1>4, <1>5 DEF IInv

\* Every step keeps the inductive invariant.
LEMMA NextIInv == IInv /\ [Next]_vars => IInv'
<1> SUFFICES ASSUME IInv, [Next]_vars PROVE IInv'
  OBVIOUS
<1>1. ASSUME NEW h \in Holder, NEW size \in Sizes, Malloc(h, size) PROVE IInv'
  <2>1. BlockSize(size) \in Nat /\ size < BlockSize(size) /\ size \in Nat
    BY BlockSizeFits, SizesAssumption
  <2>2. h \notin owns
    BY <1>1 DEF Malloc, IInv
  <2> QED
    BY <1>1, <2>1, <2>2
    DEF Malloc, clientVars, IInv, TypeOK, CallOK, OwnersSafe, NULL, Op
<1>2. ASSUME NEW h \in Holder, Free(h) PROVE IInv'
  <2>1. PICK p \in {ptr[h], NULL} : ptr' = [ptr EXCEPT ![h] = p]
    BY <1>2 DEF Free, IInv, TypeOK
  <2> QED
    BY <1>2, <2>1, FreesKeeps DEF Free
<1>3. ASSUME NEW h \in Holder, FreeAgain(h) PROVE IInv'
  <2>1. PICK p \in {ptr[h], NULL} : ptr' = [ptr EXCEPT ![h] = p]
    BY <1>3 DEF FreeAgain
  <2> QED
    BY <1>3, <2>1, FreesKeeps DEF FreeAgain
<1>4. ASSUME NEW h \in Holder, Answered(h) PROVE IInv'
  BY <1>4, PoolAssumption
  DEF Answered, IInv, TypeOK, CallOK, OwnersSafe, NULL, Op
<1>5. CASE NoMemory
  BY <1>5 DEF NoMemory, clientVars, Returned, IInv, TypeOK, CallOK, OwnersSafe,
              NULL, Op
<1>6. CASE FreeReturns
  BY <1>6 DEF FreeReturns, clientVars, Returned, IInv, TypeOK, CallOK,
              OwnersSafe, NULL, Op
<1>7. CASE UNCHANGED vars
  BY <1>7 DEF vars, clientVars, IInv, TypeOK, CallOK, OwnersSafe, NULL
<1> QED
  BY <1>1, <1>2, <1>3, <1>4, <1>5, <1>6, <1>7, SplitKeeps, TakeKeeps, MergeKeeps
  DEF Next, Client, Library

-----------------------------------------------------------------------------
(* The pool is a buddy system: the sizes of the blocks that begin in S. *)

BlockIn(S, b, end) ==
  /\ b \in S /\ end \in S \cup {Pool} /\ b < end
  /\ \A s \in S : s <= b \/ end <= s
Sized(S, b, k) == BlockIn(S, b, b + k)
Sound(S) == \A b \in S : \E k \in Bit : Sized(S, b, k) /\ b % k = 0

\* b and c are the two halves of a block.
Twins(S, b, c) ==
  \E k \in Bit : c = b + k /\ Sized(S, b, k) /\ Sized(S, c, k) /\ b % (2 * k) = 0
FreeTwins(b, c) == b \in starts \ used /\ c \in starts \ used /\ Twins(starts, b, c)

(***************************************************************************)
(* In the middle of a call there may be free twins: the halves of what     *)
(* cmem_malloc has just split up, of which it will take one, and the block *)
(* that cmem_free has set free with the one it will merge it with.         *)
(***************************************************************************)
BuddyInv ==
  /\ Sound(starts)
  /\ call.op = "none" => \A b, c \in starts : ~FreeTwins(b, c)
  /\ call.op = "malloc" =>
       /\ \E p \in Bit : call.n = 2 * p
       /\ \A b, c \in starts : FreeTwins(b, c) => FirstFit(b)
  /\ call.op = "free" =>
       \A b, c \in starts : FreeTwins(b, c) => call.n \in {b, c}

Places == SUBSET (0..(Pool - 1))

LEMMA BlockUnique ==
  ASSUME NEW S \in Places, NEW b, NEW c, NEW d, BlockIn(S, b, c), BlockIn(S, b, d)
  PROVE  c = d
BY PoolAssumption DEF Places, BlockIn

LEMMA SizedUnique ==
  ASSUME NEW S \in Places, NEW b, NEW j \in Bit, NEW k \in Bit,
         Sized(S, b, j), Sized(S, b, k)
  PROVE  j = k
<1>1. b + j = b + k
  BY BlockUnique DEF Sized
<1>2. b \in Nat /\ j \in Nat /\ k \in Nat
  BY Bits, PoolAssumption DEF Sized, BlockIn, Places
<1> QED
  BY <1>1, <1>2

\* What a size is: Size of the state is the size in starts.
SizeIn(S, b) == (CHOOSE end \in S \cup {Pool} : BlockIn(S, b, end)) - b
LEMMA SizeIs ==
  ASSUME NEW S \in Places, NEW b, NEW k \in Bit, Sized(S, b, k)
  PROVE  SizeIn(S, b) = k
<1>1. b \in Nat /\ k \in Nat
  BY Bits, PoolAssumption DEF Sized, BlockIn, Places
<1>2. b + k \in S \cup {Pool} /\ BlockIn(S, b, b + k)
  BY DEF Sized, BlockIn
<1> DEFINE e == CHOOSE end \in S \cup {Pool} : BlockIn(S, b, end)
<1>3. BlockIn(S, b, e)
  BY <1>2
<1>4. e = b + k
  BY <1>2, <1>3, BlockUnique
<1>5. SizeIn(S, b) = e - b
  BY DEF SizeIn
<1> HIDE DEF e
<1> QED
  BY <1>1, <1>4, <1>5

LEMMA SizeOfState ==
  /\ \A b : Size(b) = SizeIn(starts, b)
  /\ (\A b : Size(b) = SizeIn(starts, b))'
  /\ \A b, end : Block(b, end) <=> BlockIn(starts, b, end)
BY DEF Size, SizeIn, Bound, Block, BlockIn

LEMMA SoundSizes ==
  ASSUME NEW S \in Places, Sound(S), NEW b \in S
  PROVE  /\ SizeIn(S, b) \in Bit /\ Sized(S, b, SizeIn(S, b)) /\ b % SizeIn(S, b) = 0
         /\ \A k \in Bit : Sized(S, b, k) => k = SizeIn(S, b)
<1>1. PICK k \in Bit : Sized(S, b, k) /\ b % k = 0
  BY DEF Sound
<1>2. SizeIn(S, b) = k
  BY <1>1, SizeIs
<1> QED
  BY <1>1, <1>2, SizeIs

-----------------------------------------------------------------------------
(* Multiples of a size and of its double. *)

LEMMA Quotient ==
  ASSUME NEW b \in Nat, NEW k \in Nat \ {0}, b % k = 0
  PROVE  \E q \in Nat : b = q * k
OBVIOUS

LEMMA Multiple ==
  ASSUME NEW q \in Nat, NEW k \in Nat \ {0}
  PROVE  (q * k) % k = 0
OBVIOUS

\* A multiple of 2 * k, and what lies k behind it.
LEMMA EvenMultiple ==
  ASSUME NEW b \in Nat, NEW k \in Nat \ {0}, b % (2 * k) = 0
  PROVE  b % k = 0 /\ (b + k) % k = 0 /\ (b + k) % (2 * k) # 0
<1>1. PICK q \in Nat : b = q * (2 * k)
  <2> DEFINE d == 2 * k
  <2>1. d \in Nat \ {0} /\ b % d = 0
    OBVIOUS
  <2> HIDE DEF d
  <2>2. \E q \in Nat : b = q * d
    BY <2>1, Quotient
  <2> QED
    BY <2>2 DEF d
<1>2. b = (2 * q) * k /\ b + k = (2 * q + 1) * k
  BY <1>1
<1>3. b % k = 0 /\ (b + k) % k = 0
  <2>1. 2 * q \in Nat /\ 2 * q + 1 \in Nat
    OBVIOUS
  <2> QED
    BY <1>2, <2>1, Multiple
<1>4. ASSUME (b + k) % (2 * k) = 0 PROVE FALSE
  <2> DEFINE d == 2 * k
  <2>1. d \in Nat \ {0} /\ (b + k) % d = 0 /\ b + k \in Nat
    BY <1>4
  <2> HIDE DEF d
  <2>2. PICK r \in Nat : b + k = r * d
    BY <2>1, Quotient
  <2>3. (2 * q + 1) * k = (2 * r) * k
    BY <1>2, <2>2 DEF d
  <2>4. 2 * q + 1 = 2 * r
    BY <2>3
  <2> QED
    BY <2>4
<1> QED
  BY <1>3, <1>4

LEMMA OddMultiple ==
  ASSUME NEW b \in Nat, NEW k \in Nat \ {0}, b % k = 0, b % (2 * k) # 0
  PROVE  b - k \in Nat /\ (b - k) % (2 * k) = 0
<1>1. PICK q \in Nat : b = q * k
  BY Quotient
<1>2. PICK r \in Nat : q = 2 * r \/ q = 2 * r + 1
  <2>1. q \div 2 \in Nat /\ (q = 2 * (q \div 2) \/ q = 2 * (q \div 2) + 1)
    OBVIOUS
  <2> QED
    BY <2>1
<1>3. (r * (2 * k)) % (2 * k) = 0
  <2>1. 2 * k \in Nat \ {0}
    OBVIOUS
  <2> QED
    BY <2>1, Multiple
<1>4. q # 2 * r
  BY <1>1, <1>3
<1>5. b = (2 * r + 1) * k
  BY <1>1, <1>2, <1>4
<1>6. b - k = r * (2 * k)
  BY <1>5
<1> QED
  BY <1>3, <1>6

-----------------------------------------------------------------------------
(* Splitting a block and merging two. *)

\* Where blocks begin when the one at b has been split up into two of size k, and
\* when two of size k have been merged.
Halved(S, b, k) == S \cup {b + k}
Joined(S, b, k) == S \ {b + k}

LEMMA SplitBlock ==
  ASSUME NEW S \in Places, Sound(S), NEW b \in S, NEW h \in Bit,
         Sized(S, b, 2 * h), b % (2 * h) = 0, NEW T, T = Halved(S, b, h)
  PROVE  /\ T \in Places /\ Sound(T)
         /\ Sized(T, b, h) /\ Sized(T, b + h, h)
         /\ \A a \in T : a \in {b, b + h} \/ (a \in S \ {b} /\ SizeIn(T, a) = SizeIn(S, a))
         /\ \A x, c \in T : Twins(T, x, c) => x = b \/ (x # b /\ c # b /\ Twins(S, x, c))
<1> DEFINE m == b + h
<1> T = S \cup {m}
  BY DEF Halved
<1>1. b \in Nat /\ h \in Nat \ {0} /\ m \in Nat
  BY Bits, PoolAssumption DEF Places
<1>2. /\ b + 2 * h \in S \cup {Pool}
      /\ \A s \in S : s <= b \/ b + 2 * h <= s
  BY DEF Sized, BlockIn
<1>3. \A s \in S : s \in Nat /\ s < Pool
  BY PoolAssumption DEF Places
<1>4. b + 2 * h <= Pool
  BY <1>2, <1>3, PoolAssumption
<1>5. m \in 0..(Pool - 1) /\ m \notin S
  <2>1. b < m /\ m < b + 2 * h /\ m < Pool
    BY <1>1, <1>4, PoolAssumption
  <2> HIDE DEF m
  <2> QED
    BY <1>1, <1>2, <2>1, PoolAssumption
<1>6. T \in Places
  BY <1>5 DEF Places
<1>7. Sized(T, b, h)
  BY <1>1, <1>2, <1>3 DEF Sized, BlockIn
<1>8. Sized(T, m, h)
  <2>1. m + h = b + 2 * h
    BY <1>1
  <2>2. \A s \in T : s <= m \/ b + 2 * h <= s
    <3>1. \A s \in S : s <= m \/ b + 2 * h <= s
      BY <1>1, <1>2, <1>3
    <3>2. m <= m
      BY <1>1
    <3> HIDE DEF m
    <3> QED
      BY <3>1, <3>2
  <2>3. m \in T /\ b + 2 * h \in T \cup {Pool} /\ m < b + 2 * h
    BY <1>1, <1>2
  <2> QED
    BY <2>1, <2>2, <2>3 DEF Sized, BlockIn
<1>9. ASSUME NEW a \in S \ {b}, NEW k \in Bit, Sized(S, a, k)
      PROVE  Sized(T, a, k)
  <2>1. /\ a \in Nat /\ k \in Nat \ {0} /\ a + k \in S \cup {Pool}
        /\ \A s \in S : s <= a \/ a + k <= s
    BY <1>3, <1>9, Bits DEF Sized, BlockIn
  <2>2. b <= a \/ a + k <= b
    BY <2>1
  <2>3. a <= b \/ b + 2 * h <= a
    BY <1>2
  <2>4. m <= a \/ a + k <= m
    BY <1>1, <2>1, <2>2, <2>3
  <2> HIDE DEF m
  <2>5. \A s \in T : s <= a \/ a + k <= s
    BY <2>1, <2>4 DEF m
  <2> QED
    BY <2>1, <2>5 DEF Sized, BlockIn
<1>10. b % h = 0 /\ m % h = 0 /\ m % (2 * h) # 0
  BY <1>1, EvenMultiple
<1>11. Sound(T)
  <2> SUFFICES ASSUME NEW a \in T
               PROVE  \E k \in Bit : Sized(T, a, k) /\ a % k = 0
    BY DEF Sound
  <2>1. CASE a \in {b, m}
    BY <2>1, <1>7, <1>8, <1>10
  <2>2. CASE a \notin {b, m}
    <3>1. a \in S \ {b}
      BY <2>2
    <3>2. PICK k \in Bit : Sized(S, a, k) /\ a % k = 0
      BY <3>1 DEF Sound
    <3> QED
      BY <3>1, <3>2, <1>9
  <2> QED
    BY <2>1, <2>2
<1>12. ASSUME NEW a \in T, a \notin {b, m}
       PROVE  a \in S \ {b} /\ SizeIn(T, a) = SizeIn(S, a)
  <2>1. a \in S \ {b}
    BY <1>12
  <2>2. SizeIn(S, a) \in Bit /\ Sized(S, a, SizeIn(S, a))
    BY <2>1, SoundSizes
  <2> QED
    BY <2>1, <2>2, <1>6, <1>9, SizeIs
<1>13. ASSUME NEW x \in T, NEW c \in T, Twins(T, x, c), x # b
       PROVE  c # b /\ Twins(S, x, c)
  <2>1. PICK k \in Bit : /\ c = x + k /\ Sized(T, x, k) /\ Sized(T, c, k)
                         /\ x % (2 * k) = 0
    BY <1>13 DEF Twins
  <2>2. x \in Nat /\ k \in Nat \ {0}
    BY <1>6, Bits, PoolAssumption DEF Places
  <2>3. x # m
    <3>1. x = m => k = h
      BY <1>6, <1>8, <2>1, SizedUnique
    <3> QED
      BY <3>1, <2>1, <1>10
  <2>4. c # b
    <3>1. c = b => k = h
      BY <1>6, <1>7, <2>1, SizedUnique
    <3>2. c = b => b % (2 * h) # 0
      BY <3>1, <2>1, <2>2, EvenMultiple
    <3> QED
      BY <3>2
  <2>5. c # m
    <3>1. c = m => k = h
      BY <1>6, <1>8, <2>1, SizedUnique
    <3>2. c = m => x = b
      BY <3>1, <2>1, <2>2, <1>1
    <3> QED
      BY <3>2, <1>13
  <2>6. \A a \in T : a \notin {b, m} /\ Sized(T, a, k) => Sized(S, a, k)
    <3> SUFFICES ASSUME NEW a \in T, a \notin {b, m}, Sized(T, a, k)
                 PROVE  Sized(S, a, k)
      OBVIOUS
    <3>1. a \in S \ {b} /\ SizeIn(T, a) = SizeIn(S, a)
      BY <1>12
    <3>2. SizeIn(T, a) = k
      BY <1>6, SizeIs
    <3> QED
      BY <3>1, <3>2, SoundSizes
  <2>7. Sized(S, x, k) /\ Sized(S, c, k)
    BY <2>1, <2>3, <2>4, <2>5, <2>6, <1>13
  <2> QED
    BY <2>1, <2>4, <2>7 DEF Twins
<1> HIDE DEF m
<1> QED
  BY <1>6, <1>7, <1>8, <1>11, <1>12, <1>13 DEF m

LEMMA MergeBlocks ==
  ASSUME NEW S \in Places, Sound(S), NEW b \in S, NEW k \in Bit,
         Sized(S, b, k), Sized(S, b + k, k), b % (2 * k) = 0, NEW T, T = Joined(S, b, k)
  PROVE  /\ T \in Places /\ Sound(T)
         /\ \A x, c \in T : Twins(T, x, c) => b \in {x, c} \/ Twins(S, x, c)
<1> DEFINE m == b + k
<1> T = S \ {m}
  BY DEF Joined
<1>1. b \in Nat /\ k \in Nat \ {0} /\ m \in S /\ m \in Nat
  BY Bits, PoolAssumption DEF Places, Sized, BlockIn
<1>2. \A s \in S : s \in Nat /\ s < Pool
  BY PoolAssumption DEF Places
<1>3. /\ \A s \in S : s <= b \/ m <= s
      /\ \A s \in S : s <= m \/ m + k <= s
      /\ m + k \in S \cup {Pool}
  BY DEF Sized, BlockIn
<1>4. T \in Places
  BY DEF Places
<1>5. Sized(T, b, 2 * k)
  <2>1. b + 2 * k = m + k
    BY <1>1
  <2>2. b \in T /\ m + k \in T \cup {Pool} /\ b < m + k
    BY <1>1, <1>3, <1>2, PoolAssumption
  <2>3. \A s \in T : s <= b \/ m + k <= s
    BY <1>1, <1>2, <1>3
  <2> HIDE DEF m
  <2> QED
    BY <2>1, <2>2, <2>3 DEF Sized, BlockIn
<1>6. 2 * k \in Bit
  <2>1. b + 2 * k <= Pool
    BY <1>1, <1>2, <1>3, PoolAssumption
  <2>2. 2 * k <= Pool
    BY <1>1, <2>1, PoolAssumption
  <2> QED
    BY <2>2, TwiceBit
<1>7. ASSUME NEW a \in T \ {b}, NEW j \in Bit, Sized(S, a, j)
      PROVE  Sized(T, a, j)
  <2>1. /\ a \in Nat /\ j \in Nat \ {0} /\ a + j \in S \cup {Pool}
        /\ \A s \in S : s <= a \/ a + j <= s
    BY <1>2, <1>7, Bits DEF Sized, BlockIn
  <2>2. (b <= a \/ a + j <= b) /\ (a <= b \/ m <= a)
    BY <1>3, <2>1
  <2>3. a + j # m
    BY <1>1, <2>1, <2>2
  <2>4. a + j \in T \cup {Pool}
    BY <2>1, <2>3
  <2> QED
    BY <2>1, <2>4 DEF Sized, BlockIn
<1>8. Sound(T)
  <2> SUFFICES ASSUME NEW a \in T
               PROVE  \E j \in Bit : Sized(T, a, j) /\ a % j = 0
    BY DEF Sound
  <2>1. CASE a = b
    BY <2>1, <1>5, <1>6
  <2>2. CASE a # b
    <3>1. PICK j \in Bit : Sized(S, a, j) /\ a % j = 0
      BY <2>2 DEF Sound
    <3> QED
      BY <2>2, <3>1, <1>7
  <2> QED
    BY <2>1, <2>2
<1>9. ASSUME NEW x \in T, NEW c \in T, Twins(T, x, c), x # b, c # b
      PROVE  Twins(S, x, c)
  <2>1. PICK j \in Bit : /\ c = x + j /\ Sized(T, x, j) /\ Sized(T, c, j)
                         /\ x % (2 * j) = 0
    BY <1>9 DEF Twins
  <2>2. \A a \in T \ {b} : Sized(T, a, j) => Sized(S, a, j)
    <3> SUFFICES ASSUME NEW a \in T \ {b}, Sized(T, a, j) PROVE Sized(S, a, j)
      OBVIOUS
    <3>1. PICK i \in Bit : Sized(S, a, i)
      BY DEF Sound
    <3>2. Sized(T, a, i)
      BY <3>1, <1>7
    <3>3. i = j
      BY <3>2, <1>4, SizedUnique
    <3> QED
      BY <3>1, <3>3
  <2> QED
    BY <1>9, <2>1, <2>2 DEF Twins
<1> QED
  BY <1>4, <1>8, <1>9

-----------------------------------------------------------------------------
(* The steps keep the pool a buddy system. *)

LEMMA InitBuddies == Init => BuddyInv
<1> SUFFICES ASSUME Init PROVE BuddyInv
  OBVIOUS
<1>1. starts = {0} /\ call.op = "none"
  BY DEF Init, Returned
<1>2. Sized({0}, 0, Pool) /\ 0 % Pool = 0
  BY PoolAssumption DEF Sized, BlockIn
<1>3. Sound(starts)
  BY <1>1, <1>2, PowerAssumption DEF Sound
<1>4. \A b, c \in starts : ~FreeTwins(b, c)
  <2>1. \A b, c \in {0}, k \in Bit : c # b + k
    BY Bits
  <2> QED
    BY <1>1, <2>1 DEF FreeTwins, Twins
<1> QED
  BY <1>1, <1>3, <1>4 DEF BuddyInv

LEMMA BlockSizeIsBit ==
  ASSUME NEW size \in Sizes
  PROVE  \E p \in Bit : BlockSize(size) = 2 * p
<1>1. \E p \in Bit : p <= size /\ size < 2 * p
  BY BitAssumption
<1> QED
  BY <1>1 DEF BlockSize

\* The halves are still large enough, and the lower one is looked at first.
LEMMA SplitBuddies == TypeOK /\ BuddyInv /\ Split => BuddyInv'
<1> SUFFICES ASSUME TypeOK, BuddyInv, Split PROVE BuddyInv'
  OBVIOUS
<1>1. PICK b \in starts, end \in Bound :
        /\ FirstFit(b) /\ Block(b, end) /\ end - b > call.n
        /\ starts' = starts \cup {b + (end - b) \div 2}
  BY DEF Split
<1>2. call.op = "malloc" /\ UNCHANGED <<used, call>>
  BY DEF Split
<1> DEFINE S == starts
           T == starts'
           s == end - b
<1>3. S \in Places /\ Sound(S) /\ b \in Nat /\ end \in Nat
  BY <1>1, PoolAssumption DEF TypeOK, Places, BuddyInv, Bound
<1>4. s = SizeIn(S, b) /\ s \in Bit /\ Sized(S, b, s) /\ b % s = 0
  <2>1. Sized(S, b, SizeIn(S, b)) /\ SizeIn(S, b) \in Bit /\ b % SizeIn(S, b) = 0
    BY <1>3, SoundSizes
  <2>2. BlockIn(S, b, end)
    BY <1>1, SizeOfState
  <2>3. end = b + SizeIn(S, b)
    BY <1>3, <2>1, <2>2, BlockUnique DEF Sized
  <2>4. SizeIn(S, b) \in Nat
    BY <2>1, Bits
  <2>5. s = SizeIn(S, b)
    BY <1>3, <2>3, <2>4
  <2> QED
    BY <2>1, <2>5
<1>5. PICK p \in Bit : call.n = 2 * p
  BY <1>2 DEF BuddyInv
<1>6. s > call.n
  BY <1>1
<1> HIDE DEF s
<1>7. PICK h \in Bit : s = 2 * h /\ h >= call.n
  <2>1. s \in Nat /\ p \in Nat \ {0}
    BY <1>4, <1>5, Bits
  <2>2. s # 1
    BY <1>5, <1>6, <2>1
  <2>3. PICK h \in Bit : s = 2 * h
    BY <1>4, <2>2, Bits
  <2>4. h \in Nat /\ p < h
    BY <1>5, <1>6, <2>1, <2>3, Bits
  <2>5. 2 * p <= h
    BY <2>4, Bits
  <2> QED
    BY <1>5, <2>3, <2>4, <2>5
<1>8. T = Halved(S, b, h) /\ T = S \cup {b + h}
  <2>1. (end - b) \div 2 = h
    BY <1>7, Bits DEF s
  <2> QED
    BY <1>1, <2>1 DEF Halved
<1> HIDE DEF S, T
<1>9. /\ T \in Places /\ Sound(T)
      /\ Sized(T, b, h) /\ Sized(T, b + h, h)
      /\ \A a \in T : a \in {b, b + h} \/ (a \in S \ {b} /\ SizeIn(T, a) = SizeIn(S, a))
      /\ \A x, c \in T : Twins(T, x, c) => x = b \/ (x # b /\ c # b /\ Twins(S, x, c))
  <2>1. b \in S
    BY <1>1 DEF S
  <2>2. Sized(S, b, 2 * h) /\ b % (2 * h) = 0
    BY <1>4, <1>7
  <2> QED
    BY <1>3, <1>8, <2>1, <2>2, SplitBlock
<1>10. /\ b \in S \ used
       /\ \A c \in S \ used : SizeIn(S, c) >= call.n => b <= c
  BY <1>1, SizeOfState DEF FirstFit, Fits, S
<1>11. FirstFit(b)'
  <2>1. b \in T \ used' /\ SizeIn(T, b) >= call'.n
    <3>1. SizeIn(T, b) = h
      BY <1>9, SizeIs
    <3> QED
      BY <1>2, <1>7, <1>8, <1>10, <3>1
  <2>2. ASSUME NEW c \in T, c \notin used', SizeIn(T, c) >= call'.n
        PROVE  b <= c
    <3>1. CASE c \in {b, b + h}
      BY <3>1, <1>3, Bits
    <3>2. CASE c \notin {b, b + h}
      BY <3>2, <2>2, <1>2, <1>9, <1>10
    <3> QED
      BY <3>1, <3>2
  <2> QED
    BY <2>1, <2>2, SizeOfState DEF FirstFit, Fits, T
<1>12. ASSUME NEW x \in T, NEW c \in T, FreeTwins(x, c)' PROVE FirstFit(x)'
  <2>1. Twins(T, x, c) /\ x \notin used /\ c \notin used
    BY <1>2, <1>12 DEF FreeTwins, T
  <2>2. CASE x = b
    BY <2>2, <1>11
  <2>3. CASE x # b
    <3>1. Twins(S, x, c)
      BY <2>1, <2>3, <1>9
    <3>2. x \in S /\ c \in S
      BY <3>1 DEF Twins, Sized, BlockIn
    <3>3. FirstFit(x)
      BY <1>2, <2>1, <3>1, <3>2 DEF BuddyInv, FreeTwins, S
    <3>4. x <= b /\ b <= x
      BY <1>1, <3>2, <3>3 DEF FirstFit, Fits, S
    <3>5. x = b
      BY <3>2, <3>4, <1>3 DEF Places
    <3> QED
      BY <2>3, <3>5
  <2> QED
    BY <2>2, <2>3
<1> QED
  BY <1>2, <1>5, <1>9, <1>12 DEF BuddyInv, T

\* Of the two halves the lower one is used from now on.
LEMMA TakeBuddies == TypeOK /\ BuddyInv /\ Take => BuddyInv'
<1> SUFFICES ASSUME TypeOK, BuddyInv, Take PROVE BuddyInv'
  OBVIOUS
<1>1. PICK b \in starts : FirstFit(b) /\ used' = used \cup {b}
  BY DEF Take
<1>2. call.op = "malloc" /\ call'.op = "none" /\ starts' = starts
  BY DEF Take, Returned
<1>3. ASSUME NEW x \in starts, NEW c \in starts, FreeTwins(x, c)' PROVE FALSE
  <2>1. FreeTwins(x, c) /\ x # b
    BY <1>1, <1>2, <1>3 DEF FreeTwins
  <2>2. FirstFit(x)
    BY <1>2, <2>1 DEF BuddyInv
  <2>3. x <= b /\ b <= x
    BY <1>1, <2>2 DEF FirstFit
  <2> QED
    BY <2>1, <2>3, PoolAssumption DEF TypeOK
<1> QED
  BY <1>2, <1>3 DEF BuddyInv

\* The block that is set free may have a free twin, and is merged next.
LEMMA FreesBuddies ==
  ASSUME NEW h \in Holder, TypeOK, BuddyInv, Idle, Frees(h)
  PROVE  BuddyInv'
<1>1. call.op = "none" /\ starts' = starts
  BY DEF Idle, Returned, Frees
<1>2. CASE ptr[h] \in used
  <2>1. /\ used' = used \ {ptr[h]}
        /\ call' = [op |-> "free", h |-> NULL, n |-> ptr[h], size |-> 0]
    BY <1>2 DEF Frees
  <2>2. ASSUME NEW x \in starts, NEW c \in starts, FreeTwins(x, c)', ptr[h] \notin {x, c}
        PROVE  FreeTwins(x, c)
    BY <1>1, <2>1, <2>2 DEF FreeTwins
  <2> QED
    BY <1>1, <2>1, <2>2 DEF BuddyInv
<1>3. CASE ptr[h] \notin used
  BY <1>1, <1>3 DEF Frees, BuddyInv, FreeTwins
<1> QED
  BY <1>2, <1>3

\* What Twin finds in cmem_free is the other half.
LEMMA TwinIs ==
  ASSUME TypeOK, Sound(starts), NEW b \in starts, NEW c \in starts
  PROVE  Twin(b, c) <=> Twins(starts, b, c) \/ Twins(starts, c, b)
<1> DEFINE k == SizeIn(starts, b)
<1>0. starts \in Places
  BY DEF TypeOK, Places
<1>1. k \in Bit /\ Sized(starts, b, k) /\ b % k = 0 /\ k \in Nat \ {0}
  BY <1>0, SoundSizes, Bits
<1>2. b \in Nat /\ c \in Nat
  BY <1>0 DEF Places
<1>3. Sized(starts, c, SizeIn(starts, c))
  BY <1>0, SoundSizes
<1>4. Size(b) = k /\ Size(c) = SizeIn(starts, c)
  BY SizeOfState
<1>5. \A j \in Bit : /\ Sized(starts, b, j) => j = k
                     /\ Sized(starts, c, j) => j = SizeIn(starts, c)
  BY <1>0, SoundSizes
<1> HIDE DEF k
<1>6. ASSUME Twin(b, c) PROVE Twins(starts, b, c) \/ Twins(starts, c, b)
  <2>1. SizeIn(starts, c) = k
    BY <1>4, <1>6 DEF Twin
  <2>2. Sized(starts, c, k)
    BY <1>3, <2>1
  <2>3. CASE b % (2 * k) = 0
    <3>1. c = b + k
      BY <1>4, <1>6, <2>3 DEF Twin
    <3> QED
      BY <1>1, <2>2, <2>3, <3>1 DEF Twins
  <2>4. CASE b % (2 * k) # 0
    <3>1. c = b - k
      BY <1>4, <1>6, <2>4 DEF Twin
    <3>2. c % (2 * k) = 0
      BY <1>1, <1>2, <2>4, <3>1, OddMultiple
    <3>3. b = c + k
      BY <1>1, <1>2, <3>1
    <3> QED
      BY <1>1, <2>2, <3>2, <3>3 DEF Twins
  <2> QED
    BY <2>3, <2>4
<1>7. ASSUME Twins(starts, b, c) PROVE Twin(b, c)
  <2>1. c = b + k /\ SizeIn(starts, c) = k /\ b % (2 * k) = 0
    BY <1>5, <1>7 DEF Twins
  <2> QED
    BY <1>1, <1>2, <1>4, <2>1 DEF Twin
<1>8. ASSUME Twins(starts, c, b) PROVE Twin(b, c)
  <2>1. b = c + k /\ SizeIn(starts, c) = k /\ c % (2 * k) = 0
    BY <1>5, <1>8 DEF Twins
  <2>2. b % (2 * k) # 0
    BY <1>1, <1>2, <2>1, EvenMultiple
  <2>3. c = b - k /\ c # b
    BY <1>1, <1>2, <2>1
  <2> QED
    BY <1>4, <2>1, <2>2, <2>3 DEF Twin
<1> QED
  BY <1>6, <1>7, <1>8

\* Only the block that has been merged may have a free twin now.
LEMMA MergeBuddies == TypeOK /\ CallOK /\ BuddyInv /\ Merge => BuddyInv'
<1> SUFFICES ASSUME TypeOK, CallOK, BuddyInv, Merge PROVE BuddyInv'
  OBVIOUS
<1>1. PICK c \in starts :
        /\ Mergeable(c)
        /\ IF c > call.n
             THEN starts' = starts \ {c} /\ UNCHANGED call
             ELSE starts' = starts \ {call.n} /\ call' = [call EXCEPT !.n = c]
  BY DEF Merge
<1>2. call.op = "free" /\ call.n \in starts /\ UNCHANGED used
  BY DEF Merge, CallOK
<1>3. Sound(starts) /\ starts \in Places
  BY DEF BuddyInv, TypeOK, Places
<1>4. PICK b \in {call.n, c}, d \in {call.n, c} : Twins(starts, b, d)
  BY <1>1, <1>2, <1>3, TwinIs DEF Mergeable
<1>5. PICK k \in Bit : /\ d = b + k /\ Sized(starts, b, k) /\ Sized(starts, d, k)
                       /\ b % (2 * k) = 0
  BY <1>4 DEF Twins
<1>6. b \in Nat /\ d \in Nat /\ k \in Nat \ {0} /\ b \in starts
  BY <1>1, <1>2, <1>3, <1>5, Bits DEF Places
<1>7. b < d
  BY <1>5, <1>6
<1>8. starts' = starts \ {d} /\ call'.n = b /\ call'.op = "free"
  <2>1. {b, d} = {call.n, c}
    BY <1>4, <1>6, <1>7
  <2>2. CASE b = call.n /\ d = c
    BY <1>1, <1>2, <1>7, <2>2
  <2>3. CASE b = c /\ d = call.n
    <3>1. ~(c > call.n)
      BY <1>6, <1>7, <2>3
    <3> QED
      BY <1>1, <1>2, <2>3, <3>1 DEF TypeOK
  <2> QED
    BY <2>1, <1>4, <1>7, <2>2, <2>3
<1>9. /\ Sound(starts')
      /\ \A x, y \in starts' : Twins(starts', x, y) => b \in {x, y} \/ Twins(starts, x, y)
  <2>1. starts' = Joined(starts, b, k) /\ Sized(starts, b + k, k)
    BY <1>5, <1>8 DEF Joined
  <2> QED
    BY <1>3, <1>5, <1>6, <2>1, MergeBlocks
<1>10. ASSUME NEW x \in starts', NEW y \in starts', FreeTwins(x, y)'
       PROVE  b \in {x, y}
  <2>1. Twins(starts', x, y) /\ x \notin used /\ y \notin used
    BY <1>2, <1>10 DEF FreeTwins
  <2>2. CASE Twins(starts, x, y)
    <3>1. FreeTwins(x, y) /\ x \in starts /\ y \in starts
      BY <1>8, <2>1, <2>2 DEF FreeTwins
    <3>2. call.n \in {x, y}
      BY <1>2, <3>1 DEF BuddyInv
    <3>3. d \notin {x, y}
      BY <1>8
    <3> QED
      BY <1>4, <1>7, <3>2, <3>3, <1>1, <1>8
  <2> QED
    BY <1>9, <2>1, <2>2
<1> QED
  BY <1>8, <1>9, <1>10 DEF BuddyInv

LEMMA NextBuddies == IInv /\ BuddyInv /\ [Next]_vars => BuddyInv'
<1> SUFFICES ASSUME IInv, BuddyInv, [Next]_vars PROVE BuddyInv'
  OBVIOUS
<1>0. TypeOK /\ CallOK
  BY DEF IInv
<1>1. ASSUME NEW h \in Holder, NEW size \in Sizes, Malloc(h, size) PROVE BuddyInv'
  <2>1. /\ call.op = "none" /\ call'.op = "malloc" /\ call'.n = BlockSize(size)
        /\ starts' = starts /\ used' = used
    BY <1>1 DEF Malloc, Idle, Returned
  <2>2. \A b, c \in starts : ~FreeTwins(b, c)'
    BY <2>1 DEF BuddyInv, FreeTwins
  <2>3. \E p \in Bit : call'.n = 2 * p
    BY <2>1, BlockSizeIsBit
  <2> QED
    BY <2>1, <2>2, <2>3 DEF BuddyInv
<1>2. ASSUME NEW h \in Holder, Free(h) \/ FreeAgain(h) PROVE BuddyInv'
  BY <1>0, <1>2, FreesBuddies DEF Free, FreeAgain
<1>3. ASSUME NEW h \in Holder, Answered(h) PROVE BuddyInv'
  <2>1. starts' = starts /\ used' = used /\ call' = call /\ call.op = "none"
    BY <1>3 DEF Answered, Idle, Returned
  <2> QED
    BY <2>1 DEF BuddyInv, FreeTwins
<1>4. CASE NoMemory
  <2>1. starts' = starts /\ used' = used /\ call'.op = "none" /\ call.op = "malloc"
    BY <1>4 DEF NoMemory, Returned
  <2>2. \A b, c \in starts : ~FreeTwins(b, c)
    BY <1>4, <2>1 DEF NoMemory, BuddyInv, FirstFit
  <2> QED
    BY <2>1, <2>2 DEF BuddyInv, FreeTwins
<1>5. CASE FreeReturns
  <2>1. starts' = starts /\ used' = used /\ call'.op = "none" /\ call.op = "free"
    BY <1>5 DEF FreeReturns, Returned
  <2>2. ASSUME NEW b \in starts, NEW c \in starts, FreeTwins(b, c) PROVE FALSE
    <3>1. call.n \in {b, c} /\ b \notin used /\ c \notin used /\ Twins(starts, b, c)
      BY <2>1, <2>2 DEF BuddyInv, FreeTwins
    <3>2. Twin(b, c) /\ Twin(c, b)
      BY <1>0, <3>1, TwinIs DEF BuddyInv
    <3> QED
      BY <1>5, <3>1, <3>2 DEF FreeReturns, Mergeable
  <2> QED
    BY <2>1, <2>2 DEF BuddyInv, FreeTwins
<1>6. CASE UNCHANGED vars
  <2>1. starts' = starts /\ used' = used /\ call' = call
    BY <1>6 DEF vars
  <2>2. (\A b : FirstFit(b) <=> FirstFit(b)')
    BY <2>1 DEF FirstFit, Fits, Size, Bound, Block
  <2> QED
    BY <2>1, <2>2 DEF BuddyInv, FreeTwins
<1> QED
  BY <1>0, <1>1, <1>2, <1>3, <1>4, <1>5, <1>6, SplitBuddies, TakeBuddies, MergeBuddies
  DEF Next, Client, Library

(***************************************************************************)
(* The allocator's table and its clients' pointers are well typed: a used  *)
(* block is in the table (cmem.c lines 106, 137).                          *)
(***************************************************************************)
THEOREM TypeCorrect == Spec => []TypeOK
<1>1. IInv => TypeOK
  BY DEF IInv
<1> QED
  BY <1>1, InitIInv, NextIInv, PTL DEF Spec

(***************************************************************************)
(* Whoever has got a block has it to himself until he gives it back, or a  *)
(* pointer that was freed before is freed again (SCP_Comm.c line 366).     *)
(***************************************************************************)
THEOREM OwnersCorrect == Spec => []OwnersSafe
<1>1. IInv => OwnersSafe
  BY DEF IInv
<1> QED
  BY <1>1, InitIInv, NextIInv, PTL DEF Spec

(***************************************************************************)
(* The pool stays a buddy system however often texts are freed twice: the  *)
(* sizes of blocks are powers of two that divide where they begin, and     *)
(* between two calls no free block has a free twin, which the merging of   *)
(* cmem_free (cmem.c lines 138-167) both relies on and brings about.       *)
(***************************************************************************)
THEOREM BuddyCorrect == Spec => []BuddySystem
<1>1. IInv /\ BuddyInv => BuddySystem
  <2> SUFFICES ASSUME IInv, BuddyInv PROVE BuddySystem
    OBVIOUS
  <2>0. TypeOK /\ Sound(starts) /\ starts \in Places
    BY DEF IInv, TypeOK, BuddyInv, Places
  <2>1. \A b \in starts : /\ Size(b) \in Bit /\ Sized(starts, b, Size(b))
                          /\ b % Size(b) = 0
    BY <2>0, SoundSizes, SizeOfState
  <2>2. ASSUME Idle, NEW b \in starts \ used, NEW c \in starts \ used,
               c = b + Size(b), Size(c) = Size(b), b % (2 * Size(b)) = 0
        PROVE  FALSE
    <3>1. Sized(starts, c, Size(b))
      BY <2>1, <2>2
    <3>2. FreeTwins(b, c)
      BY <2>1, <2>2, <3>1 DEF FreeTwins, Twins
    <3> QED
      BY <2>2, <3>2 DEF BuddyInv, Idle, Returned
  <2> QED
    BY <2>1, <2>2 DEF BuddySystem
<1>2. Init => IInv /\ BuddyInv
  BY InitIInv, InitBuddies
<1>3. IInv /\ BuddyInv /\ [Next]_vars => (IInv /\ BuddyInv)'
  BY NextIInv, NextBuddies
<1> QED
  BY <1>1, <1>2, <1>3, PTL DEF Spec
=============================================================================
