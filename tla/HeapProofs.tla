----------------------------- MODULE HeapProofs -----------------------------
(***************************************************************************)
(* Proofs about Heap, for every set of threads and every size of the heap  *)
(* and of its blocks.  With overlapping allocations the headers still tile *)
(* the used part of the heap and every address returned is that of a       *)
(* block; without them top stays inside the heap and the heap implements   *)
(* Allocator.                                                              *)
(***************************************************************************)
EXTENDS Heap, Recursion, TLAPS

USE DEF Goto, Forget

LEMMA TypeInit == Init => TypeOK
  BY DEF Init, TypeOK, Places

LEMMA TypeNext == TypeOK /\ [Next]_vars => TypeOK'
<1> SUFFICES ASSUME TypeOK, [Next]_vars
             PROVE  TypeOK'
  OBVIOUS
<1> USE BlockSizesAssumption, HeaderAssumption DEF TypeOK, Places
<1>1. ASSUME NEW t \in Threads, NewBlock(t)  PROVE  TypeOK'
  BY <1>1 DEF NewBlock
<1>2. ASSUME NEW t \in Threads, CheckSpace(t)  PROVE  TypeOK'
  BY <1>2 DEF CheckSpace
<1>3. ASSUME NEW t \in Threads, ReadAddress(t)  PROVE  TypeOK'
  BY <1>3 DEF ReadAddress
<1>4. ASSUME NEW t \in Threads, Commit(t)  PROVE  TypeOK'
  <2>1. want[t] \in BlockSizes /\ want[t] \in Nat
    BY <1>4 DEF Commit
  <2>2. top' \in Nat
    BY <1>4, <2>1 DEF Commit
  <2>3. headers' \subseteq [first : Nat, words : BlockSizes]
    BY <1>4, <2>1 DEF Commit
  <2>4. objects' \subseteq [owner : Threads, address : Nat, words : BlockSizes]
    BY <1>4, <2>1 DEF Commit
  <2>5. QED
    BY <1>4, <2>2, <2>3, <2>4 DEF Commit
<1>5. CASE UNCHANGED vars
  BY <1>5 DEF vars
<1>6. QED
  BY <1>1, <1>2, <1>3, <1>4, <1>5 DEF Next

(* The heap's variables keep their types; in particular a thread that is   *)
(* inside new_block always has a block size to allocate.                   *)
THEOREM TypeCorrect == Spec => []TypeOK
  BY TypeInit, TypeNext, PTL DEF Spec

-----------------------------------------------------------------------------
(* Header and top change in one locked step, so the tiling is inductive    *)
(* together with the types alone.                                          *)
TileInv == TypeOK /\ HeadersTile

LEMMA TileInit == Init => TileInv
  BY TypeInit DEF Init, TileInv, HeadersTile

LEMMA TileNext == TileInv /\ [Next]_vars => TileInv'
<1> SUFFICES ASSUME TileInv, [Next]_vars
             PROVE  HeadersTile'
  BY TypeNext DEF TileInv
<1>1. ASSUME NEW t \in Threads, Commit(t)
      PROVE  HeadersTile'
  <2> DEFINE new == [first |-> top, words |-> want[t]]
  <2>1. /\ headers' = headers \cup {new} /\ top' = top + want[t]
        /\ top \in Nat /\ want[t] \in Nat /\ want[t] > 0
        /\ new.first = top /\ new.words = want[t]
    BY <1>1, BlockSizesAssumption, HeaderAssumption DEF Commit, TileInv, TypeOK
  <2>2. \A h \in headers : h.first \in Nat /\ h.words \in Nat /\ h.first + h.words <= top
    BY BlockSizesAssumption DEF TileInv, TypeOK, HeadersTile
  <2> HIDE DEF new
  <2>3. \A a \in 0 .. (top' - 1) : \E h \in headers' : Covers(h, a)
    <3>1. SUFFICES ASSUME NEW a \in 0 .. (top' - 1)
                   PROVE  \E h \in headers' : Covers(h, a)
      OBVIOUS
    <3>2. CASE a < top
      BY <2>1, <3>2 DEF TileInv, HeadersTile
    <3>3. CASE a >= top
      BY <2>1, <3>3 DEF Covers
    <3>4. QED
      BY <2>1, <3>2, <3>3
  <2>4. \A h \in headers' : h.first >= 0 /\ h.first + h.words <= top'
    BY <2>1, <2>2
  <2>5. \A h, i \in headers' :
           h # i => h.first + h.words <= i.first \/ i.first + i.words <= h.first
    BY <2>1, <2>2 DEF TileInv, HeadersTile
  <2>6. QED
    BY <2>3, <2>4, <2>5 DEF HeadersTile
<1>2. ASSUME headers' = headers, top' = top
      PROVE  HeadersTile'
  BY <1>2 DEF TileInv, HeadersTile, Covers
<1>3. QED
  BY <1>1, <1>2 DEF Next, NewBlock, CheckSpace, ReadAddress, vars

(* The block headers tile the heap from 0 to top, so that a walk over the  *)
(* heap meets all of them, whatever allocations overlap.                   *)
THEOREM Tile == Spec => []HeadersTile
<1>1. TileInv => HeadersTile
  BY DEF TileInv
<1>2. QED
  BY <1>1, TileInit, TileNext, PTL DEF Spec

-----------------------------------------------------------------------------
(* A value of top that some thread has read is where a block starts, or    *)
(* where the next one will start: top itself.                              *)
Boundary(a) == a = top \/ \E h \in headers : h.first = a

AddressInv ==
  /\ TypeOK
  /\ AddressesAreBlocks
  /\ \A t \in Threads :
       /\ pc[t] = "address" => Boundary(seen[t])
       /\ pc[t] = "commit" => Boundary(address[t] - HeaderSize)

LEMMA AddressInit == Init => AddressInv
  BY TypeInit DEF Init, AddressInv, AddressesAreBlocks

LEMMA AddressNext == AddressInv /\ [Next]_vars => AddressInv'
<1> SUFFICES ASSUME AddressInv, [Next]_vars
             PROVE  AddressInv'
  OBVIOUS
<1>t. TypeOK /\ TypeOK'
  BY TypeNext DEF AddressInv
<1>1. ASSUME NEW t \in Threads, NewBlock(t)  PROVE  AddressInv'
  BY <1>t, <1>1 DEF NewBlock, AddressInv, AddressesAreBlocks, Boundary, TypeOK
<1>2. ASSUME NEW t \in Threads, CheckSpace(t)  PROVE  AddressInv'
  BY <1>t, <1>2 DEF CheckSpace, AddressInv, AddressesAreBlocks, Boundary, TypeOK
<1>3. ASSUME NEW t \in Threads, ReadAddress(t)  PROVE  AddressInv'
  <2>1. PICK base \in {top, seen[t]} : address' = [address EXCEPT ![t] = base + HeaderSize]
    BY <1>3 DEF ReadAddress
  <2>2. Boundary(base) /\ base + HeaderSize - HeaderSize = base
    BY <1>t, <1>3, HeaderAssumption DEF ReadAddress, AddressInv, Boundary, TypeOK
  <2>3. address'[t] - HeaderSize = base
    <3>1. address'[t] = base + HeaderSize /\ base \in Nat /\ HeaderSize \in Nat
      BY <1>t, <2>1, HeaderAssumption DEF TypeOK
    <3>2. QED
      BY <3>1
  <2>4. QED
    BY <1>t, <1>3, <2>1, <2>2, <2>3
    DEF ReadAddress, AddressInv, AddressesAreBlocks, Boundary, TypeOK
<1>4. ASSUME NEW t \in Threads, Commit(t)  PROVE  AddressInv'
  <2> DEFINE new == [first |-> top, words |-> want[t]]
  <2>1. /\ headers' = headers \cup {new} /\ new.first = top
        /\ \A u \in Threads \ {t} : pc'[u] = pc[u] /\ seen'[u] = seen[u] /\ address'[u] = address[u]
        /\ pc'[t] = "idle"
    BY <1>t, <1>4 DEF Commit, TypeOK
  <2> HIDE DEF new
  <2>2. \A a : Boundary(a) => \E h \in headers' : h.first = a
    BY <2>1 DEF Boundary
  <2>3. \E h \in headers' : address[t] = h.first + HeaderSize
    <3>1. Boundary(address[t] - HeaderSize) /\ address[t] \in Nat
      BY <1>t, <1>4 DEF Commit, AddressInv, TypeOK
    <3>2. PICK h \in headers' : h.first = address[t] - HeaderSize
      BY <2>2, <3>1
    <3>3. QED
      BY <3>1, <3>2, HeaderAssumption
  <2>4. AddressesAreBlocks'
    BY <1>4, <2>1, <2>3 DEF Commit, AddressInv, AddressesAreBlocks
  <2>5. QED
    BY <1>t, <2>1, <2>2, <2>4 DEF AddressInv, Boundary
<1>5. CASE UNCHANGED vars
  BY <1>t, <1>5 DEF vars, AddressInv, AddressesAreBlocks, Boundary
<1>6. QED
  BY <1>1, <1>2, <1>3, <1>4, <1>5 DEF Next

(* However many threads race on top, an address returned by new_block is   *)
(* the payload of a block whose header is in memory.                       *)
THEOREM Addresses == Spec => []AddressesAreBlocks
<1>1. AddressInv => AddressesAreBlocks
  BY DEF AddressInv
<1>2. QED
  BY <1>1, AddressInit, AddressNext, PTL DEF Spec

-----------------------------------------------------------------------------
(* Allocations that do not overlap: top does not move between the test of  *)
(* the free space and the commit, and every block belongs to one object.   *)
Fits(t) == top + want[t] <= Size

SerialInv ==
  /\ TileInv
  /\ NoOvercommit
  /\ \A t, u \in Threads :
       t # u => pc[t] \in {"idle", "thrown"} \/ pc[u] \in {"idle", "thrown"}
  /\ \A t \in Threads :
       /\ pc[t] = "address" => Fits(t) /\ seen[t] = top
       /\ pc[t] = "commit" => Fits(t) /\ address[t] = top + HeaderSize
  /\ \A o \in objects : [first |-> o.address - HeaderSize, words |-> o.words] \in headers
  /\ \A h \in headers :
       \E o \in objects : o.address - HeaderSize = h.first /\ o.words = h.words

LEMMA SerialInit == Init => SerialInv
  BY TileInit, SizeAssumption DEF Init, SerialInv, NoOvercommit

LEMMA SerialNext ==
  ASSUME ~ Overlapping, SerialInv, [Next]_vars
  PROVE  SerialInv'
<1>t. TypeOK /\ TileInv'
  BY TileNext DEF SerialInv, TileInv
<1> USE SizeAssumption, HeaderAssumption, BlockSizesAssumption
<1>1. ASSUME NEW t \in Threads, NewBlock(t)  PROVE  SerialInv'
  BY <1>t, <1>1 DEF NewBlock, SerialInv, TypeOK, NoOvercommit, Fits
<1>2. ASSUME NEW t \in Threads, CheckSpace(t)  PROVE  SerialInv'
  BY <1>t, <1>2 DEF CheckSpace, SerialInv, TypeOK, NoOvercommit, Fits, EnoughSpace
<1>3. ASSUME NEW t \in Threads, ReadAddress(t)  PROVE  SerialInv'
  BY <1>t, <1>3 DEF ReadAddress, SerialInv, TypeOK, NoOvercommit, Fits
<1>4. ASSUME NEW t \in Threads, Commit(t)  PROVE  SerialInv'
  <2> DEFINE new == [first |-> top, words |-> want[t]]
             object == [owner |-> t, address |-> address[t], words |-> want[t]]
  <2>1. /\ headers' = headers \cup {new} /\ objects' = objects \cup {object}
        /\ top' = top + want[t] /\ Fits(t)
        /\ object.address - HeaderSize = top /\ object.words = want[t]
        /\ new = [first |-> object.address - HeaderSize, words |-> object.words]
        /\ new.first = top /\ new.words = want[t]
    BY <1>t, <1>4 DEF Commit, SerialInv, TypeOK
  <2> HIDE DEF new, object
  <2>2. NoOvercommit'
    BY <2>1 DEF Fits, NoOvercommit
  <2>3. \A u \in Threads : pc'[u] \in {"idle", "thrown"}
    BY <1>t, <1>4 DEF Commit, SerialInv, TypeOK
  <2>4. \A o \in objects' : [first |-> o.address - HeaderSize, words |-> o.words] \in headers'
    BY <2>1 DEF SerialInv
  <2>5. \A h \in headers' :
          \E o \in objects' : o.address - HeaderSize = h.first /\ o.words = h.words
    BY <2>1 DEF SerialInv
  <2>6. QED
    BY <1>t, <2>2, <2>3, <2>4, <2>5 DEF SerialInv
<1>5. CASE UNCHANGED vars
  BY <1>t, <1>5 DEF vars, SerialInv, NoOvercommit, Fits
<1>6. QED
  BY <1>1, <1>2, <1>3, <1>4, <1>5 DEF Next

(* In a program whose allocations do not overlap, the test made outside    *)
(* the mutex is enough: top never passes the end of the heap.              *)
THEOREM Overcommit ==
  ASSUME ~ Overlapping
  PROVE  Spec => []NoOvercommit
<1>1. SerialInv => NoOvercommit
  BY DEF SerialInv
<1>2. SerialInv /\ [Next]_vars => SerialInv'
  BY SerialNext
<1>3. QED
  BY <1>1, <1>2, SerialInit, PTL DEF Spec

-----------------------------------------------------------------------------
(* Overlapping allocations: among the threads that passed the test of the  *)
(* free space and have not committed, the one that passed it last was let  *)
(* through by the top of its test; since then at most the others, which    *)
(* are no longer among them, have moved top.                               *)
LetThrough == {t \in Threads : pc[t] \in {"address", "commit"}}

Bound(largest) == Size + (Cardinality(Threads) - 1) * largest

OvercommitInv(largest) ==
  /\ TypeOK
  /\ top <= Bound(largest)
  /\ LetThrough # {} =>
       \E t \in LetThrough :
         top + want[t] + (Cardinality(LetThrough) - 1) * largest <= Bound(largest)

LEMMA Products ==
  ASSUME NEW n \in Nat, NEW L \in Nat
  PROVE  /\ n * L \in Nat
         /\ (n - 1) * L = n * L - L /\ (n - 1 - 1) * L = n * L - L - L
         /\ (n + 1 - 1) * L = n * L
         /\ \A m \in Nat : m <= n => m * L <= n * L
<1>1. \A m \in Nat : m <= n => m * L <= n * L
  <2> SUFFICES ASSUME NEW m \in Nat, m <= n  PROVE m * L <= n * L  OBVIOUS
  <2>1. PICK k \in Nat : n = m + k
    <3>1. n - m \in Nat /\ n = m + (n - m)  OBVIOUS
    <3>2. QED  BY <3>1
  <2>2. n * L = m * L + k * L  BY <2>1
  <2>3. k * L \in Nat /\ m * L \in Nat  OBVIOUS
  <2>4. QED  BY <2>2, <2>3
<1>2. QED  BY <1>1

LEMMA OvercommitInit ==
  ASSUME NEW largest \in Nat, IsFiniteSet(Threads), Threads # {}, Init
  PROVE  OvercommitInv(largest)
<1>1. Cardinality(Threads) \in Nat /\ Cardinality(Threads) # 0
  BY FS_CardinalityType, FS_EmptySet
<1>2. Bound(largest) \in Nat
  <2>1. Cardinality(Threads) - 1 \in Nat  BY <1>1
  <2>2. (Cardinality(Threads) - 1) * largest \in Nat  BY <2>1, Products
  <2>3. QED  BY <2>2, SizeAssumption DEF Bound
<1>3. LetThrough = {}  BY DEF LetThrough, Init
<1>4. QED  BY <1>2, <1>3, TypeInit DEF OvercommitInv, Init

LEMMA OvercommitNext ==
  ASSUME NEW largest \in BlockSizes, \A s \in BlockSizes : s <= largest,
         IsFiniteSet(Threads), OvercommitInv(largest), [Next]_vars
  PROVE  OvercommitInv(largest)'
<1> DEFINE N == Cardinality(Threads)
           n == Cardinality(LetThrough)
<1>t. TypeOK /\ TypeOK'
  BY TypeNext DEF OvercommitInv
<1>l. largest \in Nat  BY BlockSizesAssumption
<1>s. /\ LetThrough \subseteq Threads /\ LetThrough' \subseteq Threads
      /\ IsFiniteSet(LetThrough) /\ IsFiniteSet(LetThrough')
  BY FS_Subset DEF LetThrough
<1>n. /\ N \in Nat /\ n \in Nat /\ n' \in Nat /\ n <= N /\ n' <= N
      /\ Size \in Nat
  BY <1>s, FS_CardinalityType, FS_Subset, SizeAssumption
<1>w. \A t \in LetThrough : want[t] \in Nat /\ want[t] <= largest
  BY <1>t, BlockSizesAssumption DEF LetThrough, TypeOK
<1>1. ASSUME NEW t \in Threads, NewBlock(t)  PROVE  OvercommitInv(largest)'
  <2>1. LetThrough' = LetThrough  BY <1>t, <1>1 DEF NewBlock, LetThrough, TypeOK
  <2>2. \A u \in LetThrough : want'[u] = want[u]
    BY <1>t, <1>1 DEF NewBlock, LetThrough, TypeOK
  <2>3. top' = top  BY <1>1 DEF NewBlock
  <2>4. QED  BY <1>t, <2>1, <2>2, <2>3 DEF OvercommitInv, Bound
<1>2. ASSUME NEW t \in Threads, CheckSpace(t)  PROVE  OvercommitInv(largest)'
  <2>1. top' = top /\ want' = want /\ t \notin LetThrough
    BY <1>2 DEF CheckSpace, LetThrough
  <2>2. CASE EnoughSpace(t)
    <3>1. LetThrough' = LetThrough \cup {t}
      BY <1>t, <1>2, <2>2 DEF CheckSpace, LetThrough, TypeOK
    <3>2. top + want[t] <= Size /\ top + want[t] \in Nat
      BY <1>t, <2>2, BlockSizesAssumption DEF EnoughSpace, TypeOK
    <3>3. n' - 1 \in Nat /\ N - 1 \in Nat /\ n' - 1 <= N - 1
      BY <1>n, <1>s, <3>1, FS_EmptySet
    <3>4. (n' - 1) * largest <= (N - 1) * largest /\ (n' - 1) * largest \in Nat
           /\ (N - 1) * largest \in Nat
      BY <1>l, <3>3, Products
    <3> HIDE DEF n, N
    <3>5. top + want[t] + (n' - 1) * largest <= Size + (N - 1) * largest
      BY <1>n, <3>2, <3>4
    <3> USE DEF n, N
    <3>6. QED  BY <1>t, <2>1, <3>1, <3>5 DEF OvercommitInv, Bound
  <2>3. CASE ~ EnoughSpace(t)
    <3>1. LetThrough' = LetThrough
      BY <1>t, <1>2, <2>3 DEF CheckSpace, LetThrough, TypeOK
    <3>2. QED  BY <1>t, <2>1, <3>1 DEF OvercommitInv, Bound
  <2>4. QED  BY <2>2, <2>3
<1>3. ASSUME NEW t \in Threads, ReadAddress(t)  PROVE  OvercommitInv(largest)'
  <2>1. top' = top /\ want' = want /\ LetThrough' = LetThrough
    BY <1>t, <1>3 DEF ReadAddress, LetThrough, TypeOK
  <2>2. QED  BY <1>t, <2>1 DEF OvercommitInv, Bound
<1>4. ASSUME NEW t \in Threads, Commit(t)  PROVE  OvercommitInv(largest)'
  <2>1. /\ t \in LetThrough /\ LetThrough' = LetThrough \ {t}
        /\ \A u \in LetThrough' : want'[u] = want[u]
        /\ top' = top + want[t] /\ top \in Nat
    BY <1>t, <1>4 DEF Commit, LetThrough, TypeOK
  <2>2. n' = n - 1 /\ n # 0
    BY <1>s, <2>1, FS_RemoveElement, FS_EmptySet
  <2>3. PICK u \in LetThrough :
          top + want[u] + (n - 1) * largest <= Bound(largest)
    BY <2>1 DEF OvercommitInv
  <2> DEFINE rest == (n' - 1) * largest
             bound == Bound(largest)
  <2>4. bound \in Int
    <3>1. N - 1 \in Int  BY <1>n
    <3>2. (N - 1) * largest \in Int  BY <1>l, <3>1
    <3>3. QED  BY <1>n, <3>2 DEF Bound
  <2>5. n - 1 \in Nat /\ (n - 1) * largest = rest + largest /\ rest \in Int
        /\ (n - 1) * largest \in Nat
    <3>1. n - 1 \in Nat /\ n' - 1 = n - 1 - 1  BY <1>n, <2>2
    <3>2. rest = n * largest - largest - largest /\ (n - 1) * largest = n * largest - largest
           /\ n * largest \in Nat
      BY <1>n, <1>l, <3>1, Products
    <3>3. (n - 1) * largest \in Nat  BY <1>l, <3>1, Products
    <3> HIDE DEF rest
    <3>4. QED  BY <1>l, <3>1, <3>2, <3>3
  <2>b. bound' = bound  BY DEF Bound
  <2> HIDE DEF n, N, rest, bound
  <2>6. top + want[u] + rest + largest <= bound
    BY <1>l, <1>w, <2>1, <2>3, <2>4, <2>5 DEF bound
  <2>7. /\ want[u] \in Nat /\ want[u] <= largest
        /\ want[t] \in Nat /\ want[t] <= largest
    BY <1>w, <2>1
  <2>8. top' <= bound
    <3>1. CASE u = t  BY <1>l, <2>1, <2>3, <2>4, <2>5, <2>7, <3>1 DEF bound
    <3>2. CASE u # t
      <4>1. n' # 0  BY <1>s, <2>1, <3>2, FS_EmptySet DEF n
      <4>2. n' - 1 \in Nat  BY <1>n, <4>1 DEF n
      <4>3. rest \in Nat  BY <1>l, <4>2, Products DEF rest
      <4>4. QED  BY <1>l, <2>1, <2>4, <2>6, <2>7, <4>3
    <3>3. QED  BY <3>1, <3>2
  <2>9. ASSUME NEW v \in LetThrough', u = t \/ v = u
        PROVE  top' + want'[v] + rest <= bound
    <3>1. want[v] \in Nat /\ want[v] <= largest /\ want'[v] = want[v]
      BY <1>w, <2>1
    <3>2. CASE u = t  BY <1>l, <2>1, <2>4, <2>5, <2>6, <2>7, <3>1, <3>2
    <3>3. CASE v = u  BY <1>l, <2>1, <2>4, <2>5, <2>6, <2>7, <3>1, <3>3
    <3>4. QED  BY <2>9, <3>2, <3>3
  <2>10. LetThrough' # {} => \E v \in LetThrough' : top' + want'[v] + rest <= bound
    <3>1. CASE u = t  BY <2>9, <3>1
    <3>2. CASE u # t  BY <2>1, <2>9, <3>2
    <3>3. QED  BY <3>1, <3>2
  <2>11. QED
    BY <1>t, <2>8, <2>10, <2>b DEF OvercommitInv, Bound, n, rest, bound
<1>5. CASE UNCHANGED vars
  <2>1. LetThrough' = LetThrough  BY <1>5 DEF vars, LetThrough
  <2>2. QED  BY <1>t, <1>5, <2>1 DEF vars, OvercommitInv, Bound
<1>6. QED
  BY <1>1, <1>2, <1>3, <1>4, <1>5 DEF Next

(* However many goroutines allocate at once, top passes the end of the     *)
(* heap by at most one block for every goroutine but one, because each of  *)
(* them was let through by a test of its own.  A program has finitely many *)
(* goroutines, its first one among them, and finitely many sizes of blocks.*)
THEOREM OvercommitTheorem ==
  ASSUME IsFiniteSet(Threads), Threads # {},
         IsFiniteSet(BlockSizes), BlockSizes # {}
  PROVE  Spec => []OvercommitBounded
<1>1. PICK largest \in BlockSizes : \A s \in BlockSizes : s <= largest
  <2>1. BlockSizes \in SUBSET Nat  BY BlockSizesAssumption
  <2>2. QED  BY <2>1, GreatestMember
<1>2. largest \in Nat  BY BlockSizesAssumption
<1>3. Init => OvercommitInv(largest)  BY <1>2, OvercommitInit
<1>4. OvercommitInv(largest) /\ [Next]_vars => OvercommitInv(largest)'
  BY <1>1, OvercommitNext
<1>5. OvercommitInv(largest) => OvercommitBounded
  BY <1>1 DEF OvercommitInv, OvercommitBounded, Bound
<1>6. QED
  BY <1>3, <1>4, <1>5, PTL DEF Spec

-----------------------------------------------------------------------------
(* The blocks handed out, as Allocator sees them. *)
Block(o) == [owner |-> o.owner, first |-> o.address - HeaderSize, words |-> o.words]

Allocated == {Block(o) : o \in objects}

LEMMA AllocatorInit == Init => AbstractAllocator!Init
  BY DEF Init, Alive, AbstractAllocator!Init

(* What is above top is free, and it is the only place where there is room: *)
(* a block below top would contain a word some header covers.               *)
LEMMA FreeIffAboveTop ==
  ASSUME SerialInv, NEW first \in Nat, NEW words \in BlockSizes
  PROVE  AbstractAllocator!Free(first, words) <=> first >= top
<1>t. TypeOK /\ HeadersTile /\ words \in Nat /\ words > 0
  BY BlockSizesAssumption, HeaderAssumption DEF SerialInv, TileInv
<1>1. ASSUME first >= top
      PROVE  AbstractAllocator!Free(first, words)
  <2>1. SUFFICES ASSUME NEW b \in Allocated
                 PROVE  AbstractAllocator!Words(b.first, b.words)
                          \cap AbstractAllocator!Words(first, words) = {}
    BY DEF AbstractAllocator!Free, Allocated, Block
  <2>2. PICK h \in headers : b.first = h.first /\ b.words = h.words
    <3>1. PICK o \in objects : b = Block(o)
      BY DEF Allocated
    <3>2. b.first = o.address - HeaderSize /\ b.words = o.words
      BY <3>1 DEF Block
    <3>3. [first |-> o.address - HeaderSize, words |-> o.words] \in headers
      BY DEF SerialInv
    <3>4. QED
      BY <3>2, <3>3
  <2>3. b.first \in Nat /\ b.words \in Nat /\ b.first + b.words <= top
    BY <1>t, <2>2, BlockSizesAssumption DEF TypeOK, HeadersTile
  <2>4. QED
    BY <1>t, <1>1, <2>3 DEF AbstractAllocator!Words, TypeOK
<1>2. ASSUME first < top
      PROVE  ~ AbstractAllocator!Free(first, words)
  <2>1. PICK h \in headers : Covers(h, first)
    BY <1>t, <1>2 DEF HeadersTile, TypeOK
  <2>2. PICK o \in objects : o.address - HeaderSize = h.first /\ o.words = h.words
    BY DEF SerialInv
  <2>3. PICK b \in Allocated : b.first = h.first /\ b.words = h.words
    <3>1. Block(o) \in Allocated
      BY DEF Allocated
    <3>2. QED
      BY <2>2, <3>1 DEF Block
  <2>4. h.first \in Nat /\ h.words \in Nat
    BY <1>t, BlockSizesAssumption DEF TypeOK
  <2>5. first \in AbstractAllocator!Words(b.first, b.words)
                    \cap AbstractAllocator!Words(first, words)
    BY <1>t, <2>1, <2>3, <2>4 DEF Covers, AbstractAllocator!Words
  <2>6. QED
    BY <2>5 DEF AbstractAllocator!Free, Allocated, Block
<1>3. QED
  BY <1>1, <1>2, <1>t DEF TypeOK

LEMMA AllocatorStep ==
  ASSUME ~ Overlapping, SerialInv, [Next]_vars
  PROVE  [AbstractAllocator!Next]_AbstractAllocator!vars
<1>t. TypeOK
  BY DEF SerialInv, TileInv
<1>1. ASSUME NEW t \in Threads, NewBlock(t) \/ ReadAddress(t)
      PROVE  UNCHANGED AbstractAllocator!vars
  BY <1>t, <1>1 DEF NewBlock, ReadAddress, Alive, TypeOK, AbstractAllocator!vars
<1>2. ASSUME NEW t \in Threads, CheckSpace(t), EnoughSpace(t)
      PROVE  UNCHANGED AbstractAllocator!vars
  BY <1>t, <1>2 DEF CheckSpace, Alive, TypeOK, AbstractAllocator!vars
<1>3. ASSUME NEW t \in Threads, CheckSpace(t), ~ EnoughSpace(t),
             NEW words \in BlockSizes, words = want[t]
      PROVE  AbstractAllocator!Throw(words)
  <2>1. words \in Nat
    BY <1>t, <1>3, BlockSizesAssumption DEF CheckSpace, TypeOK
  <2>2. ASSUME NEW first \in 0 .. (Size - words)
        PROVE  ~ AbstractAllocator!Free(first, words)
    <3>1. first \in Nat /\ first < top
      BY <1>t, <1>3, <2>1, SizeAssumption DEF EnoughSpace, TypeOK
    <3>2. QED
      BY <1>t, <2>1, <3>1, FreeIffAboveTop DEF TypeOK
  <2>3. Alive /\ ~ Alive' /\ objects' = objects
    BY <1>t, <1>3 DEF CheckSpace, Alive, TypeOK
  <2>4. QED
    BY <2>2, <2>3 DEF AbstractAllocator!Throw
<1>4. ASSUME NEW t \in Threads, Commit(t),
             NEW words \in BlockSizes, words = want[t]
      PROVE  AbstractAllocator!Grant(t, words)
  <2>1. words \in Nat
    BY <1>t, <1>4, BlockSizesAssumption DEF Commit, TypeOK
  <2>2. top \in 0 .. (Size - words) /\ address[t] - HeaderSize = top
    BY <1>t, <1>4, <2>1, SizeAssumption, HeaderAssumption
    DEF Commit, SerialInv, Fits, TypeOK
  <2>3. AbstractAllocator!Free(top, words)
    BY <1>t, <2>1, FreeIffAboveTop DEF TypeOK
  <2>4. Allocated' = Allocated \cup {[owner |-> t, first |-> top, words |-> words]}
    <3> DEFINE object == [owner |-> t, address |-> address[t], words |-> want[t]]
    <3>1. objects' = objects \cup {object}
      BY <1>4 DEF Commit
    <3>2. Block(object) = [owner |-> t, first |-> top, words |-> words]
      BY <1>4, <2>2 DEF Block
    <3> HIDE DEF object
    <3>3. QED
      BY <3>1, <3>2 DEF Allocated
  <2>5. Alive /\ Alive'
    BY <1>t, <1>4 DEF Commit, Alive, TypeOK
  <2>6. QED
    BY <2>2, <2>3, <2>4, <2>5 DEF AbstractAllocator!Grant, Allocated, Block
<1>5. CASE UNCHANGED vars
  BY <1>5 DEF vars, Alive, AbstractAllocator!vars
<1>6. ASSUME NEW t \in Threads,
             NewBlock(t) \/ CheckSpace(t) \/ ReadAddress(t) \/ Commit(t)
      PROVE  [AbstractAllocator!Next]_AbstractAllocator!vars
  <2>2. CASE NewBlock(t) \/ ReadAddress(t)
    BY <1>1, <2>2
  <2>3. CASE CheckSpace(t)
    <3>1. PICK words \in BlockSizes : words = want[t]
      BY <1>t, <2>3 DEF CheckSpace, TypeOK
    <3>2. QED
      BY <1>2, <1>3, <2>3, <3>1 DEF AbstractAllocator!Next
  <2>4. CASE Commit(t)
    <3>1. PICK words \in BlockSizes : words = want[t]
      BY <1>t, <2>4 DEF Commit, TypeOK
    <3>2. QED
      BY <1>4, <2>4, <3>1 DEF AbstractAllocator!Next
  <2>5. QED
    BY <1>6, <2>2, <2>3, <2>4
<1>7. QED
  BY <1>5, <1>6 DEF Next

(* The bump allocator is an Allocator: blocks lie inside the heap and are   *)
(* disjoint, and "out of memory!" is thrown only when no gap would do.      *)
THEOREM Refinement ==
  ASSUME ~ Overlapping
  PROVE  Spec => ImplementsAllocator
<1>1. SerialInv /\ [Next]_vars => SerialInv'
  BY SerialNext
<1>2. SerialInv /\ [Next]_vars => [AbstractAllocator!Next]_AbstractAllocator!vars
  BY AllocatorStep
<1>3. QED
  BY <1>1, <1>2, SerialInit, AllocatorInit, PTL
  DEF Spec, ImplementsAllocator, AbstractAllocator!Spec
=============================================================================
