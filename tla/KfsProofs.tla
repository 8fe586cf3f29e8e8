------------------------------ MODULE KfsProofs ------------------------------
(***************************************************************************)
(* Proofs about Kfs.  The calls that sleep have fs_lock and are where they *)
(* positioned the disk, for any image.  The blocks of the files are where  *)
(* the inodes say if every file but the last ends inside a block, and then *)
(* the calls are the operations of Files: the invariant that shows it says *)
(* what byte of which file every byte of the disk is, in the middle of a   *)
(* write too.                                                              *)
(***************************************************************************)
EXTENDS Kfs, NaturalsInduction, WellFoundedInduction, TLAPS

-----------------------------------------------------------------------------
(* Arithmetic and induction *)

\* A set of natural numbers that is not empty has a least element.
LEMMA LeastNat ==
    ASSUME NEW T, T \subseteq Nat, T # {}
    PROVE  \E n \in T : \A i \in T : n <= i
  <1> DEFINE Rel == {ss \in Nat \X Nat : ss[1] < ss[2]}
  <1>1. IsWellFoundedOn(Rel, Nat)
    BY Zenon, NatLessThanWellFounded DEF OpToRel
  <1>2. PICK n \in T : \A i \in T : ~(<<i, n>> \in Rel)
    <2> HIDE DEF Rel
    <2> QED BY Zenon, <1>1, WFMin
  <1>3. ASSUME NEW i \in T, i < n PROVE FALSE
    <2>1. <<i, n>> \in Rel
      BY Zenon, <1>3
    <2> QED BY Zenon, <1>2, <2>1
  <1>4. n \in Nat /\ T \subseteq Nat
    BY Zenon
  <1> QED BY <1>3, <1>4

\* Induction over the files, for the set of numbers that are right.
LEMMA FileInduction ==
    ASSUME NEW n \in Nat, NEW Q, 0 \in Q,
           \A i \in 0..(n - 1) : i \in Q => i + 1 \in Q
    PROVE  \A i \in 0..n : i \in Q
  <1> SUFFICES ASSUME {i \in 0..n : i \notin Q} # {} PROVE FALSE
    BY Zenon
  <1> DEFINE T == {i \in 0..n : i \notin Q}
  <1>1. T \subseteq Nat /\ T # {}
    OBVIOUS
  <1>2. PICK i \in T : \A j \in T : i <= j
    <2> HIDE DEF T
    <2> QED BY Zenon, <1>1, LeastNat
  <1>3. i # 0 /\ i - 1 \in 0..(n - 1) /\ i - 1 \in Q
    BY <1>2
  <1> QED BY <1>2, <1>3

\* A number is its quotient and its remainder.
LEMMA DivMod ==
    ASSUME NEW a \in Nat, NEW P \in Nat \ {0}
    PROVE  /\ a \div P \in Nat /\ a % P \in 0..(P - 1)
           /\ a = P * (a \div P) + (a % P)
  BY Z3

\* They are known by that.
LEMMA DivUnique ==
    ASSUME NEW q \in Nat, NEW P \in Nat \ {0}, NEW d \in 0..(P - 1)
    PROVE  (q * P + d) \div P = q /\ (q * P + d) % P = d
  <1> DEFINE a == q * P + d
             e == (a \div P) - q
  <1>0. a \in Nat
    OBVIOUS
  <1>1. a \in Nat /\ a \div P \in Nat /\ a % P \in 0..(P - 1) /\ a = P * (a \div P) + (a % P)
    <2> HIDE DEF a
    <2> QED BY Zenon, <1>0, DivMod
  <1>2. e \in Int /\ P * e = d - (a % P)
    BY <1>1
  <1> HIDE DEF a, e
  <1>3. (e >= 1 => P * e >= P) /\ (e <= -1 => P * e <= -P)
    BY <1>2
  <1>4. e = 0
    BY <1>1, <1>2, <1>3
  <1>5. a % P = d /\ a \div P = q
    BY <1>1, <1>2, <1>4 DEF e
  <1> QED BY Zenon, <1>5 DEF a

-----------------------------------------------------------------------------
(* The image that mkfs builds *)

\* The files given to mkfs are sequences of bytes.
LEMMA ContentFacts ==
    /\ NFILES \in Nat /\ DOMAIN Content = 1..NFILES
    /\ \A i \in 1..NFILES :
         /\ Content[i] \in Seq(Byte) /\ Len(Content[i]) \in Nat
         /\ blocks_for_file(i) \in Nat \ {0}
  <1>1. /\ NFILES \in Nat /\ DOMAIN Content = 1..NFILES
        /\ \A i \in 1..NFILES : Content[i] \in Seq(Byte)
    BY KfsAssumption DEF NFILES
  <1>2. \A i \in 1..NFILES : Len(Content[i]) \in Nat
    BY <1>1
  <1>3. ASSUME NEW i \in 1..NFILES PROVE blocks_for_file(i) \in Nat \ {0}
    <2>1. Len(Content[i]) \div FS_BLKSZ \in Nat
      BY Zenon, <1>2, KfsAssumption, DivMod
    <2> QED BY <2>1 DEF blocks_for_file
  <1> QED BY Zenon, <1>1, <1>2, <1>3

\* The data blocks of file i are numbered from where those of the one before end.
LEMMA IdxRounds ==
    /\ data_block_idx[0] = 0
    /\ \A i \in 1..NFILES : data_block_idx[i] = data_block_idx[i - 1] + blocks_for_file(i)
  <1> DEFINE Round(x, i) == x + blocks_for_file(i)
             Is(f, n) == f = [i \in 0..n |-> IF i = 0 THEN 0 ELSE Round(f[i - 1], i)]
             Q == {n \in Nat : \E f : Is(f, n)}
  <1>1. NFILES \in Nat
    BY Zenon, ContentFacts
  <1>e. \A f : Is(f, NFILES) <=>
            f = [i \in 0..NFILES |-> IF i = 0 THEN 0 ELSE f[i - 1] + blocks_for_file(i)]
    BY Zenon
  <1> HIDE DEF Round
  <1>2. 0 \in Q
    <2> DEFINE f == [i \in 0..0 |-> 0]
    <2>1. Is(f, 0)
      OBVIOUS
    <2> QED BY Zenon, <2>1
  <1>3. ASSUME NEW n \in Nat, n \in Q PROVE n + 1 \in Q
    <2>1. PICK f : Is(f, n)
      BY Zenon, <1>3
    <2> DEFINE h == [i \in 0..(n + 1) |-> IF i = n + 1 THEN Round(f[n], n + 1) ELSE f[i]]
    <2>2. Is(h, n + 1)
      BY <2>1
    <2> HIDE DEF h
    <2> QED BY <2>2
  <1>4. NFILES \in Q
    <2> HIDE DEF Q
    <2> QED BY <1>1, <1>2, <1>3, FileInduction
  <1>5. data_block_idx = CHOOSE f : Is(f, NFILES)
    BY Zenon DEF data_block_idx, Round
  <1>6. Is(data_block_idx, NFILES)
    <2> HIDE DEF Is
    <2> QED BY Zenon, <1>4, <1>5
  <1>7. data_block_idx = [i \in 0..NFILES |->
                            IF i = 0 THEN 0 ELSE data_block_idx[i - 1] + blocks_for_file(i)]
    BY Zenon, <1>6 DEF Round
  <1> HIDE DEF Is
  <1> QED BY <1>1, <1>7

\* The data blocks of file i follow those of the one before.
LEMMA BlocksRounds ==
    /\ data_blocks[0] = <<>>
    /\ \A i \in 1..NFILES : data_blocks[i] = data_blocks[i - 1] \o mkfs_data(Content[i])
  <1> DEFINE Round(x, i) == x \o mkfs_data(Content[i])
             Is(f, n) == f = [i \in 0..n |-> IF i = 0 THEN <<>> ELSE Round(f[i - 1], i)]
             Q == {n \in Nat : \E f : Is(f, n)}
  <1>1. NFILES \in Nat
    BY Zenon, ContentFacts
  <1> HIDE DEF Round
  <1>2. 0 \in Q
    <2> DEFINE f == [i \in 0..0 |-> <<>>]
    <2>1. Is(f, 0)
      OBVIOUS
    <2> QED BY Zenon, <2>1
  <1>3. ASSUME NEW n \in Nat, n \in Q PROVE n + 1 \in Q
    <2>1. PICK f : Is(f, n)
      BY Zenon, <1>3
    <2> DEFINE h == [i \in 0..(n + 1) |-> IF i = n + 1 THEN Round(f[n], n + 1) ELSE f[i]]
    <2>2. Is(h, n + 1)
      BY <2>1
    <2> HIDE DEF h
    <2> QED BY <2>2
  <1>4. NFILES \in Q
    <2> HIDE DEF Q
    <2> QED BY <1>1, <1>2, <1>3, FileInduction
  <1>5. data_blocks = CHOOSE f : Is(f, NFILES)
    BY Zenon DEF data_blocks, Round
  <1>6. Is(data_blocks, NFILES)
    <2> HIDE DEF Is
    <2> QED BY Zenon, <1>4, <1>5
  <1>7. data_blocks = [i \in 0..NFILES |->
                         IF i = 0 THEN <<>> ELSE data_blocks[i - 1] \o mkfs_data(Content[i])]
    BY Zenon, <1>6 DEF Round
  <1> HIDE DEF Is
  <1> QED BY <1>1, <1>7

Data == [1..FS_BLKSZ -> Byte]
filled(i) == (Len(Content[i]) + FS_BLKSZ - 1) \div FS_BLKSZ

\* A file is written to the image in blocks of bytes, and byte i of it is byte
\* (i - 1) % FS_BLKSZ of block (i - 1) / FS_BLKSZ.
LEMMA DataFacts ==
    ASSUME NEW f \in 1..NFILES
    PROVE  /\ filled(f) \in Nat
           /\ mkfs_data(Content[f]) \in Seq(Data) /\ Len(mkfs_data(Content[f])) = filled(f)
           /\ \A i \in 1..Len(Content[f]) :
                /\ ((i - 1) \div FS_BLKSZ) + 1 \in 1..filled(f)
                /\ ((i - 1) % FS_BLKSZ) + 1 \in 1..FS_BLKSZ
                /\ mkfs_data(Content[f])[((i - 1) \div FS_BLKSZ) + 1][((i - 1) % FS_BLKSZ) + 1]
                     = Content[f][i]
  <1> DEFINE s == Content[f]
             B == FS_BLKSZ
             n == filled(f)
             at(b, j) == (b - 1) * B + j
  <1>1. /\ s \in Seq(Byte) /\ Len(s) \in Nat /\ DOMAIN s = 1..Len(s) /\ B \in Nat \ {0}
        /\ 0 \in Byte
    BY ContentFacts, KfsAssumption DEF Byte
  <1>2. n \in Nat /\ B * n >= Len(s) /\ B * n <= Len(s) + B - 1
    <2>1. Len(s) + B - 1 \in Nat
      BY <1>1
    <2> DEFINE q == (Len(s) + B - 1) \div B
               r == (Len(s) + B - 1) % B
    <2>2. q \in Nat /\ r \in 0..(B - 1) /\ Len(s) + B - 1 = B * q + r
      BY Zenon, <1>1, <2>1, DivMod
    <2>3. n = q
      BY Zenon DEF filled
    <2> HIDE DEF q, r, n
    <2>4. B * q \in Nat
      BY <1>1, <2>2
    <2> QED BY <1>1, <2>2, <2>3, <2>4
  <1>3. mkfs_data(s) = [b \in 1..n |-> [j \in 1..B |->
                          IF at(b, j) <= Len(s) THEN s[at(b, j)]
                          ELSE IF b > 1 THEN s[at(b - 1, j)] ELSE 0]]
    BY Zenon DEF mkfs_data, filled
  <1> HIDE DEF n, s
  <1>4. ASSUME NEW b \in 1..n, NEW j \in 1..B
        PROVE  /\ at(b, j) \in Nat \ {0}
               /\ b > 1 => at(b - 1, j) \in 1..Len(s)
    <2>1. (b - 1) * B \in Nat /\ at(b, j) \in Nat \ {0}
      BY <1>1, <1>2
    <2>2. ASSUME b > 1 PROVE at(b - 1, j) \in 1..Len(s)
      <3>1. (b - 2) * B \in Nat
        BY <1>1, <1>2, <2>2
      <3>2. (b - 2) * B <= (n - 2) * B
        BY <1>1, <1>2, <2>2
      <3>3. (n - 2) * B = B * n - 2 * B
        BY <1>1, <1>2
      <3>4. at(b - 1, j) = (b - 2) * B + j
        BY <1>1, <1>2
      <3> QED BY <1>1, <1>2, <3>1, <3>2, <3>3, <3>4
    <2> QED BY Zenon, <2>1, <2>2
  <1> HIDE DEF at
  <1>5. ASSUME NEW b \in 1..n
        PROVE  [j \in 1..B |-> IF at(b, j) <= Len(s) THEN s[at(b, j)]
                               ELSE IF b > 1 THEN s[at(b - 1, j)] ELSE 0] \in Data
    <2>1. ASSUME NEW j \in 1..B
          PROVE  (IF at(b, j) <= Len(s) THEN s[at(b, j)]
                  ELSE IF b > 1 THEN s[at(b - 1, j)] ELSE 0) \in Byte
      BY <1>1, <1>4
    <2> QED BY Zenon, <2>1 DEF Data
  <1>6. mkfs_data(s) \in Seq(Data) /\ Len(mkfs_data(s)) = n
    <2>1. mkfs_data(s) \in [1..n -> Data]
      BY Zenon, <1>3, <1>5
    <2> QED BY <1>2, <2>1
  <1>7. ASSUME NEW i \in 1..Len(s)
        PROVE  /\ ((i - 1) \div B) + 1 \in 1..n
               /\ ((i - 1) % B) + 1 \in 1..B
               /\ mkfs_data(s)[((i - 1) \div B) + 1][((i - 1) % B) + 1] = s[i]
    <2> DEFINE q == (i - 1) \div B
               r == (i - 1) % B
    <2>0. i - 1 \in Nat
      BY <1>1
    <2>1. q \in Nat /\ r \in 0..(B - 1) /\ i - 1 = B * q + r
      BY Zenon, <1>1, <2>0, DivMod
    <2> HIDE DEF q, r
    <2>2. q < n
      <3>1. B * q < B * n
        BY <1>1, <1>2, <2>1
      <3> QED BY <1>1, <1>2, <2>1, <3>1
    <2>3. at(q + 1, r + 1) = i
      BY <1>1, <2>1 DEF at
    <2>4. q + 1 \in 1..n /\ r + 1 \in 1..B
      BY <1>1, <1>2, <2>1, <2>2
    <2>5. mkfs_data(s)[q + 1][r + 1] = s[i]
      BY <1>1, <1>3, <2>3, <2>4
    <2> QED BY Zenon, <2>4, <2>5 DEF q, r
  <1> QED BY Zenon, <1>2, <1>6, <1>7 DEF n, s

\* u has the elements of s and then those of t.
Joined(u, s, t) ==
  /\ Len(s) \in Nat /\ Len(t) \in Nat /\ Len(u) = Len(s) + Len(t)
  /\ \A k \in 1..Len(s) : u[k] = s[k]
  /\ \A k \in 1..Len(t) : u[Len(s) + k] = t[k]

\* Where the elements of a concatenation come from.
LEMMA ConcatFacts ==
    ASSUME NEW S, NEW s \in Seq(S), NEW t \in Seq(S)
    PROVE  s \o t \in Seq(S) /\ Joined(s \o t, s, t)
  BY DEF Joined

\* The numbers of data blocks are natural numbers, and the image is a sequence
\* of blocks of bytes.
LEMMA AreaFacts ==
    /\ \A i \in 0..NFILES : data_block_idx[i] \in Nat
    /\ \A i \in 0..NFILES : data_blocks[i] \in Seq(Data)
  <1>1. NFILES \in Nat
    BY Zenon, ContentFacts
  <1>2. \A i \in 0..NFILES : data_block_idx[i] \in Nat
    <2> DEFINE Q == {i \in 0..NFILES : data_block_idx[i] \in Nat}
    <2>1. 0 \in Q
      BY <1>1, IdxRounds
    <2>2. ASSUME NEW i \in 0..(NFILES - 1), i \in Q PROVE i + 1 \in Q
      <3>1. i + 1 \in 1..NFILES /\ (i + 1) - 1 = i
        BY <1>1
      <3>2. data_block_idx[i + 1] = data_block_idx[i] + blocks_for_file(i + 1)
        BY Zenon, <3>1, IdxRounds
      <3>3. blocks_for_file(i + 1) \in Nat
        BY Zenon, <3>1, ContentFacts
      <3> QED BY <1>1, <2>2, <3>1, <3>2, <3>3
    <2> HIDE DEF Q
    <2>3. \A i \in 0..NFILES : i \in Q
      BY Zenon, <1>1, <2>1, <2>2, FileInduction
    <2> QED BY Zenon, <2>3 DEF Q
  <1>3. \A i \in 0..NFILES : data_blocks[i] \in Seq(Data)
    <2> DEFINE Q == {i \in 0..NFILES : data_blocks[i] \in Seq(Data)}
    <2>1. 0 \in Q
      <3>1. <<>> \in Seq(Data)
        OBVIOUS
      <3>2. 0 \in 0..NFILES
        BY <1>1
      <3>3. data_blocks[0] \in Seq(Data)
        BY Zenon, <3>1, BlocksRounds
      <3> QED BY Zenon, <3>2, <3>3
    <2>2. ASSUME NEW i \in 0..(NFILES - 1), i \in Q PROVE i + 1 \in Q
      <3>1. i + 1 \in 1..NFILES /\ (i + 1) - 1 = i
        BY <1>1
      <3>2. data_blocks[i + 1] = data_blocks[i] \o mkfs_data(Content[i + 1])
        BY Zenon, <3>1, BlocksRounds
      <3>3. mkfs_data(Content[i + 1]) \in Seq(Data)
        BY Zenon, <3>1, DataFacts
      <3>4. data_blocks[i] \in Seq(Data)
        BY Zenon, <2>2
      <3>5. data_blocks[i + 1] \in Seq(Data)
        BY <3>2, <3>3, <3>4
      <3> QED BY <3>1, <3>5
    <2> HIDE DEF Q
    <2>3. \A i \in 0..NFILES : i \in Q
      BY Zenon, <1>1, <2>1, <2>2, FileInduction
    <2> QED BY Zenon, <2>3 DEF Q
  <1> QED BY Zenon, <1>2, <1>3

Block == {mkfs_boot} \cup {mkfs_inode(i) : i \in 1..NFILES} \cup Data

\* What no call changes of the image: its size, the boot block, the inodes, and
\* that the other blocks hold bytes.
Image(d) ==
  /\ d \in Seq(Block) /\ Len(d) = Len(mkfs)
  /\ d[1] = mkfs_boot
  /\ \A i \in 1..NFILES : d[i + 1] = mkfs_inode(i)
  /\ \A k \in (NFILES + 2)..Len(mkfs) : d[k] \in Data

\* mkfs writes the boot block, the inodes and the data blocks, in this order.
LEMMA MkfsFacts ==
    /\ Image(mkfs)
    /\ Len(mkfs) = NFILES + 1 + Len(data_blocks[NFILES])
    /\ \A k \in 1..Len(data_blocks[NFILES]) : mkfs[NFILES + 1 + k] = data_blocks[NFILES][k]
  <1> DEFINE b == <<mkfs_boot>>
             n == [i \in 1..NFILES |-> mkfs_inode(i)]
             d == data_blocks[NFILES]
  <1>1. NFILES \in Nat /\ d \in Seq(Data) /\ Data \subseteq Block
    BY ContentFacts, AreaFacts DEF Block
  <1>2. b \in Seq(Block) /\ Len(b) = 1 /\ b[1] = mkfs_boot
    BY DEF Block
  <1>3. n \in Seq(Block) /\ Len(n) = NFILES /\ \A i \in 1..NFILES : n[i] = mkfs_inode(i)
    <2>1. n \in [1..NFILES -> Block]
      BY Zenon DEF Block
    <2> HIDE DEF n
    <2>2. n \in Seq(Block) /\ Len(n) = NFILES
      BY <1>1, <2>1
    <2> QED BY Zenon, <2>2 DEF n
  <1>4. d \in Seq(Block)
    BY <1>1
  <1>5. mkfs = (b \o n) \o d
    BY Zenon DEF mkfs
  <1> HIDE DEF b, n, d
  <1>6. /\ b \o n \in Seq(Block) /\ Len(b \o n) = 1 + NFILES
        /\ (b \o n)[1] = mkfs_boot
        /\ \A i \in 1..NFILES : (b \o n)[i + 1] = n[i]
    <2> DEFINE u == b \o n
    <2>1. u \in Seq(Block) /\ Joined(u, b, n)
      BY Zenon, <1>2, <1>3, ConcatFacts
    <2> HIDE DEF u
    <2>2. /\ u \in Seq(Block) /\ Len(u) = 1 + NFILES /\ u[1] = mkfs_boot
          /\ \A i \in 1..NFILES : u[i + 1] = n[i]
      BY <1>1, <1>2, <1>3, <2>1 DEF Joined
    <2> QED BY Zenon, <2>2 DEF u
  <1> DEFINE e == b \o n
  <1> HIDE DEF e
  <1>7. /\ e \o d \in Seq(Block) /\ Len(d) \in Nat /\ Len(e \o d) = NFILES + 1 + Len(d)
        /\ \A i \in 1..(NFILES + 1) : (e \o d)[i] = e[i]
        /\ \A k \in 1..Len(d) : (e \o d)[NFILES + 1 + k] = d[k]
    <2>1. e \in Seq(Block) /\ Len(e) = 1 + NFILES
      BY Zenon, <1>6 DEF e
    <2> DEFINE u == e \o d
    <2>2. u \in Seq(Block) /\ Joined(u, e, d)
      BY Zenon, <1>4, <2>1, ConcatFacts
    <2> HIDE DEF u
    <2>3. /\ u \in Seq(Block) /\ Len(d) \in Nat /\ Len(u) = NFILES + 1 + Len(d)
          /\ \A i \in 1..(NFILES + 1) : u[i] = e[i]
          /\ \A k \in 1..Len(d) : u[NFILES + 1 + k] = d[k]
      <3>1. NFILES \in Nat /\ 1 + NFILES = NFILES + 1
        BY ONLY <1>1
      <3>2. Len(d) \in Nat /\ Len(u) = NFILES + 1 + Len(d)
        BY Zenon, <2>1, <2>2, <3>1 DEF Joined
      <3>3. \A i \in 1..(NFILES + 1) : u[i] = e[i]
        BY Zenon, <2>1, <2>2, <3>1 DEF Joined
      <3>4. \A k \in 1..Len(d) : u[NFILES + 1 + k] = d[k]
        BY Zenon, <2>1, <2>2, <3>1 DEF Joined
      <3> QED BY Zenon, <2>2, <3>2, <3>3, <3>4
    <2> QED BY Zenon, <2>3 DEF u
  <1>8. mkfs[1] = mkfs_boot /\ \A i \in 1..NFILES : mkfs[i + 1] = mkfs_inode(i)
    BY <1>1, <1>3, <1>5, <1>6, <1>7 DEF e
  <1>9. ASSUME NEW k \in (NFILES + 2)..Len(mkfs) PROVE mkfs[k] \in Data
    <2>1. k - (NFILES + 1) \in 1..Len(d) /\ NFILES + 1 + (k - (NFILES + 1)) = k
      BY <1>1, <1>5, <1>7 DEF e
    <2>2. mkfs[k] = d[k - (NFILES + 1)]
      BY Zenon, <1>5, <1>7, <2>1 DEF e
    <2> QED BY <1>1, <2>1, <2>2
  <1>10. Image(mkfs)
    BY Zenon, <1>5, <1>7, <1>8, <1>9 DEF Image, e
  <1> QED BY Zenon, <1>5, <1>7, <1>10 DEF d, e

-----------------------------------------------------------------------------
(* The layout, when it is right *)

\* No file but the last fills its last block to the end: then mkfs writes as
\* many data blocks as it numbers.
PartlyFilled == \A i \in 1..(NFILES - 1) : Len(Content[i]) % FS_BLKSZ # 0

\* A file that does not fill its last block has one block more than it fills.
LEMMA FilledFacts ==
    ASSUME NEW i \in 1..NFILES
    PROVE  /\ Len(Content[i]) % FS_BLKSZ # 0 => filled(i) = blocks_for_file(i)
           /\ filled(i) <= blocks_for_file(i)
  <1> DEFINE L == Len(Content[i])
             B == FS_BLKSZ
             q == L \div B
             r == L % B
  <1>1. L \in Nat /\ B \in Nat \ {0}
    BY Zenon, ContentFacts, KfsAssumption
  <1>2. q \in Nat /\ r \in 0..(B - 1) /\ L = B * q + r
    BY Zenon, <1>1, DivMod
  <1>3. filled(i) = (L + B - 1) \div B /\ blocks_for_file(i) = q + 1
    BY Zenon DEF filled, blocks_for_file
  <1> HIDE DEF L, q, r
  <1>4. ASSUME r # 0 PROVE filled(i) = q + 1
    <2>1. L + B - 1 = (q + 1) * B + (r - 1) /\ r - 1 \in 0..(B - 1) /\ q + 1 \in Nat
      BY <1>1, <1>2, <1>4
    <2>2. ((q + 1) * B + (r - 1)) \div B = q + 1
      BY Zenon, <1>1, <2>1, DivUnique
    <2> QED BY Zenon, <1>3, <2>1, <2>2
  <1>5. ASSUME r = 0 PROVE filled(i) = q
    <2>1. L + B - 1 = q * B + (B - 1) /\ B - 1 \in 0..(B - 1)
      BY <1>1, <1>2, <1>5
    <2>2. (q * B + (B - 1)) \div B = q
      BY Zenon, <1>1, <1>2, <2>1, DivUnique
    <2> QED BY Zenon, <1>3, <2>1, <2>2
  <1> QED BY <1>2, <1>3, <1>4, <1>5 DEF r, L

\* When i files are written, the blocks of each of them are where they are
\* numbered.
Placed(i) ==
  /\ i < NFILES => Len(data_blocks[i]) = data_block_idx[i]
  /\ \A f \in 1..i : \A k \in 1..filled(f) :
       /\ data_block_idx[f - 1] + k \in 1..Len(data_blocks[i])
       /\ data_blocks[i][data_block_idx[f - 1] + k] = mkfs_data(Content[f])[k]

\* The blocks of every file are where its inode says.
LEMMA LayoutFacts ==
    ASSUME PartlyFilled
    PROVE  Placed(NFILES)
  <1>1. NFILES \in Nat
    BY Zenon, ContentFacts
  <1> DEFINE Q == {i \in 0..NFILES : Placed(i)}
  <1>2. 0 \in Q
    BY <1>1, IdxRounds, BlocksRounds DEF Placed
  <1>3. ASSUME NEW i \in 0..(NFILES - 1), i \in Q PROVE i + 1 \in Q
    <2> DEFINE old == data_blocks[i]
               new == mkfs_data(Content[i + 1])
               all == data_blocks[i + 1]
    <2>1. i \in 0..NFILES /\ i + 1 \in 1..NFILES /\ (i + 1) - 1 = i
      BY <1>1
    <2>2. all = old \o new /\ data_block_idx[i + 1] = data_block_idx[i] + blocks_for_file(i + 1)
      BY Zenon, <2>1, BlocksRounds, IdxRounds
    <2>3. /\ old \in Seq(Data) /\ new \in Seq(Data) /\ Len(new) = filled(i + 1) /\ Len(old) \in Nat
          /\ filled(i + 1) \in Nat
      BY <2>1, AreaFacts, DataFacts
    <2>4. Len(old) = data_block_idx[i]
      BY <1>1, <1>3 DEF Placed
    <2>5. i + 1 < NFILES => filled(i + 1) = blocks_for_file(i + 1)
      BY <1>1, <2>1, FilledFacts DEF PartlyFilled
    <2>6. ASSUME NEW f \in 1..i, NEW k \in 1..filled(f)
          PROVE  /\ data_block_idx[f - 1] + k \in 1..Len(old)
                 /\ old[data_block_idx[f - 1] + k] = mkfs_data(Content[f])[k]
      BY Zenon, <1>3 DEF Placed
    <2> HIDE DEF old, new, all
    <2>7. /\ Len(all) = Len(old) + Len(new)
          /\ \A k \in 1..Len(old) : all[k] = old[k]
          /\ \A k \in 1..Len(new) : all[Len(old) + k] = new[k]
      <3>1. Joined(all, old, new)
        BY Zenon, <2>2, <2>3, ConcatFacts
      <3> QED BY Zenon, <3>1 DEF Joined
    <2>8. i + 1 < NFILES => Len(all) = data_block_idx[i + 1]
      BY Zenon, <2>2, <2>3, <2>4, <2>5, <2>7
    <2>9. ASSUME NEW f \in 1..(i + 1), NEW k \in 1..filled(f)
          PROVE  /\ data_block_idx[f - 1] + k \in 1..Len(all)
                 /\ all[data_block_idx[f - 1] + k] = mkfs_data(Content[f])[k]
      <3>1. CASE f = i + 1
        <4>1. k \in 1..Len(new) /\ data_block_idx[f - 1] + k = Len(old) + k /\ k \in Nat
          BY <2>1, <2>3, <2>4, <3>1
        <4>2. all[Len(old) + k] = mkfs_data(Content[f])[k]
          BY Zenon, <2>7, <3>1, <4>1 DEF new
        <4> QED BY <2>3, <2>7, <4>1, <4>2
      <3>2. CASE f # i + 1
        <4>1. f \in 1..i
          BY <2>1, <3>2
        <4>2. /\ data_block_idx[f - 1] + k \in 1..Len(old)
              /\ old[data_block_idx[f - 1] + k] = mkfs_data(Content[f])[k]
          BY Zenon, <2>6, <4>1
        <4> QED BY <2>3, <2>7, <4>2
      <3> QED BY Zenon, <3>1, <3>2
    <2>10. Placed(i + 1)
      BY Zenon, <2>8, <2>9 DEF Placed, all
    <2> QED BY <2>1, <2>10
  <1> HIDE DEF Q
  <1>4. \A i \in 0..NFILES : i \in Q
    BY Zenon, <1>1, <1>2, <1>3, FileInduction
  <1> QED BY <1>1, <1>4 DEF Q

\* The numbers of the blocks of an earlier file are less than those of a later one.
LEMMA IdxGrows ==
    ASSUME NEW f \in 1..NFILES, NEW g \in 1..NFILES, f < g
    PROVE  data_block_idx[f - 1] + blocks_for_file(f) <= data_block_idx[g - 1]
  <1>1. NFILES \in Nat
    BY Zenon, ContentFacts
  <1> DEFINE Q == {i \in 0..NFILES : i >= f => data_block_idx[f] <= data_block_idx[i]}
  <1>2. 0 \in Q
    BY <1>1
  <1>3. ASSUME NEW i \in 0..(NFILES - 1), i \in Q PROVE i + 1 \in Q
    <2>1. i + 1 \in 1..NFILES /\ (i + 1) - 1 = i /\ i \in 0..NFILES /\ f \in 0..NFILES
      BY <1>1
    <2>2. /\ data_block_idx[i + 1] = data_block_idx[i] + blocks_for_file(i + 1)
          /\ blocks_for_file(i + 1) \in Nat
          /\ data_block_idx[i] \in Nat /\ data_block_idx[f] \in Nat
      BY Zenon, <2>1, IdxRounds, AreaFacts, ContentFacts
    <2>3. i + 1 = f \/ i >= f \/ i + 1 < f
      BY <2>1
    <2>4. i + 1 >= f => data_block_idx[f] <= data_block_idx[i + 1]
      BY <1>3, <2>1, <2>2, <2>3
    <2> QED BY <2>1, <2>4
  <1> HIDE DEF Q
  <1>4. \A i \in 0..NFILES : i \in Q
    BY Zenon, <1>1, <1>2, <1>3, FileInduction
  <1>5. g - 1 \in 0..NFILES /\ g - 1 >= f
    BY <1>1
  <1>6. data_block_idx[f] <= data_block_idx[g - 1]
    BY Zenon, <1>4, <1>5 DEF Q
  <1> QED BY Zenon, <1>6, IdxRounds

-----------------------------------------------------------------------------
(* The inductive invariant *)

FileRec == [flags : {0, 1}, file_position : Nat, file_size : Nat, inode_number : Nat]
CallRec == [op : {"idle", "open", "read", "write"}, file : Nat, at : {"user", "inode", "block"},
            file_pos : Nat, total : Nat, todo : Nat, buf : Seq(Byte)]

Types ==
  /\ Image(disk) /\ pos \in Nat /\ pos <= Len(mkfs) * FS_BLKSZ
  /\ file_structs \in [Slot -> FileRec]
  /\ fs_lock \in Process \cup {Nobody}
  /\ refs \in [Slot -> SUBSET Process]
  /\ call \in [Process -> CallRec]
  /\ files \in [1..NFILES -> Seq(Byte)]
  /\ \A f \in 1..NFILES : Len(files[f]) = Len(Content[f])
  /\ result.to \in Process \cup {Nobody}

NoBoot == [num_dentry |-> 0, num_inodes |-> 0]

\* Before fs_mount nothing is open and no call is made.
Boot ==
  \/ boot_block = mkfs_boot
  \/ /\ boot_block = NoBoot
     /\ \A s \in Slot : file_structs[s] = NoFile
     /\ \A p \in Process : call[p].at = "user"

\* A slot is in use iff a process holds it, and then its inode was found and its
\* size read, and its position is in the file.
OpenFile(f, holders) ==
  IF f.flags = 0 THEN holders = {}
  ELSE /\ holders # {} /\ f.inode_number < NFILES
       /\ f.file_size = Len(Content[f.inode_number + 1])
       /\ f.file_position <= f.file_size

\* How far the transfer c of the open file f is, and how far it will go.
Transfer(c, f) ==
  /\ f.flags = 1
  /\ c.file_pos = f.file_position + c.total
  /\ c.op = "read" =>
       /\ Len(c.buf) = c.total
       /\ \E n \in Asked : c.total + c.todo = Min2(n, f.file_size - f.file_position)
  /\ c.op = "write" =>
       /\ c.buf \in Written
       /\ c.total + c.todo = Min2(Len(c.buf), f.file_size - f.file_position)

\* A call that sleeps for a block has found it in the inode of its file.
AtBlock(c, f) ==
  /\ c.todo > 0
  /\ inode = mkfs_inode(f.inode_number + 1)
  /\ pos = data_block_offset(inode.data_block_num[(c.file_pos \div FS_BLKSZ) + 1])
             + (IF c.op = "write" THEN c.file_pos % FS_BLKSZ ELSE 0)
  /\ pos < Len(mkfs) * FS_BLKSZ

\* A call that sleeps has the lock.
InCall(p, c, f) ==
  /\ fs_lock = p /\ c.file \in Slot /\ f.inode_number < NFILES
  /\ c.at = "inode" => pos = inode_offset(f.inode_number) /\ c.total = 0
  /\ c.at = "block" => AtBlock(c, f) /\ c.op # "open"
  /\ c.op = "open" => f.flags = 0 /\ f.file_position = 0
  /\ c.op # "open" => Transfer(c, f) /\ p \in refs[c.file]

CallOf(p, c) ==
  /\ c.op = "idle" <=> c.at = "user"
  /\ c.at = "user" => fs_lock # p
  /\ c.at # "user" => InCall(p, c, file_structs[c.file])

IInv ==
  /\ Types /\ Boot
  /\ \A s \in Slot : OpenFile(file_structs[s], refs[s])
  /\ \A p \in Process : CallOf(p, call[p])

-----------------------------------------------------------------------------
(* Facts about states *)

\* The image has room for the boot block and the inodes.
LEMMA SizeFacts ==
    /\ FS_BLKSZ \in Nat \ {0} /\ NFILES \in Nat
    /\ Len(mkfs) \in Nat /\ Len(mkfs) >= NFILES + 1
  <1>1. data_blocks[NFILES] \in Seq(Data) /\ NFILES \in Nat
    BY ContentFacts, AreaFacts
  <1>2. Len(mkfs) \in Nat /\ Len(mkfs) >= NFILES + 1
    <2> DEFINE n == NFILES
               d == Len(data_blocks[NFILES])
    <2>1. n \in Nat /\ d \in Nat
      BY <1>1
    <2>2. Len(mkfs) = n + 1 + d
      BY Zenon, MkfsFacts
    <2> HIDE DEF n, d
    <2>3. Len(mkfs) \in Nat /\ Len(mkfs) >= n + 1
      BY ONLY <2>1, <2>2
    <2> QED BY Zenon, <2>3 DEF n
  <1>3. FS_BLKSZ \in Nat \ {0}
    BY Zenon, KfsAssumption
  <1> QED BY Zenon, <1>1, <1>2, <1>3

\* The end of the disk, in bytes.
LEMMA RoomFacts == Len(mkfs) * FS_BLKSZ \in Nat /\ 0 <= Len(mkfs) * FS_BLKSZ
  <1> DEFINE n == Len(mkfs)
  <1>1. n \in Nat /\ FS_BLKSZ \in Nat
    BY Zenon, SizeFacts
  <1> HIDE DEF n
  <1>2. n * FS_BLKSZ \in Nat /\ 0 <= n * FS_BLKSZ
    BY <1>1
  <1> QED BY Zenon, <1>2 DEF n

\* A quotient is not less than that of a smaller number.
LEMMA DivLess ==
    ASSUME NEW B \in Nat \ {0}, NEW a \in Nat, NEW q \in Nat,
           NEW r \in 0..(B - 1), NEW t \in 0..(B - 1), B * a + r < B * q + t
    PROVE  a <= q
  <1> SUFFICES ASSUME a >= q + 1 PROVE FALSE
    OBVIOUS
  <1>1. B * a >= B * (q + 1)
    OBVIOUS
  <1>2. B * (q + 1) = B * q + B /\ B * a \in Nat /\ B * q \in Nat
    OBVIOUS
  <1> QED BY <1>1, <1>2

\* A slot, a file and a call are records of their types.
LEMMA TypeFacts ==
    ASSUME Types
    PROVE  /\ \A s \in Slot : file_structs[s] \in FileRec /\ refs[s] \subseteq Process
           /\ \A p \in Process : call[p] \in CallRec
           /\ disk \in Seq(Block) /\ Len(disk) = Len(mkfs) /\ Len(mkfs) \in Nat
           /\ DOMAIN disk = 1..Len(mkfs) /\ FS_BLKSZ \in Nat \ {0} /\ NFILES \in Nat
           /\ Len(mkfs) >= NFILES + 1 /\ Nobody \notin Process
  <1>1. disk \in Seq(Block) /\ Len(disk) = Len(mkfs)
    BY Zenon DEF Types, Image
  <1>2. DOMAIN disk = 1..Len(mkfs)
    BY <1>1
  <1> QED BY Zenon, <1>1, <1>2, SizeFacts, KfsAssumption DEF Types

\* Only the process that has the lock is in a call.
LEMMA OneCaller ==
    ASSUME IInv, NEW p \in Process, call[p].at # "user"
    PROVE  /\ fs_lock = p /\ boot_block = mkfs_boot
           /\ \A q \in Process : q # p => call[q].at = "user" /\ call[q].op = "idle"
           /\ InCall(p, call[p], file_structs[call[p].file])
  BY Zenon DEF IInv, CallOf, InCall, Boot

\* Nobody is in a call while the lock is free.
LEMMA NoCaller ==
    ASSUME IInv, fs_lock = Nobody
    PROVE  \A q \in Process : call[q].at = "user" /\ call[q].op = "idle"
  BY Zenon, KfsAssumption DEF IInv, CallOf, InCall

\* A process that stays out of the file system.
LEMMA StaysOut ==
    ASSUME IInv, NEW q \in Process, call[q].at = "user", call'[q] = call[q], fs_lock' # q
    PROVE  CallOf(q, call[q])'
  BY Zenon DEF IInv, CallOf

\* A mounted file system has the boot block that mkfs wrote.
LEMMA MountedFacts ==
    ASSUME IInv, Mounted
    PROVE  /\ boot_block = mkfs_boot
           /\ boot_block.num_dentry = NFILES /\ boot_block.num_inodes = NFILES
  BY DEF IInv, Boot, NoBoot, Mounted, mkfs_boot

\* The inode of a file is in its place on the disk.
LEMMA InodeFacts ==
    ASSUME Image(disk), NEW n \in Nat, n < NFILES
    PROVE  /\ block_at(inode_offset(n)) = mkfs_inode(n + 1)
           /\ inode_offset(n) \in Nat /\ inode_offset(n) <= Len(mkfs) * FS_BLKSZ
           /\ disk[n + 2] = mkfs_inode(n + 1)
  <1> DEFINE B == FS_BLKSZ
  <1>1. B \in Nat \ {0} /\ NFILES \in Nat /\ n + 1 \in 1..NFILES
    BY KfsAssumption, ContentFacts
  <1>2. disk[(n + 1) + 1] = mkfs_inode(n + 1)
    BY Zenon, <1>1 DEF Image
  <1>3. inode_offset(n) = (n + 1) * B + 0 /\ 0 \in 0..(B - 1) /\ n + 1 \in Nat
    BY <1>1 DEF inode_offset
  <1>4. inode_offset(n) \div B = n + 1
    BY Zenon, <1>1, <1>3, DivUnique
  <1>5. Len(mkfs) \in Nat /\ n + 1 <= Len(mkfs)
    BY <1>1, SizeFacts
  <1>6. (n + 1) * B <= Len(mkfs) * B /\ (n + 1) * B \in Nat
    BY <1>1, <1>5
  <1>7. (n + 1) + 1 = n + 2
    OBVIOUS
  <1> QED BY <1>2, <1>3, <1>4, <1>6, <1>7 DEF block_at

\* What the number of a block of the file says of its place.
LEMMA NumberFacts ==
    ASSUME NEW f \in 1..NFILES, NEW at \in Nat, at < Len(Content[f])
    PROVE  /\ (at \div FS_BLKSZ) + 1 \in DOMAIN mkfs_inode(f).data_block_num
           /\ mkfs_inode(f).data_block_num[(at \div FS_BLKSZ) + 1]
                = data_block_idx[f - 1] + (at \div FS_BLKSZ)
           /\ data_block_idx[f - 1] \in Nat /\ at \div FS_BLKSZ \in Nat
           /\ at \div FS_BLKSZ < blocks_for_file(f)
  <1> DEFINE B == FS_BLKSZ
             L == Len(Content[f])
             a == at \div B
             q == L \div B
  <1>1. B \in Nat \ {0} /\ L \in Nat /\ f - 1 \in 0..NFILES
    BY KfsAssumption, ContentFacts
  <1>2. /\ a \in Nat /\ at % B \in 0..(B - 1) /\ at = B * a + (at % B)
        /\ q \in Nat /\ L % B \in 0..(B - 1) /\ L = B * q + (L % B)
    BY Zenon, <1>1, DivMod
  <1>3. data_block_idx[f - 1] \in Nat
    BY Zenon, <1>1, AreaFacts
  <1>4. a <= q
    <2> HIDE DEF a, q
    <2> QED BY Zenon, <1>1, <1>2, DivLess
  <1>5. blocks_for_file(f) = q + 1
    BY Zenon DEF blocks_for_file
  <1> HIDE DEF a, q
  <1>6. a + 1 \in 1..blocks_for_file(f) /\ a < blocks_for_file(f)
    BY <1>2, <1>4, <1>5
  <1>7. (a + 1) - 1 = a /\ data_block_idx[f - 1] + (a + 1) - 1 = data_block_idx[f - 1] + a
    BY <1>2, <1>3
  <1>8. /\ DOMAIN mkfs_inode(f).data_block_num = 1..blocks_for_file(f)
        /\ mkfs_inode(f).data_block_num[a + 1] = data_block_idx[f - 1] + (a + 1) - 1
    BY Zenon, <1>6 DEF mkfs_inode
  <1> QED BY Zenon, <1>2, <1>3, <1>6, <1>7, <1>8 DEF a

-----------------------------------------------------------------------------
(* Calls that do not sleep *)

\* A call that is refused, or has nothing to do, changes nothing.
LEMMA RefuseOK ==
    ASSUME IInv, NEW p \in Process, NEW r, r.to = p, Refuse(p, r)
    PROVE  IInv'
  <1>1. /\ UNCHANGED <<disk, pos, boot_block, file_structs, fs_lock, inode, call, refs, files>>
        /\ result' = r
    BY Zenon DEF Refuse
  <1>2. Types'
    BY Zenon, <1>1 DEF IInv, Types
  <1>3. Boot'
    BY Zenon, <1>1 DEF IInv, Boot
  <1>4. ASSUME NEW s \in Slot PROVE OpenFile(file_structs[s], refs[s])'
    BY Zenon, <1>1 DEF IInv
  <1>5. ASSUME NEW q \in Process PROVE CallOf(q, call[q])'
    <2>1. CallOf(q, call[q])
      BY Zenon DEF IInv
    <2> QED BY Zenon, <1>1, <2>1 DEF CallOf, InCall, AtBlock, data_block_offset
  <1> QED BY Zenon, <1>2, <1>3, <1>4, <1>5 DEF IInv

\* Another state of the file table, while the lock is free or of slots that no
\* call uses: it is enough that the slots are right and a call keeps its file.
LEMMA TableOK ==
    ASSUME IInv, UNCHANGED <<disk, pos, boot_block, fs_lock, inode, call, files>>,
           boot_block = mkfs_boot, result'.to \in Process \cup {Nobody},
           file_structs' \in [Slot -> FileRec], refs' \in [Slot -> SUBSET Process],
           \A s \in Slot : OpenFile(file_structs'[s], refs'[s]),
           \A p \in Process : call[p].at # "user" =>
             /\ file_structs'[call[p].file] = file_structs[call[p].file]
             /\ p \in refs[call[p].file] => p \in refs'[call[p].file]
    PROVE  IInv'
  <1>1. Types'
    BY Zenon DEF IInv, Types
  <1>2. Boot'
    BY Zenon DEF IInv, Boot
  <1>3. ASSUME NEW p \in Process PROVE CallOf(p, call[p])'
    <2>1. CallOf(p, call[p])
      BY Zenon DEF IInv
    <2>2. CASE call[p].at = "user"
      BY Zenon, <2>1, <2>2 DEF CallOf
    <2>3. CASE call[p].at # "user"
      BY Zenon, <2>1, <2>3 DEF CallOf, InCall, AtBlock, data_block_offset
    <2> QED BY Zenon, <2>2, <2>3
  <1> QED BY Zenon, <1>1, <1>2, <1>3 DEF IInv

\* IOCTL_SETPOS moves the position within the file.
LEMMA SetposOK ==
    ASSUME IInv, NEW p \in Process, NEW s \in Slot, NEW n \in Asked, fs_setpos(p, s, n)
    PROVE  IInv'
  <1> DEFINE f == file_structs[s]
  <1>1. f \in FileRec /\ p \in refs[s] /\ OpenFile(f, refs[s]) /\ n \in Nat
    BY Zenon, TypeFacts, KfsAssumption DEF IInv, fs_setpos, fs_ioctl
  <1>2. f.flags # 0 /\ f.file_position <= f.file_size
    BY Zenon, <1>1 DEF OpenFile
  <1>3. PICK position \in Nat :
          /\ position <= f.file_size /\ Calls(p) /\ result'.to = p
          /\ file_structs' = [file_structs EXCEPT ![s].file_position = position]
          /\ UNCHANGED <<disk, pos, boot_block, fs_lock, inode, call, refs, files>>
    <2>1. ASSUME NEW position \in Nat, NEW r, r.to = p, fs_ioctl(p, s, r, position)
          PROVE  /\ Calls(p) /\ result'.to = p
                 /\ file_structs' = [file_structs EXCEPT ![s].file_position = position]
                 /\ UNCHANGED <<disk, pos, boot_block, fs_lock, inode, call, refs, files>>
      BY Zenon, <2>1 DEF fs_ioctl
    <2>2. f.file_position \in Nat /\ f.file_size \in Nat
      BY Zenon, <1>1 DEF FileRec
    <2>3. Error(p, "setpos", n).to = p /\ Ok(p, "setpos", 0, <<>>).to = p
      BY Zenon DEF Ok, Error
    <2>4. CASE n > f.file_size
      <3>1. fs_ioctl(p, s, Error(p, "setpos", n), f.file_position)
        BY Zenon, <2>4 DEF fs_setpos
      <3> QED BY Zenon, <1>2, <2>1, <2>2, <2>3, <3>1
    <2>5. CASE ~(n > f.file_size)
      <3>1. fs_ioctl(p, s, Ok(p, "setpos", 0, <<>>), n) /\ n <= f.file_size
        BY <1>1, <2>2, <2>5 DEF fs_setpos
      <3> QED BY Zenon, <1>1, <2>1, <2>3, <3>1
    <2> QED BY Zenon, <2>4, <2>5
  <1>4. /\ Calls(p) /\ result'.to = p
        /\ file_structs' = [file_structs EXCEPT ![s].file_position = position]
        /\ UNCHANGED <<disk, pos, boot_block, fs_lock, inode, call, refs, files>>
    BY Zenon, <1>3
  <1>5. /\ boot_block = mkfs_boot
        /\ \A q \in Process : call[q].at = "user"
    BY Zenon, <1>4, MountedFacts, NoCaller DEF Calls
  <1>6. file_structs \in [Slot -> FileRec]
    BY Zenon DEF IInv, Types
  <1>7. file_structs'[s] = [f EXCEPT !.file_position = position] /\ file_structs'[s] \in FileRec
    BY Zenon, <1>1, <1>4, <1>6 DEF FileRec
  <1>8. /\ file_structs' \in [Slot -> FileRec]
        /\ \A t \in Slot : t # s => file_structs'[t] = file_structs[t]
    BY Zenon, <1>4, <1>6, <1>7
  <1>9. OpenFile(file_structs'[s], refs[s])
    BY ZenonT(60), <1>1, <1>2, <1>3, <1>7 DEF OpenFile, FileRec
  <1>10. \A t \in Slot : OpenFile(file_structs'[t], refs'[t])
    BY Zenon, <1>4, <1>8, <1>9 DEF IInv
  <1>11. refs' \in [Slot -> SUBSET Process]
    BY Zenon, <1>4 DEF IInv, Types
  <1> QED BY Zenon, <1>4, <1>5, <1>8, <1>10, <1>11, TableOK

\* fs_close gives up a slot no call uses, or one of its holders that is in no call.
LEMMA CloseOK ==
    ASSUME IInv, NEW p \in Process, NEW s \in Slot, fs_close(p, s)
    PROVE  IInv'
  <1> DEFINE f == file_structs[s]
  <1>1. /\ call[p].op = "idle" /\ p \in refs[s]
        /\ refs' = [refs EXCEPT ![s] = @ \ {p}]
        /\ file_structs' = IF refs[s] = {p} THEN [file_structs EXCEPT ![s].flags = 0]
                           ELSE file_structs
        /\ result' = None
        /\ UNCHANGED <<disk, pos, boot_block, fs_lock, inode, call, files>>
    BY Zenon DEF fs_close, InUser
  <1>2. /\ file_structs \in [Slot -> FileRec] /\ refs \in [Slot -> SUBSET Process]
        /\ f \in FileRec /\ OpenFile(f, refs[s])
    BY Zenon DEF IInv, Types
  <1>3. f.flags # 0
    BY Zenon, <1>1, <1>2 DEF OpenFile
  <1>4. boot_block = mkfs_boot
    BY <1>3 DEF IInv, Boot, NoFile
  <1>5. /\ refs' \in [Slot -> SUBSET Process] /\ refs'[s] = refs[s] \ {p}
        /\ \A t \in Slot : t # s => refs'[t] = refs[t]
    BY Zenon, <1>1, <1>2
  <1>6. /\ file_structs' \in [Slot -> FileRec]
        /\ \A t \in Slot : t # s => file_structs'[t] = file_structs[t]
        /\ refs[s] # {p} => file_structs' = file_structs
        /\ refs[s] = {p} => file_structs'[s].flags = 0
    BY Zenon, <1>1, <1>2 DEF FileRec
  <1>7. OpenFile(file_structs'[s], refs'[s])
    BY Zenon, <1>1, <1>2, <1>3, <1>5, <1>6 DEF OpenFile
  <1>8. \A t \in Slot : OpenFile(file_structs'[t], refs'[t])
    BY Zenon, <1>5, <1>6, <1>7 DEF IInv
  <1>9. ASSUME NEW q \in Process, call[q].at # "user"
        PROVE  /\ file_structs'[call[q].file] = file_structs[call[q].file]
               /\ q \in refs[call[q].file] => q \in refs'[call[q].file]
    <2>1. q # p
      BY Zenon, <1>1, <1>9 DEF IInv, CallOf
    <2>2. InCall(q, call[q], file_structs[call[q].file])
      BY Zenon, <1>9, OneCaller
    <2>3. call[q].file \in Slot
      BY Zenon, <2>2 DEF InCall
    <2>4. CASE call[q].file # s
      BY Zenon, <1>5, <1>6, <2>3, <2>4
    <2>5. CASE call[q].file = s
      <3>1. q \in refs[s]
        BY Zenon, <1>3, <2>2, <2>5 DEF InCall
      <3> QED BY Zenon, <1>5, <1>6, <2>1, <2>5, <3>1
    <2> QED BY Zenon, <2>4, <2>5
  <1>10. result'.to = Nobody
    BY Zenon, <1>1 DEF None
  <1> QED BY Zenon, <1>1, <1>4, <1>5, <1>6, <1>8, <1>9, <1>10, TableOK

\* fork gives the open files another holder.
LEMMA ForkOK ==
    ASSUME IInv, NEW p \in Process, NEW q \in Process, fork(p, q)
    PROVE  IInv'
  <1>1. /\ refs' = [s \in Slot |-> IF p \in refs[s] THEN refs[s] \cup {q} ELSE refs[s]]
        /\ result' = None
        /\ UNCHANGED <<disk, pos, boot_block, file_structs, fs_lock, inode, call, files>>
        /\ \E s \in Slot : p \in refs[s]
    BY Zenon DEF fork
  <1>2. file_structs \in [Slot -> FileRec] /\ refs \in [Slot -> SUBSET Process]
    BY Zenon DEF IInv, Types
  <1>3. boot_block = mkfs_boot
    BY <1>1 DEF IInv, Boot, NoFile, OpenFile
  <1>4. refs' \in [Slot -> SUBSET Process] /\ \A s \in Slot : refs[s] \subseteq refs'[s]
    BY Zenon, <1>1, <1>2
  <1>5. ASSUME NEW s \in Slot PROVE OpenFile(file_structs'[s], refs'[s])
    <2>1. OpenFile(file_structs[s], refs[s])
      BY Zenon DEF IInv
    <2>2. refs[s] = {} => refs'[s] = {}
      BY Zenon, <1>1
    <2>3. refs[s] # {} => refs'[s] # {}
      BY Zenon, <1>4
    <2> QED BY Zenon, <1>1, <2>1, <2>2, <2>3 DEF OpenFile
  <1>6. result'.to = Nobody
    BY Zenon, <1>1 DEF None
  <1>7. ASSUME NEW r \in Process, call[r].at # "user"
        PROVE  r \in refs[call[r].file] => r \in refs'[call[r].file]
    BY Zenon, <1>4, <1>7, OneCaller DEF InCall
  <1> QED BY Zenon, <1>1, <1>2, <1>3, <1>4, <1>5, <1>6, <1>7, TableOK

\* fs_mount reads the boot block; nothing is open yet.
LEMMA MountOK == ASSUME IInv, fs_mount PROVE IInv'
  <1>1. /\ boot_block.num_inodes = 0 /\ boot_block' = disk[1]
        /\ file_structs' = [s \in Slot |-> NoFile]
        /\ result' = None
        /\ UNCHANGED <<disk, pos, fs_lock, inode, call, refs, files>>
    BY Zenon DEF fs_mount
  <1>2. boot_block' = mkfs_boot
    BY Zenon, <1>1 DEF IInv, Types, Image
  <1>3. boot_block = mkfs_boot => NFILES = 0
    BY <1>1 DEF mkfs_boot
  <1>4. ASSUME NEW p \in Process PROVE call[p].at = "user"
    <2>1. CASE boot_block = mkfs_boot
      <3>1. SUFFICES ASSUME call[p].at # "user" PROVE FALSE
        BY Zenon
      <3>2. call[p].file \in Slot /\ file_structs[call[p].file].inode_number < 0
        BY Zenon, <1>3, <2>1, <3>1, OneCaller DEF InCall
      <3> QED BY <3>2, TypeFacts DEF IInv, FileRec
    <2> QED BY Zenon, <2>1 DEF IInv, Boot
  <1>5. ASSUME NEW s \in Slot PROVE refs[s] = {}
    <2>1. OpenFile(file_structs[s], refs[s]) /\ file_structs[s] \in FileRec
      BY Zenon, TypeFacts DEF IInv
    <2>2. CASE boot_block = mkfs_boot
      BY <1>3, <2>1, <2>2 DEF OpenFile, FileRec
    <2>3. CASE boot_block # mkfs_boot
      BY <2>1, <2>3 DEF IInv, Boot, NoFile, OpenFile
    <2> QED BY Zenon, <2>2, <2>3
  <1>6. NoFile \in FileRec /\ NoFile.flags = 0
    BY Zenon DEF NoFile, FileRec
  <1>7. ASSUME NEW s \in Slot PROVE OpenFile(file_structs[s], refs[s])'
    <2>1. file_structs'[s] = NoFile /\ refs'[s] = {}
      BY Zenon, <1>1, <1>5
    <2> QED BY Zenon, <1>6, <2>1 DEF OpenFile
  <1>8. ASSUME NEW p \in Process PROVE CallOf(p, call[p])'
    BY Zenon, <1>1, <1>4 DEF IInv, CallOf
  <1>9. Types'
    BY Zenon, <1>1, <1>6 DEF IInv, Types, None
  <1> QED BY Zenon, <1>2, <1>7, <1>8, <1>9 DEF IInv, Boot

-----------------------------------------------------------------------------
(* Calls that sleep *)

\* A call gets the lock and sleeps for the inode of its file.
LEMMA ReadInodeOK ==
    ASSUME IInv, NEW p \in Process, Calls(p),
           NEW c \in CallRec, c.op # "idle", c.at = "inode", c.file \in Slot, c.total = 0,
           NEW f, f = file_structs'[c.file], f.inode_number < NFILES,
           ReadInode(p, c, f.inode_number),
           file_structs' \in [Slot -> FileRec],
           \A s \in Slot : OpenFile(file_structs'[s], refs[s]),
           c.op = "open" => f.flags = 0 /\ f.file_position = 0,
           c.op # "open" => Transfer(c, f) /\ p \in refs[c.file]
    PROVE  IInv'
  <1>1. /\ fs_lock' = p /\ pos' = inode_offset(f.inode_number)
        /\ call' = [call EXCEPT ![p] = c] /\ result' = None
        /\ UNCHANGED <<disk, boot_block, inode, refs, files>>
    BY Zenon DEF ReadInode
  <1>2. /\ boot_block = mkfs_boot
        /\ \A q \in Process : call[q].at = "user"
    BY Zenon, MountedFacts, NoCaller DEF Calls
  <1>3. call \in [Process -> CallRec]
    BY Zenon DEF IInv, Types
  <1>4. /\ call' \in [Process -> CallRec] /\ call'[p] = c
        /\ \A q \in Process : q # p => call'[q] = call[q]
    BY Zenon, <1>1, <1>3
  <1>5. f \in FileRec
    BY Zenon
  <1>6. pos' \in Nat /\ pos' <= Len(mkfs) * FS_BLKSZ
    BY Zenon, <1>1, <1>5, InodeFacts DEF IInv, Types, FileRec
  <1>7. Types'
    BY Zenon, <1>1, <1>4, <1>6 DEF IInv, Types, None
  <1>8. CallOf(p, c)'
    <2>1. InCall(p, c, f)'
      BY Zenon, <1>1 DEF InCall
    <2> QED BY Zenon, <2>1 DEF CallOf
  <1>9. ASSUME NEW q \in Process, q # p PROVE CallOf(q, call[q])'
    BY Zenon, <1>1, <1>2, <1>4, <1>9, StaysOut
  <1> QED BY Zenon, <1>1, <1>2, <1>4, <1>7, <1>8, <1>9 DEF IInv, Boot

\* fs_open finds the file and a free slot.
LEMMA OpenOK ==
    ASSUME IInv, NEW p \in Process, NEW name \in 1..(NFILES + 1), fs_open(p, name)
    PROVE  IInv'
  <1>1. boot_block.num_dentry = NFILES /\ Calls(p) /\ NFILES \in Nat
    BY Zenon, MountedFacts, SizeFacts DEF fs_open, Calls
  <1>2. CASE Refuse(p, Error(p, "open", name))
    BY Zenon, <1>2, RefuseOK DEF Error
  <1>3. CASE ~Refuse(p, Error(p, "open", name))
    <2>1. name \in 1..NFILES
      BY Zenon, <1>1, <1>3 DEF fs_open
    <2> DEFINE C(s) == [Idle EXCEPT !.op = "open", !.file = s, !.at = "inode"]
    <2>2. PICK s \in Slot :
            /\ free_slot(s)
            /\ file_structs' = [file_structs EXCEPT ![s].file_position = 0,
                                                    ![s].inode_number = name - 1]
            /\ ReadInode(p, C(s), name - 1)
      BY Zenon, <1>3 DEF fs_open
    <2>3. /\ file_structs \in [Slot -> FileRec] /\ file_structs[s] \in FileRec
          /\ file_structs[s].flags = 0 /\ OpenFile(file_structs[s], refs[s])
      BY Zenon, <2>2 DEF IInv, Types, free_slot
    <2>4. name - 1 \in Nat /\ name - 1 < NFILES
      BY <1>1, <2>1
    <2> DEFINE f == file_structs'[s]
    <2>5. /\ f = [file_structs[s] EXCEPT !.file_position = 0, !.inode_number = name - 1]
          /\ \A t \in Slot : t # s => file_structs'[t] = file_structs[t]
          /\ file_structs' \in [Slot -> FileRec]
      BY Zenon, <2>2, <2>3, <2>4 DEF FileRec
    <2>6. f.flags = 0 /\ f.file_position = 0 /\ f.inode_number = name - 1
      BY Zenon, <2>3, <2>5 DEF FileRec
    <2>7. OpenFile(f, refs[s])
      BY Zenon, <2>3, <2>6 DEF OpenFile
    <2>8. \A t \in Slot : OpenFile(file_structs'[t], refs[t])
      BY Zenon, <2>5, <2>7 DEF IInv
    <2>9. /\ C(s) \in CallRec /\ C(s).op = "open" /\ C(s).at = "inode" /\ C(s).file = s
          /\ C(s).total = 0
      <3>1. <<>> \in Seq(Byte) /\ s \in Nat
        BY KfsAssumption DEF Slot
      <3> QED BY Zenon, <3>1 DEF Idle, CallRec
    <2> DEFINE c == C(s)
    <2>10. /\ ReadInode(p, c, f.inode_number) /\ f.inode_number < NFILES
           /\ c \in CallRec /\ c.op = "open" /\ c.at = "inode" /\ c.file = s /\ c.total = 0
           /\ f = file_structs'[c.file]
      BY Zenon, <2>2, <2>4, <2>6, <2>9
    <2> HIDE DEF c, f
    <2> QED BY ZenonT(60), <1>1, <2>5, <2>6, <2>8, <2>10, ReadInodeOK
  <1> QED BY Zenon, <1>2, <1>3

\* fs_read and fs_write limit what they transfer to what is left of the file.
LEMMA StartOK ==
    ASSUME IInv, NEW p \in Process, NEW op \in {"read", "write"}, NEW s \in Slot, NEW n \in Nat,
           NEW buf \in Seq(Byte), Calls(p), p \in refs[s], Start(p, op, s, n, buf),
           op = "read" => n \in Asked /\ buf = <<>>,
           op = "write" => buf \in Written /\ n = Len(buf)
    PROVE  IInv'
  <1> DEFINE f == file_structs[s]
  <1>1. f \in FileRec /\ OpenFile(f, refs[s]) /\ f.flags # 0
    BY Zenon, TypeFacts DEF IInv, OpenFile
  <1>2. CASE f.file_position >= f.file_size
    <2>1. Refuse(p, Ok(p, op, 0, <<>>))
      BY Zenon, <1>1, <1>2 DEF Start
    <2> QED BY Zenon, <2>1, RefuseOK DEF Ok
  <1>3. CASE ~(f.file_position >= f.file_size)
    <2> DEFINE m == Min2(n, f.file_size - f.file_position)
               c == [op |-> op, file |-> s, at |-> "inode", buf |-> buf, total |-> 0,
                     file_pos |-> f.file_position, todo |-> m]
    <2>1. ReadInode(p, c, f.inode_number) /\ file_structs' = file_structs
      BY Zenon, <1>1, <1>3 DEF Start, Begin
    <2>2. /\ f.file_position \in Nat /\ f.file_size \in Nat /\ f.flags = 1
          /\ m \in Nat /\ 0 + m = m /\ f.file_position + 0 = f.file_position
      BY <1>1, <1>3 DEF FileRec, Min2
    <2>3. f.inode_number < NFILES
      BY Zenon, <1>1 DEF OpenFile
    <2>4. c \in CallRec
      BY <2>2, KfsAssumption DEF CallRec, Slot
    <2>5. Transfer(c, f)
      <3>1. op = "read" => Len(buf) = 0
        OBVIOUS
      <3> HIDE DEF f, m
      <3> QED BY Zenon, <2>2, <3>1 DEF Transfer, m
    <2>6. c.op = op /\ c.at = "inode" /\ c.file = s /\ c.total = 0
      BY Zenon
    <2>7. file_structs' \in [Slot -> FileRec] /\ \A t \in Slot : OpenFile(file_structs'[t], refs[t])
      BY Zenon, <2>1 DEF IInv, Types
    <2> HIDE DEF c
    <2> QED BY Zenon, <2>1, <2>3, <2>4, <2>5, <2>6, <2>7, ReadInodeOK
  <1> QED BY Zenon, <1>2, <1>3

\* The end of a call: the lock is free, and no process is in a call.
LEMMA FinishOK ==
    ASSUME IInv, NEW p \in Process, fs_lock = p, NEW r, r.to = p, Finish(p, r),
           UNCHANGED boot_block, Image(disk'),
           file_structs' \in [Slot -> FileRec], refs' \in [Slot -> SUBSET Process],
           \A s \in Slot : OpenFile(file_structs'[s], refs'[s]),
           files' \in [1..NFILES -> Seq(Byte)],
           \A f \in 1..NFILES : Len(files'[f]) = Len(Content[f])
    PROVE  IInv'
  <1>1. /\ fs_lock' = Nobody /\ call' = [call EXCEPT ![p] = Idle] /\ result' = r
        /\ pos' = 0 /\ p # Nobody
    BY Zenon, KfsAssumption DEF Finish
  <1>2. call[p].at # "user"
    BY Zenon DEF IInv, CallOf
  <1>3. Idle \in CallRec /\ Idle.op = "idle" /\ Idle.at = "user"
    BY DEF Idle, CallRec
  <1>4. call \in [Process -> CallRec]
    BY Zenon DEF IInv, Types
  <1>5. /\ call' \in [Process -> CallRec] /\ call'[p] = Idle
        /\ \A q \in Process : q # p => call'[q] = call[q]
    BY Zenon, <1>1, <1>3, <1>4
  <1>6. Types'
    <2>1. pos' \in Nat /\ pos' <= Len(mkfs) * FS_BLKSZ
      BY Zenon, <1>1, RoomFacts
    <2> QED BY Zenon, <1>1, <1>5, <2>1 DEF Types
  <1>7. CallOf(p, call[p])'
    BY Zenon, <1>1, <1>3, <1>5 DEF CallOf
  <1>8. ASSUME NEW q \in Process, q # p PROVE CallOf(q, call[q])'
    <2>1. call[q].at = "user"
      BY Zenon, <1>2, <1>8, OneCaller
    <2>2. fs_lock' # q
      BY Zenon, <1>1, KfsAssumption
    <2> QED BY Zenon, <1>5, <1>8, <2>1, <2>2, StaysOut
  <1>9. boot_block' = mkfs_boot
    BY Zenon, <1>2, OneCaller
  <1> QED BY Zenon, <1>6, <1>7, <1>8, <1>9 DEF IInv, Boot

\* The inode of a file that is opened gives its size, and the slot is taken.
LEMMA InodeOfOpenOK ==
    ASSUME IInv, NEW p \in Process, InodeOfOpen(p)
    PROVE  IInv'
  <1> DEFINE s == call[p].file
             f == file_structs[s]
  <1>1. /\ call[p].op = "open" /\ call[p].at = "inode"
        /\ file_structs' = [file_structs EXCEPT ![s].file_size = block_at(pos).byte_len,
                                                ![s].flags = 1]
        /\ refs' = [refs EXCEPT ![s] = {p}]
        /\ Finish(p, Ok(p, "open", 0, <<>>))
        /\ UNCHANGED <<disk, boot_block, files>>
    BY Zenon DEF InodeOfOpen
  <1>2. fs_lock = p /\ InCall(p, call[p], f)
    BY Zenon, <1>1, OneCaller
  <1>3. /\ s \in Slot /\ f.inode_number < NFILES /\ pos = inode_offset(f.inode_number)
        /\ f.file_position = 0 /\ f.flags = 0
    BY Zenon, <1>1, <1>2 DEF InCall
  <1>4. file_structs \in [Slot -> FileRec] /\ refs \in [Slot -> SUBSET Process] /\ f \in FileRec
    BY Zenon, <1>3 DEF IInv, Types
  <1>5. f.inode_number \in Nat
    BY Zenon, <1>4 DEF FileRec
  <1> DEFINE L == Len(Content[f.inode_number + 1])
  <1>6. block_at(pos).byte_len = L
    <2>1. block_at(pos) = mkfs_inode(f.inode_number + 1)
      BY Zenon, <1>3, <1>5, InodeFacts DEF IInv, Types
    <2> QED BY <2>1 DEF mkfs_inode
  <1>7. L \in Nat
    <2>1. f.inode_number + 1 \in 1..NFILES
      BY <1>3, <1>5, SizeFacts
    <2> QED BY Zenon, <2>1, ContentFacts
  <1> HIDE DEF L
  <1>8. /\ file_structs' \in [Slot -> FileRec]
        /\ file_structs'[s] = [f EXCEPT !.file_size = L, !.flags = 1]
        /\ \A t \in Slot : t # s => file_structs'[t] = file_structs[t]
    BY Zenon, <1>1, <1>3, <1>4, <1>6, <1>7 DEF FileRec
  <1>9. /\ refs' \in [Slot -> SUBSET Process] /\ refs'[s] = {p}
        /\ \A t \in Slot : t # s => refs'[t] = refs[t]
    BY Zenon, <1>1, <1>3, <1>4
  <1>10. OpenFile(file_structs'[s], refs'[s])
    BY <1>3, <1>4, <1>7, <1>8, <1>9 DEF OpenFile, FileRec, L
  <1>11. \A t \in Slot : OpenFile(file_structs'[t], refs'[t])
    BY Zenon, <1>8, <1>9, <1>10 DEF IInv
  <1>12. Ok(p, "open", 0, <<>>).to = p
    BY Zenon DEF Ok
  <1>13. /\ Image(disk') /\ files' \in [1..NFILES -> Seq(Byte)]
         /\ \A g \in 1..NFILES : Len(files'[g]) = Len(Content[g])
    BY Zenon, <1>1 DEF IInv, Types
  <1> QED BY Zenon, <1>1, <1>2, <1>8, <1>9, <1>11, <1>12, <1>13, FinishOK

-----------------------------------------------------------------------------
(* The transfer loop *)

\* A transfer stays in the file and in the buffer of its caller.
LEMMA TransferFacts ==
    ASSUME NEW c \in CallRec, NEW f \in FileRec, NEW holders, OpenFile(f, holders), Transfer(c, f)
    PROVE  /\ f.file_position \in Nat /\ f.file_size \in Nat /\ f.inode_number \in Nat
           /\ c.total \in Nat /\ c.todo \in Nat /\ c.file_pos \in Nat
           /\ c.file_pos = f.file_position + c.total
           /\ c.op \in {"read", "write"} => c.file_pos + c.todo <= f.file_size
           /\ c.op = "write" => c.total + c.todo <= Len(c.buf)
           /\ f.inode_number + 1 \in 1..NFILES
           /\ f.file_size = Len(Content[f.inode_number + 1])
  <1>1. /\ f.file_position \in Nat /\ f.file_size \in Nat /\ f.inode_number \in Nat
        /\ c.total \in Nat /\ c.todo \in Nat /\ c.file_pos \in Nat /\ c.buf \in Seq(Byte)
    BY Zenon DEF FileRec, CallRec
  <1>2. /\ f.flags = 1 /\ f.file_position <= f.file_size /\ c.file_pos = f.file_position + c.total
        /\ f.inode_number < NFILES /\ f.file_size = Len(Content[f.inode_number + 1])
    BY DEF Transfer, OpenFile
  <1>3. Len(c.buf) \in Nat
    BY <1>1
  <1>4. ASSUME c.op = "read" PROVE c.total + c.todo <= f.file_size - f.file_position
    <2>1. PICK n \in Asked : c.total + c.todo = Min2(n, f.file_size - f.file_position)
      BY Zenon, <1>4 DEF Transfer
    <2>2. n \in Nat
      BY Zenon, KfsAssumption
    <2> QED BY <1>1, <1>2, <2>1, <2>2 DEF Min2
  <1>5. c.op = "write" => /\ c.total + c.todo <= f.file_size - f.file_position
                          /\ c.total + c.todo <= Len(c.buf)
    BY SMTT(30), <1>1, <1>2, <1>3 DEF Transfer, Min2
  <1>6. f.inode_number + 1 \in 1..NFILES
    BY SMTT(30), <1>1, <1>2, SizeFacts
  <1>7. c.op \in {"read", "write"} => c.file_pos + c.todo <= f.file_size
    <2>1. c.total + c.todo <= f.file_size - f.file_position => c.file_pos + c.todo <= f.file_size
      BY SMTT(30), <1>1, <1>2
    <2> QED BY Zenon, <1>4, <1>5, <2>1
  <1> QED BY Zenon, <1>1, <1>2, <1>5, <1>6, <1>7

\* What the loop knows: p has the lock, c is its transfer so far, f its open file.
Looping(p, c, f) ==
  /\ fs_lock = p /\ c \in CallRec /\ c.op \in {"read", "write"} /\ c.file \in Slot
  /\ f = file_structs[c.file] /\ f \in FileRec /\ p \in refs[c.file]
  /\ OpenFile(f, refs[c.file]) /\ Transfer(c, f)

\* A process in a transfer is in the loop.
LEMMA LoopingFacts ==
    ASSUME IInv, NEW p \in Process, call[p].op \in {"read", "write"}
    PROVE  /\ Looping(p, call[p], file_structs[call[p].file])
           /\ boot_block = mkfs_boot /\ call[p].at \in {"inode", "block"}
           /\ file_structs[call[p].file].inode_number < NFILES
           /\ call[p].at = "inode" => pos = inode_offset(file_structs[call[p].file].inode_number)
           /\ call[p].at = "block" => AtBlock(call[p], file_structs[call[p].file])
  <1>1. call[p] \in CallRec /\ call[p].at # "user"
    BY Zenon, TypeFacts DEF IInv, CallOf
  <1>2. fs_lock = p /\ boot_block = mkfs_boot /\ InCall(p, call[p], file_structs[call[p].file])
    BY Zenon, <1>1, OneCaller
  <1>3. /\ call[p].file \in Slot /\ Transfer(call[p], file_structs[call[p].file])
        /\ p \in refs[call[p].file]
    BY Zenon, <1>2 DEF InCall
  <1>4. /\ file_structs[call[p].file] \in FileRec
        /\ OpenFile(file_structs[call[p].file], refs[call[p].file])
    BY Zenon, <1>3, TypeFacts DEF IInv
  <1>5. call[p].at \in {"inode", "block"}
    BY Zenon, <1>1 DEF CallRec
  <1> QED BY ZenonT(60), <1>1, <1>2, <1>3, <1>4, <1>5 DEF Looping, InCall

\* The bytes of a completed write are in the history of its file.
Stored(c, f, g) ==
  IF c.op = "read" \/ g # f.inode_number + 1 THEN files[g]
  ELSE [i \in 1..Len(Content[g]) |->
          IF i \in (f.file_position + 1)..c.file_pos THEN c.buf[i - f.file_position]
          ELSE files[g][i]]

\* What the last step of a call leaves of the file table and of the history.
Completed(p, c, f) ==
  /\ file_structs' = [file_structs EXCEPT ![c.file].file_position = c.file_pos]
  /\ file_structs' \in [Slot -> FileRec]
  /\ file_structs'[c.file] = [f EXCEPT !.file_position = c.file_pos]
  /\ \A s \in Slot : s # c.file => file_structs'[s] = file_structs[s]
  /\ \A s \in Slot : OpenFile(file_structs'[s], refs[s])
  /\ files' \in [1..NFILES -> Seq(Byte)]
  /\ \A g \in 1..NFILES : files'[g] = Stored(c, f, g) /\ Len(files'[g]) = Len(Content[g])
  /\ Finish(p, Ok(p, c.op, c.total, IF c.op = "read" THEN c.buf ELSE <<>>))

\* The last step of a transfer moves the file on and stores what was written.
LEMMA CompleteFacts ==
    ASSUME IInv, NEW p \in Process, NEW c, NEW f, Looping(p, c, f), c.todo = 0, Complete(p, c)
    PROVE  Completed(p, c, f)
  <1>1. /\ c \in CallRec /\ c.op \in {"read", "write"} /\ c.file \in Slot
        /\ f = file_structs[c.file] /\ f \in FileRec
        /\ OpenFile(f, refs[c.file]) /\ Transfer(c, f)
    BY Zenon DEF Looping
  <1>2. /\ f.file_position \in Nat /\ f.file_size \in Nat /\ f.inode_number \in Nat
        /\ c.total \in Nat /\ c.todo \in Nat /\ c.file_pos \in Nat
        /\ c.file_pos = f.file_position + c.total
        /\ c.file_pos + c.todo <= f.file_size
        /\ c.op = "write" => c.total + c.todo <= Len(c.buf)
        /\ f.inode_number + 1 \in 1..NFILES
    BY Zenon, <1>1, TransferFacts
  <1> DEFINE n == f.inode_number + 1
             W == [files EXCEPT ![n] = [i \in DOMAIN @ |->
                      IF i \in (c.file_pos - c.total + 1)..c.file_pos
                      THEN c.buf[i - (c.file_pos - c.total)] ELSE @[i]]]
  <1>3. /\ file_structs' = [file_structs EXCEPT ![c.file].file_position = c.file_pos]
        /\ files' = IF c.op = "read" THEN files ELSE W
        /\ Finish(p, Ok(p, c.op, c.total, IF c.op = "read" THEN c.buf ELSE <<>>))
    BY Zenon, <1>1 DEF Complete
  <1>4. file_structs \in [Slot -> FileRec]
    BY Zenon DEF IInv, Types
  <1>5. /\ file_structs' \in [Slot -> FileRec]
        /\ file_structs'[c.file] = [f EXCEPT !.file_position = c.file_pos]
        /\ \A s \in Slot : s # c.file => file_structs'[s] = file_structs[s]
    BY Zenon, <1>1, <1>2, <1>3, <1>4 DEF FileRec
  <1>6. OpenFile(file_structs'[c.file], refs[c.file])
    BY <1>1, <1>2, <1>5 DEF OpenFile, FileRec
  <1>7. \A s \in Slot : OpenFile(file_structs'[s], refs[s])
    BY Zenon, <1>5, <1>6 DEF IInv
  <1>8. /\ files \in [1..NFILES -> Seq(Byte)]
        /\ \A g \in 1..NFILES : Len(files[g]) = Len(Content[g]) /\ Len(files[g]) \in Nat
        /\ \A g \in 1..NFILES : DOMAIN files[g] = 1..Len(Content[g])
    BY DEF IInv, Types
  <1>9. c.file_pos - c.total = f.file_position
    BY <1>2
  <1> DEFINE S == [i \in 1..Len(Content[n]) |->
                     IF i \in (f.file_position + 1)..c.file_pos THEN c.buf[i - f.file_position]
                     ELSE files[n][i]]
  <1>10. W = [files EXCEPT ![n] = S]
    BY Zenon, <1>2, <1>8, <1>9
  <1>11. ASSUME c.op = "write" PROVE S \in Seq(Byte) /\ Len(S) = Len(Content[n])
    <2>1. ASSUME NEW i \in 1..Len(Content[n])
          PROVE  (IF i \in (f.file_position + 1)..c.file_pos THEN c.buf[i - f.file_position]
                  ELSE files[n][i]) \in Byte
      <3>1. files[n][i] \in Byte
        BY <1>2, <1>8
      <3>2. ASSUME i \in (f.file_position + 1)..c.file_pos
            PROVE  c.buf[i - f.file_position] \in Byte
        <4>1. c.buf \in Seq(Byte) /\ c.total <= Len(c.buf)
          BY <1>1, <1>2, <1>11 DEF CallRec
        <4>2. i - f.file_position \in 1..c.total
          BY <1>2, <3>2
        <4>3. i - f.file_position \in 1..Len(c.buf)
          BY <1>2, <4>1, <4>2
        <4> QED BY <4>1, <4>3
      <3> QED BY Zenon, <3>1, <3>2
    <2>2. S \in [1..Len(Content[n]) -> Byte] /\ Len(Content[n]) \in Nat
      BY Zenon, <1>2, <1>8, <2>1
    <2> QED BY <2>2
  <1> HIDE DEF S, W
  <1>12. files' \in [1..NFILES -> Seq(Byte)]
    BY Zenon, <1>1, <1>2, <1>3, <1>8, <1>10, <1>11
  <1>13. ASSUME NEW g \in 1..NFILES PROVE files'[g] = Stored(c, f, g)
    <2>1. CASE c.op = "read" \/ g # n
      BY Zenon, <1>3, <1>8, <1>10, <2>1 DEF Stored
    <2>2. CASE c.op # "read" /\ g = n
      BY Zenon, <1>2, <1>3, <1>8, <1>10, <2>2 DEF Stored, S
    <2> QED BY Zenon, <2>1, <2>2
  <1>14. ASSUME NEW g \in 1..NFILES PROVE Len(files'[g]) = Len(Content[g])
    <2>1. files'[g] = IF c.op # "read" /\ g = n THEN S ELSE files[g]
      BY Zenon, <1>2, <1>3, <1>8, <1>10
    <2> QED BY Zenon, <1>1, <1>8, <1>11, <2>1
  <1> QED BY Zenon, <1>3, <1>5, <1>7, <1>12, <1>13, <1>14 DEF Completed

\* The last step of a transfer.
LEMMA CompleteOK ==
    ASSUME IInv, NEW p \in Process, NEW c, NEW f, Looping(p, c, f), c.todo = 0, Complete(p, c),
           UNCHANGED <<boot_block, refs>>, Image(disk')
    PROVE  IInv'
  <1>1. Ok(p, c.op, c.total, IF c.op = "read" THEN c.buf ELSE <<>>).to = p
    BY Zenon DEF Ok
  <1>2. fs_lock = p
    BY Zenon DEF Looping
  <1>3. refs' \in [Slot -> SUBSET Process]
    BY Zenon DEF IInv, Types
  <1>4. /\ file_structs' \in [Slot -> FileRec]
        /\ \A s \in Slot : OpenFile(file_structs'[s], refs'[s])
        /\ files' \in [1..NFILES -> Seq(Byte)]
        /\ \A g \in 1..NFILES : Len(files'[g]) = Len(Content[g])
        /\ Finish(p, Ok(p, c.op, c.total, IF c.op = "read" THEN c.buf ELSE <<>>))
    <2>1. Completed(p, c, f)
      BY Zenon, CompleteFacts
    <2> QED BY Zenon, <2>1 DEF Completed
  <1> QED BY Zenon, <1>1, <1>2, <1>3, <1>4, FinishOK

\* The block of the disk, counted from 0, that holds byte at of file n.
BlockOf(n, at) == NFILES + 1 + data_block_idx[n - 1] + (at \div FS_BLKSZ)

\* The position of the disk in the block that the inode of a file names.
LEMMA OffsetFacts ==
    ASSUME boot_block = mkfs_boot, NEW n \in 1..NFILES, NEW at \in Nat, at < Len(Content[n]),
           NEW r \in 0..(FS_BLKSZ - 1), NEW off,
           off = data_block_offset(mkfs_inode(n).data_block_num[(at \div FS_BLKSZ) + 1]) + r
    PROVE  /\ off = BlockOf(n, at) * FS_BLKSZ + r /\ off \in Nat
           /\ BlockOf(n, at) \in Nat /\ BlockOf(n, at) >= NFILES + 1
           /\ off \div FS_BLKSZ = BlockOf(n, at) /\ off % FS_BLKSZ = r
  <1> DEFINE B == FS_BLKSZ
             d == data_block_idx[n - 1]
             a == at \div B
             k == NFILES + 1 + d + a
  <1>1. d \in Nat /\ a \in Nat /\ mkfs_inode(n).data_block_num[a + 1] = d + a
    BY Zenon, NumberFacts
  <1>2. B \in Nat \ {0} /\ NFILES \in Nat
    BY Zenon, SizeFacts
  <1>3. data_block_offset(d + a) = B + NFILES * B + (d + a) * B
    BY Zenon DEF data_block_offset, mkfs_boot
  <1>e. off = data_block_offset(mkfs_inode(n).data_block_num[a + 1]) + r /\ BlockOf(n, at) = k
    BY Zenon DEF BlockOf
  <1> HIDE DEF d, a
  <1>4. B + NFILES * B + (d + a) * B = k * B
    BY <1>1, <1>2
  <1>5. k \in Nat /\ k >= NFILES + 1
    BY <1>1, <1>2
  <1> HIDE DEF k
  <1>6. k * B \in Nat
    BY <1>2, <1>5
  <1>7. (k * B + r) \div B = k /\ (k * B + r) % B = r
    BY Zenon, <1>2, <1>5, DivUnique
  <1>8. off = k * B + r
    BY Zenon, <1>1, <1>3, <1>4, <1>e
  <1>9. off \in Nat
    BY <1>2, <1>6, <1>8
  <1> QED BY Zenon, <1>5, <1>7, <1>8, <1>9, <1>e

\* A place in a block.
LEMMA InBlock ==
    ASSUME NEW at \in Nat
    PROVE  at % FS_BLKSZ \in 0..(FS_BLKSZ - 1) /\ 0 \in 0..(FS_BLKSZ - 1)
  <1>1. FS_BLKSZ \in Nat \ {0}
    BY Zenon, SizeFacts
  <1>2. at % FS_BLKSZ \in 0..(FS_BLKSZ - 1)
    BY Zenon, <1>1, DivMod
  <1>3. 0 \in 0..(FS_BLKSZ - 1)
    BY <1>1
  <1> QED BY Zenon, <1>2, <1>3

\* A position before the end of m blocks is in one of them.
LEMMA BlockLess ==
    ASSUME NEW k \in Nat, NEW m \in Nat, NEW B \in Nat \ {0}, NEW r \in Nat, k * B + r < m * B
    PROVE  k < m
  <1> SUFFICES ASSUME k >= m PROVE FALSE
    OBVIOUS
  <1>1. PICK e \in Nat : k = m + e
    <2>1. k - m \in Nat /\ k = m + (k - m)
      OBVIOUS
    <2> QED BY Zenon, <2>1
  <1>2. k * B = m * B + e * B /\ e * B \in Nat /\ m * B \in Nat
    BY <1>1
  <1> QED BY <1>2

\* The next block is found, or is not on the disk and the call fails.
LEMMA NextBlockOK ==
    ASSUME IInv, NEW p \in Process, NEW c, NEW f, Looping(p, c, f), c.todo > 0,
           NextBlock(p, c, mkfs_inode(f.inode_number + 1)),
           boot_block = mkfs_boot, UNCHANGED <<boot_block, refs>>, Image(disk')
    PROVE  IInv'
  <1> DEFINE n == f.inode_number + 1
             ino == mkfs_inode(n)
             r == IF c.op = "write" THEN c.file_pos % FS_BLKSZ ELSE 0
             offset == data_block_offset(ino.data_block_num[(c.file_pos \div FS_BLKSZ) + 1]) + r
  <1>1. /\ c \in CallRec /\ c.op \in {"read", "write"} /\ c.file \in Slot /\ fs_lock = p
        /\ f = file_structs[c.file] /\ f \in FileRec /\ p \in refs[c.file]
        /\ OpenFile(f, refs[c.file]) /\ Transfer(c, f)
    BY Zenon DEF Looping
  <1>2. /\ f.inode_number \in Nat /\ f.inode_number < NFILES
        /\ c.todo \in Nat /\ c.file_pos \in Nat /\ c.file_pos + c.todo <= f.file_size
        /\ n \in 1..NFILES /\ f.file_size = Len(Content[n]) /\ f.file_size \in Nat
    BY ZenonT(60), <1>1, TransferFacts DEF OpenFile, Transfer
  <1>3. c.file_pos < Len(Content[n]) /\ r \in 0..(FS_BLKSZ - 1)
    <2>1. c.file_pos % FS_BLKSZ \in 0..(FS_BLKSZ - 1) /\ 0 \in 0..(FS_BLKSZ - 1)
      BY Zenon, <1>2, InBlock
    <2> QED BY <1>2, <2>1
  <1> HIDE DEF r
  <1>4. offset \in Nat
    <2> HIDE DEF n
    <2> QED BY Zenon, <1>2, <1>3, OffsetFacts
  <1>5. CASE on_disk(offset)
    <2> DEFINE d == [c EXCEPT !.at = "block"]
    <2>1. /\ pos' = offset /\ call' = [call EXCEPT ![p] = d] /\ inode' = ino /\ result' = None
          /\ UNCHANGED <<file_structs, fs_lock, files>>
      BY Zenon, <1>5 DEF NextBlock, r
    <2>2. /\ d \in CallRec /\ d.at = "block" /\ d.op = c.op /\ d.file = c.file
          /\ d.file_pos = c.file_pos /\ d.total = c.total /\ d.todo = c.todo /\ d.buf = c.buf
      BY Zenon, <1>1 DEF CallRec
    <2> HIDE DEF d
    <2>3. call \in [Process -> CallRec]
      BY Zenon DEF IInv, Types
    <2>4. /\ call' \in [Process -> CallRec] /\ call'[p] = d
          /\ \A q \in Process : q # p => call'[q] = call[q]
      BY ZenonT(60), <2>1, <2>2, <2>3
    <2>6. Transfer(d, f)
      BY ZenonT(60), <1>1, <2>2 DEF Transfer
    <2>7. offset < Len(mkfs) * FS_BLKSZ
      BY ZenonT(60), <1>5 DEF on_disk, IInv, Types, Image
    <2>5. Types'
      <3>1. pos' \in Nat /\ pos' <= Len(mkfs) * FS_BLKSZ
        <4> HIDE DEF offset
        <4> QED BY <1>4, <2>1, <2>7, RoomFacts
      <3> QED BY ZenonT(60), <2>1, <2>4, <3>1 DEF IInv, Types, None
    <2>8. AtBlock(d, f)'
      <3>1. pos' = data_block_offset(inode.data_block_num[(d.file_pos \div FS_BLKSZ) + 1])'
                     + (IF d.op = "write" THEN d.file_pos % FS_BLKSZ ELSE 0)
        BY ZenonT(60), <2>1, <2>2 DEF data_block_offset, r
      <3> HIDE DEF offset
      <3> QED BY Zenon, <2>1, <2>2, <2>7, <3>1 DEF AtBlock
    <2>9. InCall(p, d, f)'
      <3> HIDE DEF offset
      <3> QED BY ZenonT(60), <1>1, <1>2, <2>1, <2>2, <2>6, <2>8 DEF InCall
    <2>10. CallOf(p, call[p])'
      <3>1. file_structs'[d.file] = f
        BY ZenonT(60), <1>1, <2>1, <2>2
      <3> HIDE DEF offset
      <3> QED BY ZenonT(60), <1>1, <2>2, <2>4, <2>9, <3>1 DEF CallOf
    <2>11. ASSUME NEW q \in Process, q # p PROVE CallOf(q, call[q])'
      <3>1. call[p].at # "user"
        BY ZenonT(60), <1>1 DEF IInv, CallOf
      <3>2. call[q].at = "user"
        BY ZenonT(60), <2>11, <3>1, OneCaller
      <3>3. fs_lock' # q
        BY ZenonT(60), <1>1, <2>1, <2>11
      <3> QED BY Zenon, <2>4, <2>11, <3>2, <3>3, StaysOut
    <2>12. \A s \in Slot : OpenFile(file_structs'[s], refs'[s])
      BY Zenon, <2>1 DEF IInv
    <2> QED BY ZenonT(60), <2>5, <2>10, <2>11, <2>12 DEF IInv, Boot
  <1>6. CASE ~on_disk(offset)
    <2>1. Finish(p, Error(p, c.op, c.todo)) /\ UNCHANGED <<file_structs, files>>
      BY Zenon, <1>6 DEF NextBlock, r
    <2>2. Error(p, c.op, c.todo).to = p
      BY Zenon DEF Error
    <2>3. /\ file_structs' \in [Slot -> FileRec] /\ refs' \in [Slot -> SUBSET Process]
          /\ \A s \in Slot : OpenFile(file_structs'[s], refs'[s])
          /\ files' \in [1..NFILES -> Seq(Byte)]
          /\ \A g \in 1..NFILES : Len(files'[g]) = Len(Content[g])
      BY Zenon, <2>1 DEF IInv, Types
    <2> QED BY Zenon, <1>1, <2>1, <2>2, <2>3, FinishOK
  <1> QED BY Zenon, <1>5, <1>6

\* One turn of the loop.
LEMMA LoopOK ==
    ASSUME IInv, NEW p \in Process, NEW c, NEW f, Looping(p, c, f),
           Loop(p, c, mkfs_inode(f.inode_number + 1)),
           boot_block = mkfs_boot, UNCHANGED <<boot_block, refs>>, Image(disk')
    PROVE  IInv'
  <1>1. c.todo \in Nat
    BY Zenon DEF Looping, CallRec
  <1>2. CASE c.todo = 0
    BY Zenon, <1>2, CompleteOK DEF Loop
  <1>3. CASE c.todo > 0
    BY <1>1, <1>3, NextBlockOK DEF Loop
  <1> QED BY <1>1, <1>2, <1>3

\* The inode that a transfer sleeps for is that of its file.
LEMMA InodeOfTransferOK ==
    ASSUME IInv, NEW p \in Process, InodeOfTransfer(p)
    PROVE  IInv'
  <1> DEFINE f == file_structs[call[p].file]
  <1>1. /\ call[p].op \in {"read", "write"} /\ call[p].at = "inode"
        /\ Loop(p, call[p], block_at(pos))
        /\ UNCHANGED <<disk, boot_block, refs>>
    BY Zenon DEF InodeOfTransfer
  <1>2. /\ Looping(p, call[p], f) /\ boot_block = mkfs_boot /\ f.inode_number < NFILES
        /\ pos = inode_offset(f.inode_number)
    BY Zenon, <1>1, LoopingFacts
  <1>3. f.inode_number \in Nat
    BY Zenon, <1>2 DEF Looping, FileRec
  <1>4. Image(disk) /\ Image(disk')
    BY Zenon, <1>1 DEF IInv, Types
  <1>5. block_at(pos) = mkfs_inode(f.inode_number + 1)
    BY Zenon, <1>2, <1>3, <1>4, InodeFacts
  <1> HIDE DEF f
  <1> QED BY Zenon, <1>1, <1>2, <1>4, <1>5, LoopOK

\* The block a transfer is at.
AtOffset(c, f, k) ==
  /\ k = BlockOf(f.inode_number + 1, c.file_pos)
  /\ k \in Nat /\ k + 1 \in (NFILES + 2)..Len(mkfs)
  /\ pos \div FS_BLKSZ = k
  /\ c.op = "write" => pos % FS_BLKSZ = c.file_pos % FS_BLKSZ

\* The disk is at a data block, and the transfer has at least one byte of it.
LEMMA BlockFacts ==
    ASSUME IInv, NEW p \in Process, call[p].op \in {"read", "write"}, call[p].at = "block"
    PROVE  LET c == call[p]
               f == file_structs[c.file]
           IN  /\ AtOffset(c, f, BlockOf(f.inode_number + 1, c.file_pos))
               /\ inode = mkfs_inode(f.inode_number + 1)
               /\ c.todo > 0
  <1> DEFINE c == call[p]
             f == file_structs[c.file]
             n == f.inode_number + 1
             k == BlockOf(n, c.file_pos)
             r == IF c.op = "write" THEN c.file_pos % FS_BLKSZ ELSE 0
  <1>1. /\ Looping(p, c, f) /\ boot_block = mkfs_boot /\ AtBlock(c, f)
    BY Zenon, LoopingFacts
  <1>2. /\ c.todo > 0 /\ inode = mkfs_inode(n) /\ pos < Len(mkfs) * FS_BLKSZ
        /\ pos = data_block_offset(mkfs_inode(n).data_block_num[(c.file_pos \div FS_BLKSZ) + 1]) + r
    BY ZenonT(60), <1>1 DEF AtBlock
  <1>3. /\ c.todo \in Nat /\ c.file_pos \in Nat /\ c.file_pos + c.todo <= f.file_size
        /\ n \in 1..NFILES /\ f.file_size = Len(Content[n]) /\ f.file_size \in Nat
    BY Zenon, <1>1, TransferFacts DEF Looping
  <1>4. c.file_pos < Len(Content[n]) /\ r \in 0..(FS_BLKSZ - 1)
    <2>1. c.file_pos % FS_BLKSZ \in 0..(FS_BLKSZ - 1) /\ 0 \in 0..(FS_BLKSZ - 1)
      BY Zenon, <1>3, InBlock
    <2> HIDE DEF c, f
    <2> QED BY <1>2, <1>3, <2>1
  <1>5. /\ pos = k * FS_BLKSZ + r /\ k \in Nat /\ k >= NFILES + 1
        /\ pos \div FS_BLKSZ = k /\ pos % FS_BLKSZ = r
    <2> HIDE DEF c, f, n, r
    <2>1. boot_block = mkfs_boot
      BY Zenon, <1>1
    <2> QED BY ONLY <1>2, <1>3, <1>4, <2>1, OffsetFacts
  <1>6. k < Len(mkfs)
    <2> HIDE DEF k, r, c, f
    <2>1. r \in Nat /\ k * FS_BLKSZ + r < Len(mkfs) * FS_BLKSZ
      BY <1>2, <1>4, <1>5
    <2>2. Len(mkfs) \in Nat /\ FS_BLKSZ \in Nat \ {0}
      BY Zenon, SizeFacts
    <2> HIDE DEF mkfs
    <2> QED BY Zenon, <1>5, <2>1, <2>2, BlockLess
  <1>7. k + 1 \in (NFILES + 2)..Len(mkfs)
    <2> HIDE DEF k
    <2> QED BY <1>5, <1>6, SizeFacts
  <1>8. AtOffset(c, f, k)
    <2> HIDE DEF k
    <2> QED BY Zenon, <1>5, <1>7 DEF AtOffset, k
  <1> QED BY ZenonT(60), <1>2, <1>8

\* What one iteration transfers is in the block and in what is left to do.
LEMMA HereFacts ==
    ASSUME NEW c \in CallRec, c.todo > 0
    PROVE  /\ Here(c) \in Nat /\ Here(c) >= 1 /\ Here(c) <= c.todo
           /\ c.file_pos % FS_BLKSZ \in 0..(FS_BLKSZ - 1)
           /\ (c.file_pos % FS_BLKSZ) + Here(c) <= FS_BLKSZ
  <1>1. c.todo \in Nat /\ c.file_pos \in Nat /\ FS_BLKSZ \in Nat \ {0}
    BY Zenon, SizeFacts DEF CallRec
  <1>2. c.file_pos % FS_BLKSZ \in 0..(FS_BLKSZ - 1)
    BY Zenon, <1>1, DivMod
  <1> QED BY <1>1, <1>2 DEF Here, Min2

\* A transfer of m bytes moves the transfer on.
LEMMA AdvanceFacts ==
    ASSUME NEW c \in CallRec, NEW m \in Nat, m <= c.todo, NEW f \in FileRec, Transfer(c, f),
           NEW buf \in Seq(Byte),
           c.op = "read" => Len(buf) = c.total + m,
           c.op = "write" => buf = c.buf
    PROVE  LET d == [Advance(c, m) EXCEPT !.buf = buf]
           IN  /\ d \in CallRec /\ Transfer(d, f) /\ d.op = c.op /\ d.file = c.file /\ d.at = c.at
               /\ d.total = c.total + m /\ d.todo = c.todo - m /\ d.file_pos = c.file_pos + m
               /\ d.buf = buf
  <1> DEFINE d == [Advance(c, m) EXCEPT !.buf = buf]
  <1>1. c.todo \in Nat /\ c.file_pos \in Nat /\ c.total \in Nat /\ f.file_position \in Nat
    BY Zenon DEF CallRec, FileRec
  <1>2. /\ d.op = c.op /\ d.file = c.file /\ d.at = c.at /\ d.buf = buf
        /\ d.total = c.total + m /\ d.todo = c.todo - m /\ d.file_pos = c.file_pos + m
    BY Zenon DEF CallRec, Advance
  <1>3. d \in CallRec
    <2>1. c.todo - m \in Nat /\ c.total + m \in Nat /\ c.file_pos + m \in Nat
      BY <1>1
    <2>2. d = [c EXCEPT !.total = c.total + m, !.todo = c.todo - m, !.file_pos = c.file_pos + m,
                        !.buf = buf]
      BY Zenon DEF CallRec, Advance
    <2> QED BY ZenonT(60), <2>1, <2>2 DEF CallRec
  <1>4. d.total + d.todo = c.total + c.todo
    BY <1>1, <1>2
  <1>5. d.file_pos = f.file_position + d.total
    BY <1>1, <1>2 DEF Transfer
  <1> HIDE DEF d
  <1>6. Transfer(d, f)
    BY Zenon, <1>2, <1>4, <1>5 DEF Transfer
  <1> QED BY Zenon, <1>2, <1>3, <1>6 DEF d

\* The part of a block that a read copies to the buffer of its caller.
Copied(buf, c, k) ==
  /\ buf \in Seq(Byte) /\ Len(buf) = c.total + Here(c)
  /\ \A j \in 1..c.total : buf[j] = c.buf[j]
  /\ \A j \in 1..Here(c) : buf[c.total + j] = disk[k + 1][(c.file_pos % FS_BLKSZ) + j]

\* A part of a block.
LEMMA PartOf ==
    ASSUME NEW S, NEW b \in [1..FS_BLKSZ -> S], FS_BLKSZ \in Nat \ {0},
           NEW r \in Nat, NEW m \in Nat, r + m <= FS_BLKSZ
    PROVE  /\ SubSeq(b, r + 1, r + m) \in Seq(S) /\ Len(SubSeq(b, r + 1, r + m)) = m
           /\ \A j \in 1..m : SubSeq(b, r + 1, r + m)[j] = b[r + j]
  <1> DEFINE T == SubSeq(b, r + 1, r + m)
  <1>1. b \in Seq(S) /\ Len(b) = FS_BLKSZ
    OBVIOUS
  <1>2. \A j \in 1..m : r + j \in 1..FS_BLKSZ
    OBVIOUS
  <1>3. T \in Seq(S)
    BY <1>1
  <1>4. Len(T) = m
    BY <1>1
  <1>5. \A j \in 1..m : T[j] = b[r + j]
    BY <1>1
  <1> QED BY Zenon, <1>3, <1>4, <1>5

\* fs_read copies the bytes of the block that it asked for behind those it has.
LEMMA CopyFacts ==
    ASSUME Image(disk), NEW c \in CallRec, c.op = "read", c.todo > 0, Len(c.buf) = c.total, NEW f,
           AtOffset(c, f, BlockOf(f.inode_number + 1, c.file_pos))
    PROVE  LET off == c.file_pos % FS_BLKSZ
               got == SubSeq(block_at(pos), off + 1, off + Here(c))
           IN  Copied(c.buf \o got, c, BlockOf(f.inode_number + 1, c.file_pos))
  <1> DEFINE k == BlockOf(f.inode_number + 1, c.file_pos)
             off == c.file_pos % FS_BLKSZ
             m == Here(c)
             got == SubSeq(block_at(pos), off + 1, off + m)
  <1>1. k + 1 \in (NFILES + 2)..Len(mkfs) /\ block_at(pos) = disk[k + 1]
    <2> HIDE DEF k
    <2> QED BY Zenon DEF AtOffset, block_at, k
  <1>2. block_at(pos) \in [1..FS_BLKSZ -> Byte]
    <2> HIDE DEF k
    <2> QED BY Zenon, <1>1 DEF Image, Data
  <1>3. /\ off \in Nat /\ m \in Nat /\ off + m <= FS_BLKSZ /\ FS_BLKSZ \in Nat \ {0}
    BY HereFacts, SizeFacts
  <1> DEFINE blk == block_at(pos)
  <1>4. /\ got \in Seq(Byte) /\ Len(got) = m /\ \A j \in 1..m : got[j] = blk[off + j]
    <2>1. blk \in [1..FS_BLKSZ -> Byte]
      BY Zenon, <1>2
    <2> HIDE DEF blk, off, m
    <2> QED BY <1>3, <2>1, PartOf DEF blk
  <1>5. c.buf \in Seq(Byte) /\ c.total \in Nat
    BY Zenon DEF CallRec
  <1> DEFINE buf == c.buf \o got
  <1> HIDE DEF got
  <1>6. buf \in Seq(Byte) /\ Joined(buf, c.buf, got)
    BY Zenon, <1>4, <1>5, ConcatFacts
  <1>7. /\ Len(buf) = c.total + m /\ \A j \in 1..c.total : buf[j] = c.buf[j]
        /\ \A j \in 1..m : buf[c.total + j] = got[j]
    <2> HIDE DEF buf, m
    <2> QED BY Zenon, <1>4, <1>5, <1>6 DEF Joined
  <1>8. Copied(buf, c, k)
    <2> HIDE DEF buf, k
    <2> QED BY Zenon, <1>1, <1>4, <1>6, <1>7 DEF Copied
  <1> QED BY Zenon, <1>8 DEF buf, got

\* A write changes only the bytes it covers of one data block.
Changed(bytes, k, r) ==
  /\ \A x \in 1..Len(mkfs) : x # k + 1 => disk'[x] = disk[x]
  /\ \A j \in 1..FS_BLKSZ :
       disk'[k + 1][j] = IF j - r \in 1..Len(bytes) THEN bytes[j - r] ELSE disk[k + 1][j]

\* A write of part of a data block leaves the boot block, the inodes and the
\* other blocks alone.
LEMMA WriteFacts ==
    ASSUME Image(disk), NEW k \in Nat, k + 1 \in (NFILES + 2)..Len(mkfs),
           NEW bytes \in Seq(Byte), pos \div FS_BLKSZ = k, NEW r \in Nat, pos % FS_BLKSZ = r,
           disk' = write_at(pos, bytes)
    PROVE  Image(disk') /\ Changed(bytes, k, r)
  <1> DEFINE old == disk[k + 1]
             new == [j \in 1..FS_BLKSZ |->
                       IF j - r \in 1..Len(bytes) THEN bytes[j - r] ELSE old[j]]
  <1>1. NFILES \in Nat /\ Len(mkfs) \in Nat /\ FS_BLKSZ \in Nat \ {0}
    BY Zenon, SizeFacts
  <1>2. disk \in Seq(Block) /\ Len(disk) = Len(mkfs) /\ old \in Data
    BY Zenon DEF Image
  <1>3. disk' = [disk EXCEPT ![k + 1] = new]
    BY Zenon DEF write_at
  <1>4. new \in Data
    <2>1. ASSUME NEW j \in 1..FS_BLKSZ
          PROVE  (IF j - r \in 1..Len(bytes) THEN bytes[j - r] ELSE old[j]) \in Byte
      BY <1>1, <1>2 DEF Data
    <2> QED BY Zenon, <2>1 DEF Data
  <1>5. new \in Block
    BY Zenon, <1>4 DEF Block
  <1>6. /\ k + 1 \in 1..Len(mkfs) /\ k + 1 # 1
        /\ \A i \in 1..NFILES : i + 1 # k + 1 /\ i + 1 \in 1..Len(mkfs)
    BY <1>1, SizeFacts
  <1>c. \A j \in 1..FS_BLKSZ :
          new[j] = IF j - r \in 1..Len(bytes) THEN bytes[j - r] ELSE old[j]
    BY Zenon
  <1> HIDE DEF new
  <1>7. disk' \in Seq(Block) /\ Len(disk') = Len(mkfs)
    BY <1>2, <1>3, <1>5, <1>6
  <1>8. /\ \A x \in 1..Len(mkfs) : x # k + 1 => disk'[x] = disk[x]
        /\ disk'[k + 1] = new
    BY <1>2, <1>3, <1>6
  <1>9. disk'[1] = mkfs_boot
    BY <1>1, <1>6, <1>8 DEF Image
  <1>10. \A i \in 1..NFILES : disk'[i + 1] = mkfs_inode(i)
    BY Zenon, <1>6, <1>8 DEF Image
  <1>11. ASSUME NEW x \in (NFILES + 2)..Len(mkfs) PROVE disk'[x] \in Data
    <2>1. x \in 1..Len(mkfs)
      BY <1>1
    <2> QED BY Zenon, <1>4, <1>8, <2>1 DEF Image
  <1>12. Image(disk')
    BY Zenon, <1>7, <1>9, <1>10, <1>11 DEF Image
  <1>13. Changed(bytes, k, r)
    BY Zenon, <1>8, <1>c DEF Changed
  <1> QED BY Zenon, <1>12, <1>13

\* A block has been read: the bytes asked for are in the buffer.
LEMMA BlockReadFacts ==
    ASSUME IInv, NEW p \in Process, BlockRead(p)
    PROVE  \E d \in CallRec :
             LET c == call[p]
                 f == file_structs[c.file]
             IN  /\ c.op = "read" /\ c.at = "block" /\ Looping(p, c, f) /\ c.todo > 0
                 /\ Looping(p, d, f) /\ d.op = "read" /\ d.file = c.file
                 /\ d.file_pos = c.file_pos + Here(c) /\ d.total = c.total + Here(c)
                 /\ d.todo = c.todo - Here(c)
                 /\ Copied(d.buf, c, BlockOf(f.inode_number + 1, c.file_pos))
                 /\ AtOffset(c, f, BlockOf(f.inode_number + 1, c.file_pos))
                 /\ Loop(p, d, mkfs_inode(f.inode_number + 1))
                 /\ boot_block = mkfs_boot /\ UNCHANGED <<disk, boot_block, refs>>
  <1> DEFINE c == call[p]
             f == file_structs[c.file]
             m == Here(c)
             off == c.file_pos % FS_BLKSZ
             got == SubSeq(block_at(pos), off + 1, off + m)
             buf == c.buf \o got
             k == BlockOf(f.inode_number + 1, c.file_pos)
             d == [Advance(c, m) EXCEPT !.buf = buf]
  <1>1. c.op = "read" /\ c.at = "block" /\ UNCHANGED <<disk, boot_block, refs>>
    BY Zenon DEF BlockRead
  <1>2. AtOffset(c, f, k) /\ inode = mkfs_inode(f.inode_number + 1) /\ c.todo > 0
    BY ZenonT(60), <1>1, BlockFacts
  <1>3. Looping(p, c, f) /\ boot_block = mkfs_boot
    BY Zenon, <1>1, LoopingFacts
  <1>4. c \in CallRec /\ f \in FileRec /\ Transfer(c, f) /\ Len(c.buf) = c.total
    BY ZenonT(60), <1>1, <1>3 DEF Looping, Transfer
  <1>5. Copied(buf, c, k)
    <2>1. Image(disk)
      BY Zenon DEF IInv, Types
    <2> HIDE DEF c, f
    <2> QED BY Zenon, <1>1, <1>2, <1>4, <2>1, CopyFacts
  <1>6. buf \in Seq(Byte) /\ Len(buf) = c.total + m
    <2> HIDE DEF buf, k
    <2> QED BY Zenon, <1>5 DEF Copied
  <1>7. m \in Nat /\ m <= c.todo
    BY Zenon, <1>2, <1>4, HereFacts
  <1>8. Loop(p, [Advance(c, m) EXCEPT !.buf = @ \o got], inode)
    BY Zenon DEF BlockRead
  <1>9. [Advance(c, m) EXCEPT !.buf = @ \o got] = d
    <2> HIDE DEF got, m
    <2>1. Advance(c, m).buf = c.buf
      BY Zenon, <1>4 DEF Advance, CallRec
    <2> QED BY Zenon, <2>1
  <1> HIDE DEF got, buf
  <1>10. /\ d \in CallRec /\ Transfer(d, f) /\ d.op = c.op /\ d.file = c.file
         /\ d.total = c.total + m /\ d.todo = c.todo - m /\ d.file_pos = c.file_pos + m
         /\ d.buf = buf
    <2> HIDE DEF c, f, m
    <2> QED BY <1>1, <1>4, <1>6, <1>7, AdvanceFacts
  <1>11. Loop(p, d, inode)
    BY Zenon, <1>8, <1>9
  <1> HIDE DEF d, m
  <1>12. Looping(p, d, f)
    BY Zenon, <1>1, <1>3, <1>10 DEF Looping
  <1> HIDE DEF k, c, f
  <1>13. /\ c.op = "read" /\ c.at = "block" /\ Looping(p, c, f) /\ c.todo > 0
         /\ Looping(p, d, f) /\ d.op = "read" /\ d.file = c.file
         /\ d.file_pos = c.file_pos + m /\ d.total = c.total + m
         /\ d.todo = c.todo - m
         /\ Copied(d.buf, c, k) /\ AtOffset(c, f, k)
         /\ Loop(p, d, mkfs_inode(f.inode_number + 1))
         /\ boot_block = mkfs_boot /\ UNCHANGED <<disk, boot_block, refs>>
    BY Zenon, <1>1, <1>2, <1>3, <1>5, <1>10, <1>11, <1>12
  <1> QED BY ZenonT(60), <1>10, <1>13 DEF c, f, m, k

\* A block has been written: the bytes of the caller are on the disk.
LEMMA BlockWrittenFacts ==
    ASSUME IInv, NEW p \in Process, BlockWritten(p)
    PROVE  \E d \in CallRec, bytes \in Seq(Byte) :
             LET c == call[p]
                 f == file_structs[c.file]
             IN  /\ c.op = "write" /\ c.at = "block" /\ Looping(p, c, f) /\ c.todo > 0
                 /\ Looping(p, d, f) /\ d.op = "write" /\ d.file = c.file
                 /\ d.file_pos = c.file_pos + Here(c) /\ d.total = c.total + Here(c)
                 /\ d.todo = c.todo - Here(c) /\ d.buf = c.buf
                 /\ Len(bytes) = Here(c)
                 /\ \A j \in 1..Here(c) : bytes[j] = c.buf[c.total + j]
                 /\ Changed(bytes, BlockOf(f.inode_number + 1, c.file_pos),
                            c.file_pos % FS_BLKSZ)
                 /\ AtOffset(c, f, BlockOf(f.inode_number + 1, c.file_pos))
                 /\ Loop(p, d, mkfs_inode(f.inode_number + 1))
                 /\ boot_block = mkfs_boot /\ UNCHANGED <<boot_block, refs>> /\ Image(disk')
  <1> DEFINE c == call[p]
             f == file_structs[c.file]
             m == Here(c)
             r == c.file_pos % FS_BLKSZ
             bytes == SubSeq(c.buf, c.total + 1, c.total + m)
             k == BlockOf(f.inode_number + 1, c.file_pos)
             d == Advance(c, m)
  <1>1. /\ c.op = "write" /\ c.at = "block" /\ UNCHANGED <<boot_block, refs>>
        /\ disk' = write_at(pos, bytes) /\ Loop(p, d, inode)
    BY ZenonT(60) DEF BlockWritten
  <1>2. AtOffset(c, f, k) /\ inode = mkfs_inode(f.inode_number + 1) /\ c.todo > 0
    BY ZenonT(60), <1>1, BlockFacts
  <1>3. Looping(p, c, f) /\ boot_block = mkfs_boot
    BY Zenon, <1>1, LoopingFacts
  <1>4. /\ c \in CallRec /\ f \in FileRec /\ Transfer(c, f)
        /\ c.total \in Nat /\ c.todo \in Nat /\ c.buf \in Seq(Byte)
    BY ZenonT(60), <1>1, <1>3 DEF Looping, CallRec
  <1>5. m \in Nat /\ m <= c.todo /\ r \in Nat
    BY SMTT(30), <1>2, <1>4, HereFacts
  <1>6. c.total + c.todo <= Len(c.buf)
    BY ZenonT(60), <1>1, <1>3, TransferFacts DEF Looping
  <1>7. bytes \in Seq(Byte) /\ Len(bytes) = m /\ \A j \in 1..m : bytes[j] = c.buf[c.total + j]
    <2>1. c.total + m <= Len(c.buf) /\ Len(c.buf) \in Nat
      BY <1>4, <1>5, <1>6
    <2> HIDE DEF c, m
    <2>2. bytes \in Seq(Byte)
      BY <1>4, <1>5, <2>1
    <2>3. Len(bytes) = m
      BY <1>4, <1>5, <2>1
    <2>4. \A j \in 1..m : bytes[j] = c.buf[c.total + j]
      BY SMTT(30), <1>4, <1>5, <2>1
    <2> QED BY Zenon, <2>2, <2>3, <2>4
  <1>8. Image(disk') /\ Changed(bytes, k, r)
    <2>1. Image(disk)
      BY Zenon DEF IInv, Types
    <2>2. /\ k \in Nat /\ k + 1 \in (NFILES + 2)..Len(mkfs)
          /\ pos \div FS_BLKSZ = k /\ pos % FS_BLKSZ = r
      <3> HIDE DEF k
      <3> QED BY Zenon, <1>1, <1>2 DEF AtOffset
    <2> HIDE DEF k, r, bytes
    <2> QED BY Zenon, <1>1, <1>5, <1>7, <2>1, <2>2, WriteFacts
  <1>9. d = [Advance(c, m) EXCEPT !.buf = c.buf]
    <2> HIDE DEF c, m
    <2> QED BY ZenonT(60), <1>4 DEF Advance, CallRec
  <1>10. /\ d \in CallRec /\ Transfer(d, f) /\ d.op = c.op /\ d.file = c.file
         /\ d.total = c.total + m /\ d.todo = c.todo - m /\ d.file_pos = c.file_pos + m
         /\ d.buf = c.buf
    <2>1. c.op # "read"
      BY Zenon, <1>1
    <2> HIDE DEF c, f, m, d
    <2> QED BY <1>1, <1>4, <1>5, <1>9, <2>1, AdvanceFacts
  <1> HIDE DEF d, m, bytes
  <1>11. Looping(p, d, f)
    BY ZenonT(60), <1>1, <1>3, <1>10 DEF Looping
  <1> HIDE DEF k, c, f, r
  <1>12. /\ c.op = "write" /\ c.at = "block" /\ Looping(p, c, f) /\ c.todo > 0
         /\ Looping(p, d, f) /\ d.op = "write" /\ d.file = c.file
         /\ d.file_pos = c.file_pos + m /\ d.total = c.total + m
         /\ d.todo = c.todo - m /\ d.buf = c.buf
         /\ Len(bytes) = m /\ \A j \in 1..m : bytes[j] = c.buf[c.total + j]
         /\ Changed(bytes, k, r) /\ AtOffset(c, f, k)
         /\ Loop(p, d, mkfs_inode(f.inode_number + 1))
         /\ boot_block = mkfs_boot /\ UNCHANGED <<boot_block, refs>> /\ Image(disk')
    BY ZenonT(60), <1>1, <1>2, <1>3, <1>7, <1>8, <1>10, <1>11
  <1> QED BY ZenonT(60), <1>7, <1>10, <1>12 DEF c, f, m, k, r

\* A block read preserves the invariant.
LEMMA BlockReadOK ==
    ASSUME IInv, NEW p \in Process, BlockRead(p)
    PROVE  IInv'
  <1> DEFINE f == file_structs[call[p].file]
  <1>1. PICK d \in CallRec :
          /\ Looping(p, d, f) /\ Loop(p, d, mkfs_inode(f.inode_number + 1))
          /\ boot_block = mkfs_boot /\ UNCHANGED <<disk, boot_block, refs>>
    BY Zenon, BlockReadFacts
  <1>2. Image(disk')
    BY Zenon, <1>1 DEF IInv, Types
  <1> HIDE DEF f
  <1> QED BY Zenon, <1>1, <1>2, LoopOK

\* A block written preserves the invariant.
LEMMA BlockWrittenOK ==
    ASSUME IInv, NEW p \in Process, BlockWritten(p)
    PROVE  IInv'
  <1> DEFINE f == file_structs[call[p].file]
  <1>1. PICK d \in CallRec :
          /\ Looping(p, d, f) /\ Loop(p, d, mkfs_inode(f.inode_number + 1))
          /\ boot_block = mkfs_boot /\ UNCHANGED <<boot_block, refs>> /\ Image(disk')
    BY ZenonT(60), BlockWrittenFacts
  <1> HIDE DEF f
  <1> QED BY Zenon, <1>1, LoopOK

-----------------------------------------------------------------------------
(* The invariant *)

\* The file system starts unmounted, with the image of mkfs on the disk.
LEMMA InitOK == Init => IInv
  <1> SUFFICES ASSUME Init PROVE IInv
    BY Zenon
  <1>1. Image(disk) /\ pos \in Nat /\ pos <= Len(mkfs) * FS_BLKSZ
    BY Zenon, MkfsFacts, RoomFacts DEF Init
  <1>2. file_structs \in [Slot -> FileRec] /\ \A s \in Slot : file_structs[s] = NoFile
    BY Zenon DEF Init, NoFile, FileRec
  <1>3. /\ call \in [Process -> CallRec]
        /\ \A p \in Process : call[p].at = "user" /\ call[p].op = "idle"
    <2>1. Idle \in CallRec /\ Idle.at = "user" /\ Idle.op = "idle"
      BY SMTT(30) DEF Idle, CallRec
    <2> QED BY Zenon, <2>1 DEF Init
  <1>4. /\ files \in [1..NFILES -> Seq(Byte)]
        /\ \A f \in 1..NFILES : Len(files[f]) = Len(Content[f])
    BY ContentFacts, KfsAssumption DEF Init
  <1>5. fs_lock = Nobody /\ Nobody \notin Process /\ result.to = Nobody
    BY Zenon, KfsAssumption DEF Init, None
  <1>6. refs \in [Slot -> SUBSET Process] /\ \A s \in Slot : refs[s] = {}
    BY Zenon DEF Init
  <1>7. Types
    BY Zenon, <1>1, <1>2, <1>3, <1>4, <1>5, <1>6 DEF Types
  <1>8. Boot
    BY Zenon, <1>2, <1>3 DEF Boot, NoBoot, Init
  <1>9. \A s \in Slot : OpenFile(file_structs[s], refs[s])
    BY <1>2, <1>6 DEF OpenFile, NoFile
  <1>10. \A p \in Process : CallOf(p, call[p])
    BY Zenon, <1>3, <1>5 DEF CallOf
  <1> QED BY Zenon, <1>7, <1>8, <1>9, <1>10 DEF IInv

\* Every step preserves the invariant.
LEMMA NextOK == IInv /\ [Next]_vars => IInv'
  <1> SUFFICES ASSUME IInv, [Next]_vars PROVE IInv'
    BY Zenon
  <1>1. CASE UNCHANGED vars
    BY ZenonT(60), <1>1 DEF vars, IInv, Types, Boot, OpenFile, CallOf, InCall, Transfer, AtBlock,
                data_block_offset
  <1>2. CASE fs_mount
    BY Zenon, <1>2, MountOK
  <1>3. ASSUME NEW p \in Process, Step(p) PROVE IInv'
    BY Zenon, <1>3, InodeOfOpenOK, InodeOfTransferOK, BlockReadOK, BlockWrittenOK DEF Step
  <1>4. ASSUME NEW p \in Process, NEW name \in 1..(NFILES + 1), fs_open(p, name) PROVE IInv'
    BY Zenon, <1>4, OpenOK
  <1>5. ASSUME NEW p \in Process, NEW q \in Process, fork(p, q) PROVE IInv'
    BY Zenon, <1>5, ForkOK
  <1>6. ASSUME NEW p \in Process, NEW s \in Slot, fs_close(p, s) PROVE IInv'
    BY Zenon, <1>6, CloseOK
  <1>7. ASSUME NEW p \in Process, NEW s \in Slot, NEW n \in Asked, fs_read(p, s, n) PROVE IInv'
    <2>1. n \in Nat /\ <<>> \in Seq(Byte)
      BY KfsAssumption
    <2> QED BY Zenon, <1>7, <2>1, StartOK DEF fs_read
  <1>8. ASSUME NEW p \in Process, NEW s \in Slot, NEW n \in Asked, fs_setpos(p, s, n) PROVE IInv'
    BY Zenon, <1>8, SetposOK
  <1>9. ASSUME NEW p \in Process, NEW s \in Slot, NEW bytes \in Written, fs_write(p, s, bytes)
        PROVE  IInv'
    <2>1. bytes \in Seq(Byte) /\ Len(bytes) \in Nat
      BY KfsAssumption
    <2> QED BY Zenon, <1>9, <2>1, StartOK DEF fs_write
  <1> QED BY Zenon, <1>1, <1>2, <1>3, <1>4, <1>5, <1>6, <1>7, <1>8, <1>9 DEF Next

\* A call that sleeps in kfs.c has the lock, is at its own block and stays in its
\* file and in the buffer of its caller, and no call changes the boot block or an
\* inode on the disk.
THEOREM InvCorrect == Spec => []IInv
  BY InitOK, NextOK, PTL DEF Spec

\* What the invariant says of a call that sleeps.
LEMMA IInvOneCallAtDisk == IInv => OneCallAtDisk
  <1> SUFFICES ASSUME IInv PROVE OneCallAtDisk
    BY Zenon
  <1>1. ASSUME NEW p \in Process
        PROVE  LET c == call[p]
                   num == file_structs[c.file].inode_number
               IN  /\ (fs_lock = p) = (c.at # "user")
                   /\ c.at = "inode" => pos = inode_offset(num)
                   /\ c.at = "block" =>
                        /\ inode = disk[num + 2]
                        /\ (c.file_pos \div FS_BLKSZ) + 1 \in DOMAIN inode.data_block_num
    <2> DEFINE c == call[p]
               f == file_structs[c.file]
               num == f.inode_number
    <2>1. (fs_lock = p) = (c.at # "user")
      BY Zenon DEF IInv, CallOf, InCall
    <2>2. c.at = "inode" => pos = inode_offset(num)
      BY Zenon DEF IInv, CallOf, InCall
    <2>3. ASSUME c.at = "block"
          PROVE  /\ inode = disk[num + 2]
                 /\ (c.file_pos \div FS_BLKSZ) + 1 \in DOMAIN inode.data_block_num
      <3>1. c.op \in {"read", "write"}
        <4>1. c.at # "user"
          BY Zenon, <2>3
        <4>2. c.op # "idle" /\ c.op # "open" /\ c \in CallRec
          BY Zenon, <2>3, <4>1, TypeFacts DEF IInv, CallOf, InCall
        <4> QED BY Zenon, <4>2 DEF CallRec
      <3>2. Looping(p, c, f) /\ inode = mkfs_inode(num + 1) /\ c.todo > 0
        BY ZenonT(60), <2>3, <3>1, LoopingFacts, BlockFacts
      <3>3. /\ c.todo \in Nat /\ c.file_pos \in Nat /\ c.file_pos + c.todo <= f.file_size
            /\ num + 1 \in 1..NFILES /\ f.file_size = Len(Content[num + 1]) /\ f.file_size \in Nat
            /\ num \in Nat
        BY Zenon, <3>2, TransferFacts DEF Looping
      <3>4. num < NFILES /\ c.file_pos < Len(Content[num + 1])
        <4> HIDE DEF c, f
        <4> QED BY <3>2, <3>3, SizeFacts
      <3>5. Image(disk)
        BY Zenon DEF IInv, Types
      <3> HIDE DEF c, num
      <3>6. disk[num + 2] = mkfs_inode(num + 1)
        BY Zenon, <3>3, <3>4, <3>5, InodeFacts
      <3>7. (c.file_pos \div FS_BLKSZ) + 1 \in DOMAIN mkfs_inode(num + 1).data_block_num
        BY Zenon, <3>3, <3>4, NumberFacts
      <3> QED BY Zenon, <3>2, <3>6, <3>7
    <2> QED BY Zenon, <2>1, <2>2, <2>3
  <1>2. Len(disk) = Len(mkfs) /\ pos \in 0..(Len(disk) * FS_BLKSZ)
    <2>1. Len(disk) = Len(mkfs) /\ pos \in Nat /\ pos <= Len(mkfs) * FS_BLKSZ
      BY Zenon DEF IInv, Types, Image
    <2> QED BY <2>1, RoomFacts
  <1>3. TypeOK
    <2>1. \A s \in Slot : file_structs[s].flags = 1 => file_structs[s].inode_number < NFILES
      BY DEF IInv, OpenFile
    <2>2. \A p \in Process : /\ call[p].op \in {"idle", "open", "read", "write"}
                             /\ call[p].at \in {"user", "inode", "block"}
                             /\ (call[p].op = "idle") = (call[p].at = "user")
      BY Zenon, TypeFacts DEF IInv, CallOf, CallRec
    <2> QED BY Zenon, <1>2, <2>1, <2>2 DEF IInv, Types, FileRec, TypeOK
  <1> QED BY Zenon, <1>1, <1>3 DEF OneCallAtDisk

\* One call of kfs.c at a time uses the disk: it has fs_lock, the disk is where it
\* positioned it, and inode is the inode of its file, for any image, any number of
\* processes and any table of open files.
THEOREM OneCallAtDiskCorrect == Spec => []OneCallAtDisk
  BY InvCorrect, IInvOneCallAtDisk, PTL

-----------------------------------------------------------------------------
(* The bytes on the disk *)

\* The byte of the disk that the inode of file f names for byte i.
DiskByte(d, f, i) == d[BlockOf(f, i - 1) + 1][((i - 1) % FS_BLKSZ) + 1]

\* The bytes from at to the end of its block are in the block that at is in.
LEMMA SameBlock ==
    ASSUME NEW at \in Nat, NEW x \in Nat, (at % FS_BLKSZ) + x < FS_BLKSZ
    PROVE  /\ (at + x) \div FS_BLKSZ = at \div FS_BLKSZ
           /\ (at + x) % FS_BLKSZ = (at % FS_BLKSZ) + x
  <1> DEFINE B == FS_BLKSZ
             q == at \div B
             r == at % B
             e == r + x
  <1>1. B \in Nat \ {0}
    BY Zenon, SizeFacts
  <1>2. q \in Nat /\ r \in 0..(B - 1) /\ at = B * q + r
    BY Zenon, <1>1, DivMod
  <1>3. e < B
    BY Zenon
  <1> HIDE DEF q, r, B
  <1>4. e \in 0..(B - 1) /\ at + x = q * B + e
    BY <1>1, <1>2, <1>3
  <1> HIDE DEF e
  <1>5. (q * B + e) \div B = q /\ (q * B + e) % B = e
    BY ZenonT(60), <1>1, <1>2, <1>4, DivUnique
  <1> QED BY Zenon, <1>4, <1>5 DEF q, r, e, B

\* Two bytes of the same block are as far apart as their places in it.
LEMMA BlockDistance ==
    ASSUME NEW a \in Nat, NEW b \in Nat, a \div FS_BLKSZ = b \div FS_BLKSZ
    PROVE  a - b = (a % FS_BLKSZ) - (b % FS_BLKSZ)
  <1> DEFINE B == FS_BLKSZ
             q == a \div B
             s == a % B
             t == b % B
  <1>1. B \in Nat \ {0}
    BY Zenon, SizeFacts
  <1>2. q \in Nat /\ s \in Nat /\ t \in Nat /\ a = B * q + s
    BY <1>1, DivMod
  <1>3. b = B * q + t
    BY Zenon, <1>1, DivMod
  <1> HIDE DEF q, s, t, B
  <1>4. B * q \in Nat
    BY <1>1, <1>2
  <1>5. a - b = s - t
    BY <1>2, <1>3, <1>4
  <1> QED BY Zenon, <1>5 DEF s, t, B

\* No two files share a block, and no two blocks of a file are the same.
LEMMA BlocksApart ==
    ASSUME NEW f \in 1..NFILES, NEW g \in 1..NFILES,
           NEW a \in Nat, a < Len(Content[f]), NEW b \in Nat, b < Len(Content[g]),
           BlockOf(f, a) = BlockOf(g, b)
    PROVE  f = g /\ a \div FS_BLKSZ = b \div FS_BLKSZ
  <1> DEFINE x == data_block_idx[f - 1]
             y == data_block_idx[g - 1]
             s == a \div FS_BLKSZ
             t == b \div FS_BLKSZ
             m == blocks_for_file(f)
             n == blocks_for_file(g)
  <1>1. x \in Nat /\ s \in Nat /\ s < m
    BY Zenon, NumberFacts
  <1>2. y \in Nat /\ t \in Nat /\ t < n
    BY Zenon, NumberFacts
  <1>3. f \in Nat /\ g \in Nat /\ NFILES \in Nat /\ m \in Nat /\ n \in Nat
    BY ContentFacts
  <1>4. f < g => x + m <= y
    BY Zenon, IdxGrows
  <1>5. g < f => y + n <= x
    BY Zenon, IdxGrows
  <1>6. NFILES + 1 + x + s = NFILES + 1 + y + t
    BY Zenon DEF BlockOf
  <1> HIDE DEF x, y, s, t, m, n
  <1>7. x + s = y + t
    BY <1>1, <1>2, <1>3, <1>6
  <1>8. ~(f < g) /\ ~(g < f)
    BY <1>1, <1>2, <1>3, <1>4, <1>5, <1>7
  <1>9. f = g
    BY <1>3, <1>8
  <1>10. x = y
    BY Zenon, <1>9 DEF x, y
  <1>11. s = t
    BY <1>1, <1>2, <1>7, <1>10
  <1> QED BY Zenon, <1>9, <1>11 DEF s, t

\* Every block of a file is on the disk, as mkfs wrote it.
LEMMA OnImage ==
    ASSUME PartlyFilled, NEW f \in 1..NFILES, NEW a \in Nat, a < Len(Content[f])
    PROVE  /\ BlockOf(f, a) \in Nat /\ BlockOf(f, a) + 1 \in (NFILES + 2)..Len(mkfs)
           /\ mkfs[BlockOf(f, a) + 1] = mkfs_data(Content[f])[(a \div FS_BLKSZ) + 1]
  <1> DEFINE x == data_block_idx[f - 1]
             q == a \div FS_BLKSZ
             D == data_blocks[NFILES]
  <1>1. x \in Nat /\ q \in Nat /\ NFILES \in Nat
    BY Zenon, NumberFacts, SizeFacts
  <1>2. a + 1 \in 1..Len(Content[f]) /\ (a + 1) - 1 = a
    BY ContentFacts
  <1>3. q + 1 \in 1..filled(f)
    BY Zenon, <1>2, DataFacts
  <1>4. x + (q + 1) \in 1..Len(D) /\ D[x + (q + 1)] = mkfs_data(Content[f])[q + 1]
    <2>1. Placed(NFILES)
      BY Zenon, LayoutFacts
    <2> QED BY Zenon, <1>3, <2>1 DEF Placed
  <1>5. /\ Len(mkfs) = NFILES + 1 + Len(D)
        /\ \A k \in 1..Len(D) : mkfs[NFILES + 1 + k] = D[k]
    BY Zenon, MkfsFacts
  <1>6. BlockOf(f, a) = NFILES + 1 + x + q
    BY Zenon DEF BlockOf
  <1>7. Len(D) \in Nat
    BY <1>1, AreaFacts
  <1> HIDE DEF x, q, D
  <1>8. BlockOf(f, a) \in Nat /\ BlockOf(f, a) + 1 = NFILES + 1 + (x + (q + 1))
    BY <1>1, <1>6
  <1>9. NFILES + 1 + (x + (q + 1)) \in (NFILES + 2)..Len(mkfs)
    BY <1>1, <1>4, <1>5, <1>7
  <1>10. mkfs[NFILES + 1 + (x + (q + 1))] = mkfs_data(Content[f])[q + 1]
    BY Zenon, <1>4, <1>5
  <1> QED BY Zenon, <1>8, <1>9, <1>10 DEF q

\* The image of mkfs holds the files it was given.
LEMMA ImageBytes ==
    ASSUME PartlyFilled, NEW f \in 1..NFILES, NEW i \in 1..Len(Content[f])
    PROVE  DiskByte(mkfs, f, i) = Content[f][i]
  <1>1. i - 1 \in Nat /\ i - 1 < Len(Content[f])
    BY ContentFacts
  <1>2. mkfs[BlockOf(f, i - 1) + 1] = mkfs_data(Content[f])[((i - 1) \div FS_BLKSZ) + 1]
    BY Zenon, <1>1, OnImage
  <1>3. mkfs_data(Content[f])[((i - 1) \div FS_BLKSZ) + 1][((i - 1) % FS_BLKSZ) + 1]
          = Content[f][i]
    BY Zenon, DataFacts
  <1> QED BY Zenon, <1>2, <1>3 DEF DiskByte

\* Byte i of file f as the disk has it, during the transfer c of the open file h.
Seen(c, h, f, i) ==
  IF c.op = "write" /\ f = h.inode_number + 1 /\ i \in (h.file_position + 1)..c.file_pos
  THEN c.buf[i - h.file_position] ELSE files[f][i]

\* The disk has the files, as a transfer has left them so far.
OnDisk(d, c, h) ==
  \A f \in 1..NFILES : \A i \in 1..Len(Content[f]) : DiskByte(d, f, i) = Seen(c, h, f, i)

\* A read has the bytes of its file.
HasRead(c, h) ==
  c.op = "read" => \A j \in 1..c.total : c.buf[j] = files[h.inode_number + 1][h.file_position + j]

\* The bytes on the disk are those of the history, and of the write in progress.
DataInv ==
  /\ (\A p \in Process : call[p].op = "idle") => OnDisk(disk, Idle, NoFile)
  /\ \A p \in Process : call[p].op # "idle" =>
       LET h == file_structs[call[p].file]
       IN  OnDisk(disk, call[p], h) /\ HasRead(call[p], h)

\* Without a write the disk has the history.
LEMMA NoWrite ==
    ASSUME NEW c, c.op # "write", NEW h, NEW d
    PROVE  OnDisk(d, c, h) <=> OnDisk(d, Idle, NoFile)
  BY Zenon DEF OnDisk, Seen, Idle

\* The image of mkfs has the files.
LEMMA InitData == ASSUME PartlyFilled, Init PROVE DataInv
  <1>1. disk = mkfs /\ files = Content /\ \A p \in Process : call[p].op = "idle"
    BY Zenon DEF Init, Idle
  <1>2. OnDisk(disk, Idle, NoFile)
    BY Zenon, <1>1, ImageBytes DEF OnDisk, Seen, Idle
  <1> QED BY Zenon, <1>1, <1>2 DEF DataInv

\* A step that leaves the disk, the history and all calls alone.
LEMMA KeepsData ==
    ASSUME DataInv, UNCHANGED <<disk, files, call>>,
           \A p \in Process : call[p].op # "idle" =>
             file_structs'[call[p].file] = file_structs[call[p].file]
    PROVE  DataInv'
  <1>1. ASSUME NEW c, NEW h, OnDisk(disk, c, h) PROVE OnDisk(disk, c, h)'
    BY Zenon, <1>1 DEF OnDisk, Seen, DiskByte
  <1>2. ASSUME NEW c, NEW h, HasRead(c, h) PROVE HasRead(c, h)'
    BY Zenon, <1>2 DEF HasRead
  <1>3. ASSUME \A p \in Process : call'[p].op = "idle"
        PROVE  OnDisk(disk, Idle, NoFile)'
    BY Zenon, <1>1, <1>3 DEF DataInv
  <1>4. ASSUME NEW p \in Process, call'[p].op # "idle"
        PROVE  LET h == file_structs[call[p].file]
               IN  (OnDisk(disk, call[p], h) /\ HasRead(call[p], h))'
    BY ZenonT(60), <1>1, <1>2, <1>4 DEF DataInv
  <1> QED BY ZenonT(60), <1>3, <1>4 DEF DataInv

\* A call that has the lock is the only one.
LEMMA OthersIdle ==
    ASSUME IInv, NEW p \in Process, fs_lock = p
    PROVE  call[p].op # "idle" /\ \A q \in Process : q # p => call[q].op = "idle"
  <1>1. call[p].at # "user" /\ call[p].op # "idle"
    BY Zenon DEF IInv, CallOf
  <1> QED BY Zenon, <1>1, OneCaller

\* A call begins with nothing transferred.
LEMMA BeginData ==
    ASSUME IInv, DataInv, NEW p \in Process, Calls(p), NEW c, c.op # "idle", c.total = 0,
           c.op = "write" => c.file_pos = file_structs'[c.file].file_position /\ c.file_pos \in Nat,
           UNCHANGED <<disk, files>>, call' = [call EXCEPT ![p] = c]
    PROVE  DataInv'
  <1> DEFINE h == file_structs'[c.file]
  <1>1. \A q \in Process : call[q].op = "idle"
    BY ZenonT(60), NoCaller DEF Calls
  <1>2. /\ call'[p] = c /\ \A q \in Process : q # p => call'[q] = call[q]
    BY ZenonT(60) DEF IInv, Types
  <1>3. OnDisk(disk, Idle, NoFile)
    BY Zenon, <1>1 DEF DataInv
  <1>4. ASSUME NEW f \in 1..NFILES, NEW i \in 1..Len(Content[f])
        PROVE  Seen(c, h, f, i) = files[f][i]
    <2>1. c.op = "write" => i \notin (h.file_position + 1)..c.file_pos
      OBVIOUS
    <2> QED BY Zenon, <2>1 DEF Seen
  <1>6. \A f \in 1..NFILES : \A i \in 1..Len(Content[f]) : DiskByte(disk', f, i) = files[f][i]
    BY <1>3 DEF OnDisk, Seen, Idle, DiskByte
  <1>7. OnDisk(disk', c, h) /\ HasRead(c, h)
    BY <1>4, <1>6 DEF OnDisk, HasRead
  <1>8. (OnDisk(disk, call[p], file_structs[call[p].file])
           /\ HasRead(call[p], file_structs[call[p].file]))'
    <2>1. h = file_structs'[c.file] /\ files' = files
      BY Zenon
    <2> HIDE DEF h
    <2>2. (OnDisk(disk, call[p], file_structs[call[p].file]))'
      BY ONLY ZenonT(60), <1>2, <1>7, <2>1 DEF OnDisk, Seen
    <2>3. (HasRead(call[p], file_structs[call[p].file]))'
      BY ONLY Zenon, <1>2, <1>7, <2>1 DEF HasRead
    <2> QED BY ONLY Zenon, <2>2, <2>3
  <1> QED BY ZenonT(60), <1>1, <1>2, <1>8 DEF DataInv

\* A call ends: the disk has the history.
LEMMA EndData ==
    ASSUME IInv, NEW p \in Process, fs_lock = p, call' = [call EXCEPT ![p] = Idle],
           \A f \in 1..NFILES : \A i \in 1..Len(Content[f]) : DiskByte(disk', f, i) = files'[f][i]
    PROVE  DataInv'
  <1>1. \A q \in Process : call'[q].op = "idle"
    BY ZenonT(60), OthersIdle DEF IInv, Types, Idle
  <1>2. OnDisk(disk, Idle, NoFile)'
    BY Zenon DEF OnDisk, Seen, Idle
  <1> QED BY Zenon, <1>1, <1>2 DEF DataInv

\* The next block of a transfer is on the disk.
LEMMA NextOnDisk ==
    ASSUME PartlyFilled, IInv, boot_block = mkfs_boot, NEW p \in Process, NEW c, NEW f,
           Looping(p, c, f), c.todo > 0, NextBlock(p, c, mkfs_inode(f.inode_number + 1))
    PROVE  /\ call' = [call EXCEPT ![p] = [c EXCEPT !.at = "block"]]
           /\ result' = None
           /\ UNCHANGED <<file_structs, fs_lock, files>>
  <1> DEFINE n == f.inode_number + 1
             r == IF c.op = "write" THEN c.file_pos % FS_BLKSZ ELSE 0
             num == mkfs_inode(n).data_block_num[(c.file_pos \div FS_BLKSZ) + 1]
             offset == data_block_offset(num) + r
             k == BlockOf(n, c.file_pos)
  <1>1. /\ c.todo \in Nat /\ c.file_pos \in Nat /\ c.file_pos + c.todo <= f.file_size
        /\ n \in 1..NFILES /\ f.file_size = Len(Content[n]) /\ f.file_size \in Nat
    BY ZenonT(60), TransferFacts DEF Looping
  <1>2. c.file_pos < Len(Content[n]) /\ r \in 0..(FS_BLKSZ - 1)
    <2>1. c.file_pos % FS_BLKSZ \in 0..(FS_BLKSZ - 1) /\ 0 \in 0..(FS_BLKSZ - 1)
      BY ZenonT(60), <1>1, InBlock
    <2> QED BY <1>1, <2>1
  <1>3. offset = k * FS_BLKSZ + r /\ k \in Nat
    <2> HIDE DEF n, r
    <2> QED BY <1>1, <1>2, OffsetFacts
  <1>4. k + 1 <= Len(mkfs)
    <2>1. k + 1 \in (NFILES + 2)..Len(mkfs)
      <3> HIDE DEF n
      <3> QED BY Zenon, <1>1, <1>2, OnImage
    <2> HIDE DEF k
    <2> QED BY <1>3, <2>1, SizeFacts
  <1>5. offset < Len(mkfs) * FS_BLKSZ
    <2> DEFINE M == Len(mkfs)
               B == FS_BLKSZ
    <2>1. M \in Nat /\ B \in Nat \ {0}
      BY Zenon, SizeFacts
    <2> HIDE DEF M, k, r, offset
    <2>2. PICK e \in Nat : M = k + 1 + e
      <3>1. M - (k + 1) \in Nat /\ M = k + 1 + (M - (k + 1))
        BY <1>3, <1>4, <2>1 DEF M
      <3> QED BY Zenon, <3>1
    <2>3. M * B = k * B + B + e * B /\ e * B \in Nat /\ k * B \in Nat
      BY <1>3, <2>1, <2>2
    <2>4. offset < M * B
      BY <1>2, <1>3, <2>1, <2>3
    <2> QED BY Zenon, <2>4 DEF M
  <1>6. on_disk(offset)
    <2>1. Len(disk) = Len(mkfs)
      BY Zenon DEF IInv, Types, Image
    <2> HIDE DEF offset
    <2> QED BY Zenon, <1>5, <2>1 DEF on_disk
  <1> QED BY Zenon, <1>6 DEF NextBlock

\* One turn of the loop, when the disk is as the transfer says.
LEMMA LoopData ==
    ASSUME PartlyFilled, IInv, boot_block = mkfs_boot, NEW p \in Process, NEW c, NEW f,
           Looping(p, c, f), Loop(p, c, mkfs_inode(f.inode_number + 1)),
           OnDisk(disk', c, f), HasRead(c, f)
    PROVE  DataInv'
  <1>1. c.todo \in Nat /\ c \in CallRec /\ fs_lock = p /\ f = file_structs[c.file]
        /\ c.op \in {"read", "write"} /\ c.file \in Slot
    BY ZenonT(60) DEF Looping, CallRec
  <1>2. CASE c.todo = 0
    <2>1. Complete(p, c)
      BY Zenon, <1>2 DEF Loop
    <2>2. \A g \in 1..NFILES : files'[g] = Stored(c, f, g)
      <3>1. Completed(p, c, f)
        BY Zenon, <1>2, <2>1, CompleteFacts
      <3> QED BY Zenon, <3>1 DEF Completed
    <2>3. ASSUME NEW g \in 1..NFILES, NEW i \in 1..Len(Content[g])
          PROVE  DiskByte(disk', g, i) = files'[g][i]
      <3>1. DiskByte(disk', g, i) = Seen(c, f, g, i)
        BY Zenon DEF OnDisk
      <3>2. Stored(c, f, g)[i] = Seen(c, f, g, i)
        BY ZenonT(60), <1>1 DEF Stored, Seen
      <3> QED BY Zenon, <2>2, <3>1, <3>2
    <2>4. call' = [call EXCEPT ![p] = Idle]
      BY Zenon, <2>1 DEF Complete, Finish
    <2> QED BY ZenonT(60), <1>1, <2>3, <2>4, EndData
  <1>3. CASE c.todo > 0
    <2> DEFINE d == [c EXCEPT !.at = "block"]
    <2>1. NextBlock(p, c, mkfs_inode(f.inode_number + 1))
      BY <1>1, <1>3 DEF Loop
    <2>2. call' = [call EXCEPT ![p] = d] /\ UNCHANGED <<file_structs, files>>
      BY Zenon, <1>3, <2>1, NextOnDisk
    <2>3. /\ d.op = c.op /\ d.file = c.file /\ d.file_pos = c.file_pos
          /\ d.total = c.total /\ d.buf = c.buf
      BY Zenon, <1>1 DEF CallRec
    <2> HIDE DEF d
    <2>4. call'[p] = d /\ \A q \in Process : q # p => call'[q].op = "idle"
      BY Zenon, <1>1, <2>2, OthersIdle DEF IInv, Types
    <2>5. file_structs'[d.file] = f
      BY Zenon, <1>1, <2>2, <2>3
    <2>6. OnDisk(disk', d, f) /\ HasRead(d, f)
      BY ZenonT(60), <2>3 DEF OnDisk, HasRead, Seen
    <2>7. (OnDisk(disk, call[p], file_structs[call[p].file])
             /\ HasRead(call[p], file_structs[call[p].file]))'
      <3>1. (OnDisk(disk, call[p], file_structs[call[p].file]))'
        BY ONLY <2>2, <2>4, <2>5, <2>6 DEF OnDisk, Seen
      <3>2. (HasRead(call[p], file_structs[call[p].file]))'
        BY ONLY Zenon, <2>2, <2>4, <2>5, <2>6 DEF HasRead
      <3> QED BY ONLY Zenon, <3>1, <3>2
    <2>8. call'[p].op # "idle"
      BY ZenonT(60), <1>1, <2>3, <2>4
    <2> QED BY ZenonT(60), <2>4, <2>7, <2>8 DEF DataInv
  <1>4. c.todo = 0 \/ c.todo > 0
    BY ONLY <1>1
  <1> QED BY ONLY Zenon, <1>2, <1>3, <1>4

\* The bytes of one turn of the loop are in one block.
LEMMA TurnFacts ==
    ASSUME NEW c \in CallRec, c.todo > 0, NEW x \in Nat, x < Here(c), NEW n
    PROVE  /\ BlockOf(n, c.file_pos + x) = BlockOf(n, c.file_pos)
           /\ (c.file_pos + x) % FS_BLKSZ = (c.file_pos % FS_BLKSZ) + x
  <1>1. c.file_pos \in Nat /\ FS_BLKSZ \in Nat
    BY Zenon, SizeFacts DEF CallRec
  <1>2. /\ Here(c) \in Nat /\ c.file_pos % FS_BLKSZ \in Nat
        /\ (c.file_pos % FS_BLKSZ) + Here(c) <= FS_BLKSZ
    BY HereFacts
  <1> DEFINE at == c.file_pos
             r == at % FS_BLKSZ
             m == Here(c)
  <1> HIDE DEF at, m
  <1>3. (at % FS_BLKSZ) + x < FS_BLKSZ
    <2> HIDE DEF r
    <2>1. r + x < FS_BLKSZ
      BY <1>1, <1>2 DEF r, m, at
    <2> QED BY Zenon, <2>1 DEF r
  <1>4. at \in Nat
    BY Zenon, <1>1 DEF at
  <1>5. (at + x) \div FS_BLKSZ = at \div FS_BLKSZ /\ (at + x) % FS_BLKSZ = (at % FS_BLKSZ) + x
    BY Zenon, <1>3, <1>4, SameBlock
  <1> QED BY Zenon, <1>5 DEF BlockOf, at

\* A block written: the disk has what the write says.
LEMMA BlockWrittenData ==
    ASSUME PartlyFilled, IInv, DataInv, NEW p \in Process, BlockWritten(p)
    PROVE  \E d \in CallRec :
             LET f == file_structs[call[p].file]
             IN  /\ Looping(p, d, f) /\ d.op = "write"
                 /\ Loop(p, d, mkfs_inode(f.inode_number + 1))
                 /\ boot_block = mkfs_boot /\ UNCHANGED <<boot_block, refs>>
                 /\ OnDisk(disk', d, f) /\ HasRead(d, f)
  <1> DEFINE c == call[p]
             f == file_structs[c.file]
             n == f.inode_number + 1
             m == Here(c)
             r == c.file_pos % FS_BLKSZ
             k == BlockOf(n, c.file_pos)
  <1>1. PICK d \in CallRec, bytes \in Seq(Byte) :
          /\ c.op = "write" /\ Looping(p, c, f) /\ c.todo > 0
          /\ Looping(p, d, f) /\ d.op = "write"
          /\ d.file_pos = c.file_pos + m /\ d.buf = c.buf
          /\ Len(bytes) = m
          /\ \A j \in 1..m : bytes[j] = c.buf[c.total + j]
          /\ Changed(bytes, k, r) /\ AtOffset(c, f, k)
          /\ Loop(p, d, mkfs_inode(n))
          /\ boot_block = mkfs_boot /\ UNCHANGED <<boot_block, refs>>
    BY ZenonT(60), BlockWrittenFacts
  <1>2. OnDisk(disk, c, f)
    BY ZenonT(60), <1>1 DEF DataInv
  <1>3. /\ c \in CallRec /\ c.total \in Nat /\ c.file_pos \in Nat /\ f.file_position \in Nat
        /\ c.file_pos = f.file_position + c.total
        /\ n \in 1..NFILES /\ f.file_size = Len(Content[n])
        /\ c.todo \in Nat /\ c.file_pos + c.todo <= f.file_size /\ f.file_size \in Nat
    BY ZenonT(60), <1>1, TransferFacts DEF Looping
  <1>4. /\ m \in Nat /\ m <= c.todo /\ r \in 0..(FS_BLKSZ - 1) /\ FS_BLKSZ \in Nat
    BY ZenonT(60), <1>1, <1>3, HereFacts, SizeFacts
  <1>5. k \in Nat /\ k + 1 \in (NFILES + 2)..Len(mkfs) /\ NFILES \in Nat /\ Len(mkfs) \in Nat
    BY ZenonT(60), <1>1, SizeFacts DEF AtOffset
  <1>6. c.file_pos < Len(Content[n])
    <2> HIDE DEF c, f, n
    <2>1. c.todo > 0
      BY ONLY Zenon, <1>1
    <2> QED BY ONLY <1>3, <2>1
  <1>e. d.op = c.op /\ d.buf = c.buf /\ d.file_pos = c.file_pos + m
    BY ZenonT(60), <1>1
  <1> HIDE DEF c, f, m, n, r, k
  <1>t. ASSUME NEW i \in Nat
        PROVE  /\ i \in (c.file_pos + 1)..(c.file_pos + m) <=> i - c.file_pos \in 1..m
               /\ c.total + (i - c.file_pos) = i - f.file_position
               /\ i - c.file_pos \in 1..m =>
                    /\ i \in (f.file_position + 1)..(c.file_pos + m)
                    /\ i - 1 - c.file_pos \in Nat /\ i - 1 - c.file_pos < m
                    /\ i - 1 = c.file_pos + (i - 1 - c.file_pos)
               /\ i \notin (c.file_pos + 1)..(c.file_pos + m) =>
                    (i \in (f.file_position + 1)..(c.file_pos + m)
                       <=> i \in (f.file_position + 1)..c.file_pos)
    <2> DEFINE at == c.file_pos
               start == f.file_position
               t == c.total
    <2>1. at \in Nat /\ start \in Nat /\ t \in Nat /\ m \in Nat /\ at = start + t
      BY Zenon, <1>3, <1>4
    <2> HIDE DEF at, start, t
    <2>2. /\ i \in (at + 1)..(at + m) <=> i - at \in 1..m
          /\ t + (i - at) = i - start
          /\ i - at \in 1..m => /\ i \in (start + 1)..(at + m)
                               /\ i - 1 - at \in Nat /\ i - 1 - at < m
                               /\ i - 1 = at + (i - 1 - at)
          /\ i \notin (at + 1)..(at + m) =>
               (i \in (start + 1)..(at + m) <=> i \in (start + 1)..at)
      BY <2>1
    <2> QED BY Zenon, <2>2 DEF at, start, t
  <1>7. ASSUME NEW g \in 1..NFILES, NEW i \in 1..Len(Content[g])
        PROVE  DiskByte(disk', g, i) = Seen(d, f, g, i)
    <2> DEFINE x == BlockOf(g, i - 1)
               j == ((i - 1) % FS_BLKSZ) + 1
    <2>1. i - 1 \in Nat /\ i \in Nat /\ i - 1 < Len(Content[g])
      BY ContentFacts
    <2>2. x \in Nat /\ x + 1 \in (NFILES + 2)..Len(mkfs)
      BY Zenon, <2>1, OnImage
    <2>3. DiskByte(disk, g, i) = Seen(c, f, g, i)
      BY Zenon, <1>2 DEF OnDisk
    <2>4. DiskByte(disk', g, i) = disk'[x + 1][j] /\ DiskByte(disk, g, i) = disk[x + 1][j]
      BY Zenon DEF DiskByte
    <2>5. j \in 1..FS_BLKSZ
      <3>1. (i - 1) % FS_BLKSZ \in 0..(FS_BLKSZ - 1)
        BY Zenon, <2>1, InBlock
      <3> QED BY <1>4, <3>1
    <2>6. CASE x # k
      <3>1. g = n => i \notin (c.file_pos + 1)..(c.file_pos + m)
        <4> SUFFICES ASSUME g = n, i \in (c.file_pos + 1)..(c.file_pos + m) PROVE FALSE
          BY Zenon
        <4>1. i - 1 - c.file_pos \in Nat /\ i - 1 - c.file_pos < m
              /\ i - 1 = c.file_pos + (i - 1 - c.file_pos)
          BY Zenon, <1>t, <2>1
        <4>2. BlockOf(n, c.file_pos + (i - 1 - c.file_pos)) = BlockOf(n, c.file_pos)
          BY ZenonT(60), <1>1, <1>3, <4>1, TurnFacts DEF m
        <4> QED BY Zenon, <2>6, <4>1, <4>2 DEF k
      <3>2. x + 1 # k + 1 /\ x + 1 \in 1..Len(mkfs)
        <4> HIDE DEF x
        <4> QED BY <1>5, <2>2, <2>6
      <3>3. disk'[x + 1] = disk[x + 1]
        <4> HIDE DEF x
        <4> QED BY ZenonT(60), <1>1, <3>2 DEF Changed
      <3>4. Seen(d, f, g, i) = Seen(c, f, g, i)
        BY Zenon, <1>e, <1>t, <2>1, <3>1 DEF Seen, n
      <3> HIDE DEF x, j
      <3> QED BY ZenonT(60), <2>3, <2>4, <3>3, <3>4
    <2>7. CASE x = k
      <3>1. g = n /\ (i - 1) \div FS_BLKSZ = c.file_pos \div FS_BLKSZ
        BY ZenonT(60), <1>3, <1>6, <2>1, <2>7, BlocksApart DEF k
      <3>2. j - r = i - c.file_pos
        <4>1. (i - 1) - c.file_pos = ((i - 1) % FS_BLKSZ) - r
          BY Zenon, <1>3, <2>1, <3>1, BlockDistance DEF r
        <4> DEFINE o == (i - 1) % FS_BLKSZ
                   at == c.file_pos
        <4>2. o \in Nat /\ r \in Nat /\ at \in Nat /\ (i - 1) - at = o - r
          BY <1>3, <1>4, <2>1, <4>1, InBlock
        <4> HIDE DEF o, at
        <4>3. (o + 1) - r = i - at
          BY <2>1, <4>2
        <4> QED BY Zenon, <4>3 DEF o, at
      <3> HIDE DEF x, j
      <3>3. disk'[k + 1][j] = IF j - r \in 1..m THEN bytes[j - r] ELSE disk[k + 1][j]
        BY Zenon, <1>1, <2>5 DEF Changed
      <3>4. CASE i - c.file_pos \in 1..m
        <4>1. disk'[k + 1][j] = c.buf[c.total + (i - c.file_pos)]
          BY ZenonT(60), <1>1, <3>2, <3>3, <3>4
        <4>2. c.total + (i - c.file_pos) = i - f.file_position
          BY Zenon, <1>t, <2>1
        <4>3. i \in (f.file_position + 1)..d.file_pos
          BY Zenon, <1>e, <1>t, <2>1, <3>4
        <4>4. Seen(d, f, g, i) = d.buf[i - f.file_position]
          BY ZenonT(60), <1>1, <3>1, <4>3 DEF Seen, n
        <4> QED BY ZenonT(60), <1>1, <2>4, <2>7, <4>1, <4>2, <4>4
      <3>5. CASE i - c.file_pos \notin 1..m
        <4>1. i \notin (c.file_pos + 1)..(c.file_pos + m)
          BY Zenon, <1>t, <2>1, <3>5
        <4>2. Seen(d, f, g, i) = Seen(c, f, g, i)
          BY Zenon, <1>e, <1>t, <2>1, <4>1 DEF Seen
        <4>3. disk'[k + 1][j] = disk[k + 1][j]
          BY Zenon, <3>2, <3>3, <3>5
        <4> QED BY ZenonT(60), <2>3, <2>4, <2>7, <4>2, <4>3
      <3> QED BY Zenon, <3>4, <3>5
    <2> QED BY Zenon, <2>6, <2>7
  <1>8. OnDisk(disk', d, f)
    BY Zenon, <1>7 DEF OnDisk
  <1>9. HasRead(d, f)
    BY ZenonT(60), <1>1 DEF HasRead
  <1> QED BY ZenonT(60), <1>1, <1>8, <1>9 DEF n, c, f

\* A block read: the buffer has the bytes of the file.
LEMMA BlockReadData ==
    ASSUME PartlyFilled, IInv, DataInv, NEW p \in Process, BlockRead(p)
    PROVE  \E d \in CallRec :
             LET f == file_structs[call[p].file]
             IN  /\ Looping(p, d, f) /\ d.op = "read"
                 /\ Loop(p, d, mkfs_inode(f.inode_number + 1))
                 /\ boot_block = mkfs_boot /\ UNCHANGED <<boot_block, refs>>
                 /\ OnDisk(disk', d, f) /\ HasRead(d, f)
  <1> DEFINE c == call[p]
             f == file_structs[c.file]
             n == f.inode_number + 1
             m == Here(c)
             r == c.file_pos % FS_BLKSZ
             k == BlockOf(n, c.file_pos)
  <1>1. PICK d \in CallRec :
          /\ c.op = "read" /\ Looping(p, c, f) /\ c.todo > 0
          /\ Looping(p, d, f) /\ d.op = "read" /\ d.total = c.total + m
          /\ Copied(d.buf, c, k) /\ AtOffset(c, f, k)
          /\ Loop(p, d, mkfs_inode(n))
          /\ boot_block = mkfs_boot /\ UNCHANGED <<disk, boot_block, refs>>
    BY Zenon, BlockReadFacts
  <1>2. OnDisk(disk, c, f) /\ HasRead(c, f)
    BY ZenonT(60), <1>1 DEF DataInv
  <1>3. /\ c \in CallRec /\ c.total \in Nat /\ c.file_pos \in Nat /\ f.file_position \in Nat
        /\ c.file_pos = f.file_position + c.total
        /\ n \in 1..NFILES /\ f.file_size = Len(Content[n])
        /\ c.todo \in Nat /\ c.file_pos + c.todo <= f.file_size /\ f.file_size \in Nat
    BY ZenonT(60), <1>1, TransferFacts DEF Looping
  <1>4. /\ m \in Nat /\ m <= c.todo
    BY ZenonT(60), <1>1, <1>3, HereFacts
  <1> HIDE DEF c, f, m, n, r, k
  <1>5. OnDisk(disk', d, f)
    <2>1. OnDisk(disk, d, f)
      BY Zenon, <1>1, <1>2, NoWrite
    <2> QED BY Zenon, <1>1, <2>1
  <1>6. ASSUME NEW j \in 1..m PROVE d.buf[c.total + j] = files[n][f.file_position + (c.total + j)]
    <2> DEFINE i == c.file_pos + j
    <2>1. /\ j - 1 \in Nat /\ j - 1 < m /\ i \in 1..Len(Content[n])
          /\ i - 1 = c.file_pos + (j - 1) /\ i = f.file_position + (c.total + j)
      <3> DEFINE at == c.file_pos
                 start == f.file_position
                 t == c.total
                 L == Len(Content[n])
      <3>1. /\ at \in Nat /\ start \in Nat /\ t \in Nat /\ at = start + t /\ L \in Nat
            /\ m \in Nat /\ at + m <= L
        <4>1. /\ c.todo \in Nat /\ at \in Nat /\ m \in Nat /\ L \in Nat
              /\ m <= c.todo /\ at + c.todo <= L
          BY Zenon, <1>3, <1>4
        <4>2. start \in Nat /\ t \in Nat /\ at = start + t
          BY Zenon, <1>3
        <4> HIDE DEF L, at, start, t
        <4>3. at + m <= L
          BY <4>1
        <4> QED BY Zenon, <4>1, <4>2, <4>3
      <3> HIDE DEF at, start, t, L
      <3>2. /\ j - 1 \in Nat /\ j - 1 < m /\ at + j \in 1..L
            /\ (at + j) - 1 = at + (j - 1) /\ at + j = start + (t + j)
        BY <3>1
      <3> QED BY Zenon, <3>2 DEF at, start, t, L
    <2>2. /\ BlockOf(n, c.file_pos + (j - 1)) = k
          /\ (c.file_pos + (j - 1)) % FS_BLKSZ = r + (j - 1)
      BY ZenonT(60), <1>1, <1>3, <2>1, TurnFacts DEF m, k, r
    <2>3. r \in Nat
      BY <1>1, <1>3, HereFacts DEF r
    <2> HIDE DEF i
    <2>4. DiskByte(disk, n, i) = disk[k + 1][(r + (j - 1)) + 1]
      BY Zenon, <2>1, <2>2 DEF DiskByte
    <2>5. (r + (j - 1)) + 1 = r + j
      BY <2>3
    <2>6. d.buf[c.total + j] = disk[k + 1][r + j]
      BY ZenonT(60), <1>1 DEF Copied, m, r
    <2>7. DiskByte(disk, n, i) = files[n][i]
      BY ZenonT(60), <1>1, <1>2, <1>3, <2>1 DEF OnDisk, Seen
    <2> QED BY ZenonT(60), <2>1, <2>4, <2>5, <2>6, <2>7
  <1>7. ASSUME NEW j \in 1..c.total PROVE d.buf[j] = files[n][f.file_position + j]
    <2>1. d.buf[j] = c.buf[j]
      BY ZenonT(60), <1>1 DEF Copied
    <2>2. c.buf[j] = files[n][f.file_position + j]
      BY ZenonT(60), <1>1, <1>2 DEF HasRead, n
    <2> QED BY Zenon, <2>1, <2>2
  <1>8. HasRead(d, f)
    <2> SUFFICES ASSUME NEW j \in 1..d.total
                 PROVE  d.buf[j] = files[n][f.file_position + j]
      BY Zenon DEF HasRead, n
    <2>1. CASE j <= c.total
      BY <1>3, <1>7, <2>1
    <2>2. CASE j > c.total
      <3>1. j - c.total \in 1..m /\ c.total + (j - c.total) = j
        BY SMTT(30), <1>1, <1>3, <1>4, <2>2
      <3> QED BY Zenon, <1>6, <3>1
    <2> QED BY <1>3, <2>1, <2>2
  <1> QED BY ZenonT(60), <1>1, <1>5, <1>8 DEF n, c, f

\* The inode of a transfer: nothing has been transferred.
LEMMA InodeData ==
    ASSUME IInv, DataInv, NEW p \in Process, InodeOfTransfer(p)
    PROVE  LET c == call[p]
               f == file_structs[c.file]
           IN  /\ Looping(p, c, f) /\ Loop(p, c, mkfs_inode(f.inode_number + 1))
               /\ boot_block = mkfs_boot /\ UNCHANGED <<boot_block, refs>>
               /\ OnDisk(disk', c, f) /\ HasRead(c, f)
  <1> DEFINE c == call[p]
             f == file_structs[c.file]
  <1>1. /\ c.op \in {"read", "write"} /\ c.at = "inode" /\ Loop(p, c, block_at(pos))
        /\ UNCHANGED <<disk, boot_block, refs>>
    BY Zenon DEF InodeOfTransfer
  <1>2. /\ Looping(p, c, f) /\ boot_block = mkfs_boot /\ f.inode_number < NFILES
        /\ pos = inode_offset(f.inode_number)
    BY ZenonT(60), <1>1, LoopingFacts
  <1>3. f.inode_number \in Nat /\ Image(disk)
    BY Zenon, <1>2 DEF Looping, FileRec, IInv, Types
  <1>4. block_at(pos) = mkfs_inode(f.inode_number + 1)
    <2> HIDE DEF f
    <2> QED BY Zenon, <1>2, <1>3, InodeFacts
  <1>5. OnDisk(disk, c, f) /\ HasRead(c, f)
    BY Zenon, <1>1 DEF DataInv
  <1> HIDE DEF c, f
  <1>6. OnDisk(disk', c, f)
    BY Zenon, <1>1, <1>5
  <1> QED BY ZenonT(60), <1>1, <1>2, <1>4, <1>5, <1>6 DEF c, f

\* What the three steps of a transfer have in common: the loop goes on with d.
Turn(p, d, f) ==
  /\ Looping(p, d, f) /\ Loop(p, d, mkfs_inode(f.inode_number + 1))
  /\ boot_block = mkfs_boot /\ UNCHANGED <<boot_block, refs>>
  /\ OnDisk(disk', d, f) /\ HasRead(d, f)

\* The inode or a block of a transfer has arrived.
LEMMA TurnOfStep ==
    ASSUME PartlyFilled, IInv, DataInv, NEW p \in Process,
           InodeOfTransfer(p) \/ BlockRead(p) \/ BlockWritten(p)
    PROVE  \E d \in CallRec : Turn(p, d, file_structs[call[p].file])
  <1>1. CASE InodeOfTransfer(p)
    <2>1. Turn(p, call[p], file_structs[call[p].file])
      BY ZenonT(60), <1>1, InodeData DEF Turn
    <2>2. call[p] \in CallRec
      BY ZenonT(60), TypeFacts DEF IInv
    <2> QED BY Zenon, <2>1, <2>2
  <1>2. CASE BlockRead(p)
    BY ZenonT(60), <1>2, BlockReadData DEF Turn
  <1>3. CASE BlockWritten(p)
    BY Zenon, <1>3, BlockWrittenData DEF Turn
  <1> QED BY Zenon, <1>1, <1>2, <1>3

\* The end of fs_open leaves the disk alone.
LEMMA OpenedData ==
    ASSUME IInv, DataInv, NEW p \in Process, InodeOfOpen(p)
    PROVE  DataInv'
  <1>1. /\ call[p].op = "open" /\ UNCHANGED <<disk, files>> /\ call' = [call EXCEPT ![p] = Idle]
    BY Zenon DEF InodeOfOpen, Finish
  <1>2. call[p].at # "user"
    BY Zenon, <1>1 DEF IInv, CallOf
  <1>3. fs_lock = p
    BY Zenon, <1>2, OneCaller
  <1>4. OnDisk(disk, call[p], file_structs[call[p].file])
    BY Zenon, <1>1 DEF DataInv
  <1>5. ASSUME NEW f \in 1..NFILES, NEW i \in 1..Len(Content[f])
        PROVE  DiskByte(disk', f, i) = files'[f][i]
    BY Zenon, <1>1, <1>4 DEF OnDisk, Seen
  <1> QED BY ZenonT(60), <1>1, <1>3, <1>5, EndData

\* So does the start of a read or a write,
LEMMA StartData ==
    ASSUME IInv, DataInv, NEW p \in Process, NEW op \in {"read", "write"}, NEW s \in Slot, NEW n,
           NEW buf, Calls(p), Start(p, op, s, n, buf)
    PROVE  DataInv'
  <1> DEFINE f == file_structs[s]
             m == Min2(n, f.file_size - f.file_position)
             c == [op |-> op, file |-> s, at |-> "inode", buf |-> buf, total |-> 0,
                   file_pos |-> f.file_position, todo |-> m]
  <1>1. ASSUME NEW r, Refuse(p, r) PROVE DataInv'
    BY Zenon, <1>1, KeepsData DEF Refuse
  <1>2. ASSUME Begin(p, op, s, m, buf) PROVE DataInv'
    <2>1. UNCHANGED <<disk, files, file_structs>> /\ call' = [call EXCEPT ![p] = c]
      BY Zenon, <1>2 DEF Begin, ReadInode
    <2>2. c.op = op /\ c.total = 0 /\ c.file = s /\ c.file_pos = f.file_position
      BY ZenonT(60)
    <2>3. f.file_position \in Nat
      BY ZenonT(60), TypeFacts DEF IInv, FileRec
    <2> HIDE DEF c, m
    <2>4. c.op # "idle"
      BY Zenon, <2>2
    <2>5. c.file_pos = file_structs'[c.file].file_position /\ c.file_pos \in Nat
      BY Zenon, <2>1, <2>2, <2>3
    <2> QED BY ZenonT(60), <2>1, <2>2, <2>4, <2>5, BeginData
  <1>3. CASE f.flags = 0
    BY Zenon, <1>1, <1>3 DEF Start
  <1>4. CASE f.flags # 0 /\ f.file_position >= f.file_size
    BY Zenon, <1>1, <1>4 DEF Start
  <1>5. CASE f.flags # 0 /\ ~(f.file_position >= f.file_size)
    BY Zenon, <1>2, <1>5 DEF Start
  <1> QED BY Zenon, <1>3, <1>4, <1>5

\* and that of fs_open.
LEMMA OpenData ==
    ASSUME IInv, DataInv, NEW p \in Process, NEW name, fs_open(p, name)
    PROVE  DataInv'
  <1>1. ASSUME NEW r, Refuse(p, r) PROVE DataInv'
    BY Zenon, <1>1, KeepsData DEF Refuse
  <1>2. ASSUME NEW s \in Slot,
               ReadInode(p, [Idle EXCEPT !.op = "open", !.file = s, !.at = "inode"], name - 1)
        PROVE  DataInv'
    <2> DEFINE c == [Idle EXCEPT !.op = "open", !.file = s, !.at = "inode"]
    <2>1. UNCHANGED <<disk, files>> /\ call' = [call EXCEPT ![p] = c]
      BY Zenon, <1>2 DEF ReadInode
    <2>2. c.op = "open" /\ c.total = 0
      BY Zenon DEF Idle
    <2>3. Calls(p)
      BY Zenon DEF fs_open
    <2> HIDE DEF c
    <2>4. c.op # "idle" /\ c.op # "write"
      BY Zenon, <2>2
    <2> QED BY Zenon, <2>1, <2>2, <2>3, <2>4, BeginData
  <1> QED BY ZenonT(60), <1>1, <1>2 DEF fs_open

\* Every step preserves what the disk holds, where mkfs put the files.
LEMMA NextData ==
    ASSUME PartlyFilled, IInv, DataInv, [Next]_vars
    PROVE  DataInv'
  <1>1. CASE UNCHANGED vars
    BY Zenon, <1>1, KeepsData DEF vars
  <1>2. CASE fs_mount
    <2>1. boot_block # mkfs_boot => \A p \in Process : call[p].op = "idle"
      BY ZenonT(60) DEF IInv, Boot, CallOf
    <2>2. ASSUME boot_block = mkfs_boot, NEW p \in Process PROVE call[p].op = "idle"
      <3>1. NFILES = 0
        BY Zenon, <1>2, <2>2 DEF fs_mount, mkfs_boot
      <3>2. call[p].at = "user"
        <4> SUFFICES ASSUME call[p].at # "user" PROVE FALSE
          BY Zenon
        <4>1. InCall(p, call[p], file_structs[call[p].file])
          BY Zenon, OneCaller
        <4>2. call[p].file \in Slot /\ file_structs[call[p].file].inode_number < 0
          BY ZenonT(60), <3>1, <4>1 DEF InCall
        <4>3. file_structs[call[p].file].inode_number \in Nat
          BY Zenon, <4>2, TypeFacts DEF IInv, FileRec
        <4> QED BY <4>2, <4>3
      <3> QED BY Zenon, <3>2 DEF IInv, CallOf
    <2> QED BY ZenonT(60), <1>2, <2>1, <2>2, KeepsData DEF fs_mount
  <1>3. ASSUME NEW p \in Process, Step(p) PROVE DataInv'
    <2>1. CASE InodeOfOpen(p)
      BY Zenon, <2>1, OpenedData
    <2>2. CASE InodeOfTransfer(p) \/ BlockRead(p) \/ BlockWritten(p)
      <3>1. PICK d \in CallRec : Turn(p, d, file_structs[call[p].file])
        BY Zenon, <2>2, TurnOfStep
      <3> QED BY ZenonT(60), <3>1, LoopData DEF Turn
    <2> QED BY Zenon, <1>3, <2>1, <2>2 DEF Step
  <1>4. ASSUME NEW p \in Process, NEW name \in 1..(NFILES + 1), fs_open(p, name) PROVE DataInv'
    BY Zenon, <1>4, OpenData
  <1>5. ASSUME NEW p \in Process, NEW q \in Process, fork(p, q) PROVE DataInv'
    BY Zenon, <1>5, KeepsData DEF fork
  <1>6. ASSUME NEW p \in Process, NEW s \in Slot, fs_close(p, s) PROVE DataInv'
    <2>1. UNCHANGED <<disk, files, call>> /\ InUser(p) /\ p \in refs[s]
      BY Zenon, <1>6 DEF fs_close
    <2>2. ASSUME NEW q \in Process, call[q].op # "idle"
          PROVE  file_structs'[call[q].file] = file_structs[call[q].file]
      <3>1. CASE refs[s] # {p}
        BY Zenon, <1>6, <3>1 DEF fs_close
      <3>2. CASE refs[s] = {p}
        <4>1. call[q].at # "user" /\ q # p
          BY Zenon, <2>1, <2>2 DEF IInv, CallOf, InUser
        <4>2. InCall(q, call[q], file_structs[call[q].file])
          BY Zenon, <4>1, OneCaller
        <4>3. call[q].file # s
          <5> SUFFICES ASSUME call[q].file = s PROVE FALSE
            BY Zenon
          <5>1. call[q].op = "open"
            BY ZenonT(60), <3>2, <4>1, <4>2 DEF InCall
          <5>2. file_structs[s].flags = 0
            BY Zenon, <4>2, <5>1 DEF InCall
          <5> QED BY Zenon, <3>2, <5>2 DEF IInv, OpenFile
        <4>4. file_structs' = [file_structs EXCEPT ![s].flags = 0]
          BY Zenon, <1>6, <3>2 DEF fs_close
        <4> QED BY <4>3, <4>4
      <3> QED BY Zenon, <3>1, <3>2
    <2> QED BY Zenon, <2>1, <2>2, KeepsData
  <1>7. ASSUME NEW p \in Process, NEW s \in Slot, NEW n \in Asked, fs_read(p, s, n) PROVE DataInv'
    BY Zenon, <1>7, StartData DEF fs_read
  <1>8. ASSUME NEW p \in Process, NEW s \in Slot, NEW n \in Asked, fs_setpos(p, s, n)
        PROVE  DataInv'
    <2>1. Calls(p) /\ UNCHANGED <<disk, files, call>>
      BY Zenon, <1>8 DEF fs_setpos, fs_ioctl
    <2>2. \A q \in Process : call[q].op = "idle"
      BY Zenon, <2>1, NoCaller DEF Calls
    <2> QED BY Zenon, <2>1, <2>2, KeepsData
  <1>9. ASSUME NEW p \in Process, NEW s \in Slot, NEW bytes \in Written, fs_write(p, s, bytes)
        PROVE  DataInv'
    BY Zenon, <1>9, StartData DEF fs_write
  <1> QED BY ZenonT(60), <1>1, <1>2, <1>3, <1>4, <1>5, <1>6, <1>7, <1>8, <1>9 DEF Next

-----------------------------------------------------------------------------
(* The calls are the operations of Files *)

\* The open files as their holders see them.
Handles ==
  [s \in Slot |->
     IF file_structs[s].flags = 0 THEN [file |-> 0, pos |-> 0, holders |-> {}]
     ELSE [file |-> file_structs[s].inode_number + 1,
           pos |-> file_structs[s].file_position, holders |-> refs[s]]]

Shut == [file |-> 0, pos |-> 0, holders |-> {}]

\* The handle of a slot that is in use.
Used(f, holders) == [file |-> f.inode_number + 1, pos |-> f.file_position, holders |-> holders]

\* The handle of a slot.
LEMMA HandleFacts ==
    ASSUME NEW s \in Slot
    PROVE  /\ file_structs[s].flags = 0 => Handles[s] = Shut
           /\ file_structs[s].flags # 0 => Handles[s] = Used(file_structs[s], refs[s])
           /\ file_structs'[s].flags = 0 => Handles'[s] = Shut
           /\ file_structs'[s].flags # 0 => Handles'[s] = Used(file_structs'[s], refs'[s])
  BY ZenonT(60) DEF Handles, Shut, Used

\* A step that changes one slot.
LEMMA HandleChange ==
    ASSUME NEW s \in Slot,
           \A t \in Slot : t # s => file_structs'[t] = file_structs[t] /\ refs'[t] = refs[t]
    PROVE  Handles' = [Handles EXCEPT ![s] = Handles'[s]]
  BY ZenonT(60) DEF Handles

\* A step that the holders do not see.
LEMMA HandlesKept ==
    ASSUME \A t \in Slot :
             /\ file_structs'[t].flags = file_structs[t].flags
             /\ file_structs[t].flags # 0 =>
                  /\ file_structs'[t].inode_number = file_structs[t].inode_number
                  /\ file_structs'[t].file_position = file_structs[t].file_position
                  /\ refs'[t] = refs[t]
    PROVE  Handles' = Handles
  BY Zenon DEF Handles

\* A call that goes on, or a step of the kernel.
LEMMA ForgetStep ==
    ASSUME result' = None, UNCHANGED files, Handles' = Handles
    PROVE  F!Next
  BY Zenon DEF F!Next, F!Forget, F!None, None, Handles

\* A call gives p what Files gives, at the slot s that p holds.
LEMMA HeldFacts ==
    ASSUME IInv, NEW p \in Process, NEW s \in Slot, p \in refs[s]
    PROVE  LET f == file_structs[s]
           IN  /\ f \in FileRec /\ f.flags = 1
               /\ f.inode_number \in Nat /\ f.file_position \in Nat /\ f.file_size \in Nat
               /\ f.inode_number + 1 \in 1..NFILES
               /\ f.file_size = Len(Content[f.inode_number + 1])
               /\ files[f.inode_number + 1] \in Seq(Byte)
               /\ Len(files[f.inode_number + 1]) = f.file_size
               /\ f.file_position <= f.file_size
               /\ Handles[s] = Used(f, refs[s])
  <1> DEFINE f == file_structs[s]
  <1>1. f \in FileRec /\ OpenFile(f, refs[s])
    BY ZenonT(60), TypeFacts DEF IInv
  <1>2. /\ f.flags \in {0, 1} /\ f.inode_number \in Nat /\ f.file_position \in Nat
        /\ f.file_size \in Nat
    BY Zenon, <1>1 DEF FileRec
  <1>3. f.flags = 1
    BY Zenon, <1>1, <1>2 DEF OpenFile
  <1>4. /\ f.inode_number < NFILES /\ f.file_size = Len(Content[f.inode_number + 1])
        /\ f.file_position <= f.file_size
    BY Zenon, <1>1, <1>3 DEF OpenFile
  <1>5. f.inode_number + 1 \in 1..NFILES
    BY <1>2, <1>4, SizeFacts
  <1>6. /\ files[f.inode_number + 1] \in Seq(Byte)
        /\ Len(files[f.inode_number + 1]) = f.file_size
    BY Zenon, <1>4, <1>5 DEF IInv, Types
  <1>7. Handles[s] = Used(f, refs[s])
    BY <1>3, HandleFacts
  <1> QED BY ZenonT(60), <1>1, <1>2, <1>3, <1>4, <1>5, <1>6, <1>7

\* No file is open at first.
LEMMA InitFiles == Init => F!Init
  <1> SUFFICES ASSUME Init PROVE F!Init
    BY Zenon
  <1>1. \A s \in Slot : file_structs[s].flags = 0
    BY Zenon DEF Init, NoFile
  <1>2. Handles = [s \in Slot |-> Shut]
    BY Zenon, <1>1 DEF Handles, Shut
  <1>3. files = Content /\ result = None
    BY Zenon DEF Init
  <1> QED BY ZenonT(60), <1>2, <1>3 DEF F!Init, F!Closed, F!None, None, Handles, Shut

\* fs_mount opens no file and closes none.
LEMMA MountStep == ASSUME IInv, fs_mount PROVE F!Next
  <1>1. /\ boot_block.num_inodes = 0 /\ result' = None /\ UNCHANGED <<files, refs>>
        /\ file_structs' = [s \in Slot |-> NoFile]
    BY Zenon DEF fs_mount
  <1>2. ASSUME NEW s \in Slot PROVE file_structs[s].flags = 0
    <2>1. CASE boot_block = mkfs_boot
      <3>1. NFILES = 0
        BY Zenon, <1>1, <2>1 DEF mkfs_boot
      <3>2. file_structs[s] \in FileRec /\ OpenFile(file_structs[s], refs[s])
        BY Zenon, TypeFacts DEF IInv
      <3>3. file_structs[s].inode_number \in Nat
        BY Zenon, <3>2 DEF FileRec
      <3> QED BY <3>1, <3>2, <3>3 DEF OpenFile
    <2>2. CASE boot_block # mkfs_boot
      BY <2>2 DEF IInv, Boot, NoFile
    <2> QED BY Zenon, <2>1, <2>2
  <1>3. \A s \in Slot : file_structs'[s].flags = 0
    BY Zenon, <1>1 DEF NoFile
  <1>4. Handles' = Handles
    BY Zenon, <1>2, <1>3, HandlesKept
  <1> QED BY Zenon, <1>1, <1>4, ForgetStep

\* fork is Fork.
LEMMA ForkStep ==
    ASSUME IInv, NEW p \in Process, NEW q \in Process, fork(p, q)
    PROVE  F!Next
  <1>1. /\ result' = None /\ UNCHANGED <<files, file_structs>>
        /\ refs' = [s \in Slot |-> IF p \in refs[s] THEN refs[s] \cup {q} ELSE refs[s]]
    BY Zenon DEF fork
  <1>2. ASSUME NEW s \in Slot
        PROVE  Handles'[s] = IF p \in Handles[s].holders
                             THEN [Handles[s] EXCEPT !.holders = @ \cup {q}] ELSE Handles[s]
    <2>1. CASE file_structs[s].flags = 0
      <3>1. Handles[s] = Shut /\ Handles'[s] = Shut
        BY ZenonT(60), <1>1, <2>1, HandleFacts
      <3> QED BY <3>1 DEF Shut
    <2>2. CASE file_structs[s].flags # 0
      <3>1. /\ Handles[s] = Used(file_structs[s], refs[s])
            /\ Handles'[s] = Used(file_structs[s], refs'[s])
        BY Zenon, <1>1, <2>2, HandleFacts
      <3>2. refs'[s] = IF p \in refs[s] THEN refs[s] \cup {q} ELSE refs[s]
        BY Zenon, <1>1
      <3>3. Handles[s].holders = refs[s]
        BY <3>1 DEF Used
      <3>4. [Handles[s] EXCEPT !.holders = @ \cup {q}] = Used(file_structs[s], refs[s] \cup {q})
        <4> DEFINE more == Handles[s].holders \cup {q}
        <4>1. more = refs[s] \cup {q}
          BY Zenon, <3>3
        <4> HIDE DEF more
        <4>2. [Handles[s] EXCEPT !.holders = more] = Used(file_structs[s], more)
          BY <3>1 DEF Used
        <4> QED BY Zenon, <4>1, <4>2 DEF more
      <3>5. CASE p \in refs[s]
        BY Zenon, <3>1, <3>2, <3>3, <3>4, <3>5
      <3>6. CASE p \notin refs[s]
        BY Zenon, <3>1, <3>2, <3>3, <3>6
      <3> QED BY Zenon, <3>5, <3>6
    <2> QED BY Zenon, <2>1, <2>2
  <1>3. Handles' = [s \in Slot |-> IF p \in Handles[s].holders
                                   THEN [Handles[s] EXCEPT !.holders = @ \cup {q}] ELSE Handles[s]]
    <2>1. Handles' = [s \in Slot |-> Handles'[s]]
      BY Zenon DEF Handles
    <2> QED BY Zenon, <1>2, <2>1
  <1>4. F!Fork(p, q)
    BY Zenon, <1>1, <1>3 DEF F!Fork, F!Holds, F!None, None, Handles
  <1> QED BY Zenon, <1>4 DEF F!Next

\* fs_close is Close.
LEMMA CloseStep ==
    ASSUME IInv, NEW p \in Process, NEW s \in Slot, fs_close(p, s)
    PROVE  F!Next
  <1>1. /\ p \in refs[s] /\ result' = None /\ UNCHANGED files
        /\ refs' = [refs EXCEPT ![s] = @ \ {p}]
        /\ file_structs' = IF refs[s] = {p} THEN [file_structs EXCEPT ![s].flags = 0]
                           ELSE file_structs
    BY Zenon DEF fs_close
  <1>2. /\ file_structs[s] \in FileRec /\ file_structs[s].flags = 1
        /\ Handles[s] = Used(file_structs[s], refs[s])
    BY Zenon, <1>1, HeldFacts
  <1>3. file_structs \in [Slot -> FileRec] /\ refs \in [Slot -> SUBSET Process]
    BY Zenon DEF IInv, Types
  <1>4. \A t \in Slot : t # s => file_structs'[t] = file_structs[t] /\ refs'[t] = refs[t]
    BY Zenon, <1>1, <1>3
  <1> DEFINE left == Handles[s].holders \ {p}
  <1>5. Handles'[s] = IF left = {} THEN Shut ELSE [Handles[s] EXCEPT !.holders = left]
    <2>1. refs'[s] = refs[s] \ {p} /\ left = refs[s] \ {p}
      BY <1>1, <1>2, <1>3 DEF Used
    <2>2. CASE refs[s] = {p}
      <3>1. file_structs'[s].flags = 0
        BY Zenon, <1>1, <1>2, <1>3, <2>2 DEF FileRec
      <3>2. left = {}
        BY Zenon, <2>1, <2>2
      <3> QED BY Zenon, <3>1, <3>2, HandleFacts
    <2>3. CASE refs[s] # {p}
      <3>1. file_structs'[s] = file_structs[s] /\ file_structs'[s].flags # 0
        BY <1>1, <1>2, <2>3
      <3>2. left # {}
        BY Zenon, <1>1, <2>1, <2>3
      <3>3. Handles'[s] = Used(file_structs[s], left)
        <4>1. Handles'[s] = Used(file_structs'[s], refs'[s])
          BY Zenon, <3>1, HandleFacts
        <4> QED BY Zenon, <2>1, <3>1, <4>1
      <3>4. [Handles[s] EXCEPT !.holders = left] = Used(file_structs[s], left)
        <4> HIDE DEF left
        <4> QED BY <1>2 DEF Used
      <3> QED BY Zenon, <3>2, <3>3, <3>4
    <2> QED BY Zenon, <2>2, <2>3
  <1>6. Handles' = [Handles EXCEPT ![s] = Handles'[s]]
    BY Zenon, <1>4, HandleChange
  <1>7. Handles' = [Handles EXCEPT ![s] = IF left = {} THEN Shut ELSE [@ EXCEPT !.holders = left]]
    <2> HIDE DEF left
    <2> QED BY Zenon, <1>5, <1>6
  <1>8. p \in Handles[s].holders
    BY <1>1, <1>2 DEF Used
  <1>9. F!Close(p, s)
    BY Zenon, <1>1, <1>7, <1>8 DEF F!Close, F!Holds, F!Closed, F!None, None, Handles, Shut
  <1> QED BY Zenon, <1>9 DEF F!Next

\* fs_setpos is SetPos, or SetPosFails behind the end of the file.
LEMMA SetposStep ==
    ASSUME IInv, NEW p \in Process, NEW s \in Slot, NEW n \in Asked, fs_setpos(p, s, n)
    PROVE  F!Next
  <1> DEFINE f == file_structs[s]
  <1>1. p \in refs[s] /\ UNCHANGED <<files, refs>>
    BY Zenon DEF fs_setpos, fs_ioctl
  <1>2. /\ f \in FileRec /\ f.flags = 1 /\ f.file_size \in Nat
        /\ Len(files[f.inode_number + 1]) = f.file_size /\ Handles[s] = Used(f, refs[s])
    BY ZenonT(60), <1>1, HeldFacts
  <1>3. /\ p \in Handles[s].holders /\ Handles[s].pos = f.file_position
        /\ Len(files[Handles[s].file]) = f.file_size
    BY SMTT(30), <1>1, <1>2 DEF Used
  <1>4. file_structs \in [Slot -> FileRec] /\ n \in Nat
    BY ZenonT(60), KfsAssumption DEF IInv, Types
  <1>5. CASE n > f.file_size
    <2>1. /\ result' = Error(p, "setpos", n)
          /\ file_structs' = [file_structs EXCEPT ![s].file_position = f.file_position]
      BY Zenon, <1>5 DEF fs_setpos, fs_ioctl
    <2>2. file_structs' = file_structs
      BY Zenon, <1>2, <1>4, <2>1 DEF FileRec
    <2>3. Handles' = Handles
      BY Zenon, <1>1, <2>2, HandlesKept
    <2>4. n > Len(files[Handles[s].file])
      BY Zenon, <1>3, <1>5
    <2>5. F!SetPosFails(p, s, n)
      BY Zenon, <1>1, <1>3, <2>1, <2>3, <2>4 DEF F!SetPosFails, F!Holds, F!Error, Error, Handles
    <2> QED BY Zenon, <2>5 DEF F!Next
  <1>6. CASE ~(n > f.file_size)
    <2>1. /\ result' = Ok(p, "setpos", 0, <<>>)
          /\ file_structs' = [file_structs EXCEPT ![s].file_position = n]
      BY Zenon, <1>6 DEF fs_setpos, fs_ioctl
    <2>2. /\ file_structs'[s] = [f EXCEPT !.file_position = n]
          /\ \A t \in Slot : t # s => file_structs'[t] = file_structs[t]
      BY Zenon, <1>4, <2>1
    <2>3. Handles' = [Handles EXCEPT ![s] = Handles'[s]]
      BY Zenon, <1>1, <2>2, HandleChange
    <2>4. Handles'[s] = [Handles[s] EXCEPT !.pos = n]
      <3>1. /\ file_structs'[s].flags = 1 /\ file_structs'[s].inode_number = f.inode_number
            /\ file_structs'[s].file_position = n
        BY Zenon, <1>2, <2>2 DEF FileRec
      <3>2. Handles'[s] = Used(file_structs'[s], refs[s])
        BY SMTT(30), <1>1, <3>1, HandleFacts
      <3> QED BY <1>2, <3>1, <3>2 DEF Used
    <2>5. Handles' = [Handles EXCEPT ![s].pos = n]
      BY Zenon, <2>3, <2>4
    <2>6. n \in 0..Len(files[Handles[s].file])
      BY SMTT(30), <1>2, <1>3, <1>4, <1>6
    <2>7. F!SetPos(p, s, n)
      BY Zenon, <1>1, <1>3, <2>1, <2>5, <2>6 DEF F!SetPos, F!Holds, F!Ok, Ok, Handles
    <2> QED BY Zenon, <2>7 DEF F!Next
  <1> QED BY Zenon, <1>5, <1>6

\* fs_open is refused as OpenFails is, or its start is not seen.
LEMMA OpenStep ==
    ASSUME IInv, NEW p \in Process, NEW name \in 1..(NFILES + 1), fs_open(p, name)
    PROVE  F!Next
  <1>1. boot_block.num_dentry = NFILES
    BY ZenonT(60), MountedFacts DEF fs_open, Calls
  <1>2. file_structs \in [Slot -> FileRec]
    BY Zenon DEF IInv, Types
  <1>3. CASE name \in 1..boot_block.num_dentry /\ \E s \in Slot : file_structs[s].flags = 0
    <2>1. PICK s \in Slot :
            /\ free_slot(s)
            /\ file_structs' = [file_structs EXCEPT ![s].file_position = 0,
                                                    ![s].inode_number = name - 1]
            /\ ReadInode(p, [Idle EXCEPT !.op = "open", !.file = s, !.at = "inode"], name - 1)
      BY Zenon, <1>3 DEF fs_open
    <2>2. result' = None /\ UNCHANGED <<files, refs>> /\ file_structs[s].flags = 0
      BY Zenon, <2>1 DEF ReadInode, free_slot
    <2>3. /\ file_structs'[s].flags = 0
          /\ \A t \in Slot : t # s => file_structs'[t] = file_structs[t]
      BY Zenon, <1>2, <2>1, <2>2 DEF FileRec
    <2>4. Handles' = Handles
      BY Zenon, <2>2, <2>3, HandlesKept
    <2> QED BY Zenon, <2>2, <2>4, ForgetStep
  <1>4. CASE ~(name \in 1..boot_block.num_dentry /\ \E s \in Slot : file_structs[s].flags = 0)
    <2>1. result' = Error(p, "open", name) /\ UNCHANGED <<files, file_structs, refs>>
      BY ZenonT(60), <1>4 DEF fs_open, Refuse
    <2>2. Handles' = Handles
      BY Zenon, <2>1, HandlesKept
    <2>3. name \notin DOMAIN Content \/ \A s \in Slot : Handles[s] # Shut
      <3>1. CASE name \notin 1..boot_block.num_dentry
        BY Zenon, <1>1, <3>1, ContentFacts
      <3>2. ASSUME \A s \in Slot : file_structs[s].flags # 0, NEW s \in Slot PROVE Handles[s] # Shut
        <4>1. /\ Handles[s].file = file_structs[s].inode_number + 1
              /\ file_structs[s].inode_number \in Nat
          <5>1. Handles[s] = Used(file_structs[s], refs[s])
            BY Zenon, <3>2, HandleFacts
          <5>2. file_structs[s] \in FileRec
            BY Zenon, <1>2
          <5> QED BY <5>1, <5>2 DEF Used, FileRec
        <4>2. Shut.file = 0
          BY Zenon DEF Shut
        <4> QED BY <4>1, <4>2
      <3> QED BY Zenon, <1>4, <3>1, <3>2
    <2>4. F!OpenFails(p, name)
      BY ZenonT(60), <2>1, <2>2, <2>3 DEF F!OpenFails, F!Closed, F!Error, Error, Handles, Shut
    <2> QED BY Zenon, <2>4 DEF F!Next, NFILES
  <1> QED BY Zenon, <1>3, <1>4

\* The end of fs_open is Open.
LEMMA OpenedStep ==
    ASSUME IInv, NEW p \in Process, InodeOfOpen(p)
    PROVE  F!Next
  <1> DEFINE s == call[p].file
             f == file_structs[s]
  <1>1. /\ call[p].op = "open" /\ call[p].at = "inode"
        /\ file_structs' = [file_structs EXCEPT ![s].file_size = block_at(pos).byte_len,
                                                ![s].flags = 1]
        /\ refs' = [refs EXCEPT ![s] = {p}]
        /\ result' = Ok(p, "open", 0, <<>>) /\ UNCHANGED files
    BY Zenon DEF InodeOfOpen, Finish
  <1>2. InCall(p, call[p], f)
    BY Zenon, <1>1, OneCaller
  <1>3. s \in Slot /\ f.flags = 0 /\ f.file_position = 0 /\ f.inode_number < NFILES
    BY Zenon, <1>1, <1>2 DEF InCall
  <1>4. file_structs \in [Slot -> FileRec] /\ refs \in [Slot -> SUBSET Process]
    BY Zenon DEF IInv, Types
  <1>5. f \in FileRec /\ f.inode_number \in Nat
    BY Zenon, <1>3, <1>4 DEF FileRec
  <1>6. f.inode_number + 1 \in DOMAIN Content
    <2> DEFINE n == f.inode_number
    <2>1. n \in Nat /\ n < NFILES
      BY Zenon, <1>3, <1>5
    <2>2. NFILES \in Nat /\ DOMAIN Content = 1..NFILES
      BY Zenon, ContentFacts
    <2> HIDE DEF n
    <2>3. n + 1 \in DOMAIN Content
      BY ONLY <2>1, <2>2
    <2> QED BY Zenon, <2>3 DEF n
  <1> DEFINE h == [file |-> f.inode_number + 1, pos |-> 0, holders |-> {p}]
  <1> HIDE DEF s
  <1>7. /\ \A t \in Slot : t # s => file_structs'[t] = file_structs[t] /\ refs'[t] = refs[t]
        /\ refs'[s] = {p}
    BY Zenon, <1>1, <1>3, <1>4
  <1>8. /\ file_structs'[s].flags = 1 /\ file_structs'[s].inode_number = f.inode_number
        /\ file_structs'[s].file_position = 0
    BY Zenon, <1>1, <1>3, <1>4, <1>5 DEF FileRec
  <1>9. Handles'[s] = h
    <2>1. Handles'[s] = Used(file_structs'[s], refs'[s])
      BY SMTT(30), <1>3, <1>8, HandleFacts
    <2> QED BY Zenon, <1>7, <1>8, <2>1 DEF Used
  <1>10. Handles' = [Handles EXCEPT ![s] = h]
    <2>1. Handles' = [Handles EXCEPT ![s] = Handles'[s]]
      BY Zenon, <1>3, <1>7, HandleChange
    <2> QED BY Zenon, <1>9, <2>1
  <1>11. Handles[s] = Shut
    BY Zenon, <1>3, HandleFacts
  <1>12. PICK g \in DOMAIN Content : g = f.inode_number + 1
    BY Zenon, <1>6
  <1>13. F!Open(p, g)
    <2>1. \E t \in Slot :
            /\ Handles[t] = Shut
            /\ Handles' = [Handles EXCEPT ![t] = [file |-> g, pos |-> 0, holders |-> {p}]]
      BY Zenon, <1>3, <1>10, <1>11, <1>12
    <2> QED BY Zenon, <1>1, <2>1 DEF F!Open, F!Closed, F!Ok, Ok, Handles, Shut
  <1> QED BY Zenon, <1>13 DEF F!Next

\* A read of the file of an open slot, in terms of the slot.
LEMMA ReadStep ==
    ASSUME IInv, NEW p \in Process, NEW s \in Slot, p \in refs[s], NEW n \in Asked, NEW m \in Nat,
           m = Min2(n, file_structs[s].file_size - file_structs[s].file_position),
           NEW bytes, result' = Ok(p, "read", m, bytes),
           bytes = SubSeq(files[file_structs[s].inode_number + 1],
                          file_structs[s].file_position + 1, file_structs[s].file_position + m),
           Handles' = [Handles EXCEPT ![s].pos = file_structs[s].file_position + m],
           UNCHANGED files
    PROVE  F!Next
  <1> DEFINE f == file_structs[s]
             g == f.inode_number + 1
             at == f.file_position
  <1>1. Handles[s] = Used(f, refs[s]) /\ Len(files[g]) = f.file_size
    BY Zenon, HeldFacts
  <1>2. Handles[s].file = g /\ Handles[s].pos = at /\ p \in Handles[s].holders
    BY <1>1 DEF Used
  <1>3. m = Min2(n, Len(files[Handles[s].file]) - Handles[s].pos)
    BY Zenon, <1>1, <1>2
  <1>4. bytes = SubSeq(files[Handles[s].file], Handles[s].pos + 1, Handles[s].pos + m)
    BY Zenon, <1>2
  <1>5. Handles' = [Handles EXCEPT ![s].pos = Handles[s].pos + m]
    BY Zenon, <1>2
  <1>6. result'.call = "read"
    BY Zenon DEF Ok
  <1>7. F!Read(p, s, n)
    BY ZenonT(60), <1>2, <1>3, <1>4, <1>5, <1>6 DEF F!Read, F!Holds, F!Min2, F!Ok, Min2, Ok, Handles
  <1> QED BY Zenon, <1>7 DEF F!Next

\* The m bytes of file g from at on are those of w.
Overwrite(g, at, m, w) ==
  [i \in 1..Len(files[g]) |-> IF i \in (at + 1)..(at + m) THEN w[i - at] ELSE files[g][i]]

\* A write to the file of an open slot.
LEMMA WriteStep ==
    ASSUME IInv, NEW p \in Process, NEW s \in Slot, p \in refs[s], NEW w \in Written, NEW m \in Nat,
           m = Min2(Len(w), file_structs[s].file_size - file_structs[s].file_position),
           result' = Ok(p, "write", m, <<>>),
           Handles' = [Handles EXCEPT ![s].pos = file_structs[s].file_position + m],
           files' = [files EXCEPT ![file_structs[s].inode_number + 1] =
                       Overwrite(file_structs[s].inode_number + 1,
                                 file_structs[s].file_position, m, w)]
    PROVE  F!Next
  <1> DEFINE f == file_structs[s]
             g == f.inode_number + 1
             at == f.file_position
  <1>1. Handles[s] = Used(f, refs[s]) /\ Len(files[g]) = f.file_size
    BY Zenon, HeldFacts
  <1>2. Handles[s].file = g /\ Handles[s].pos = at /\ p \in Handles[s].holders
    BY <1>1 DEF Used
  <1>3. m = Min2(Len(w), Len(files[Handles[s].file]) - Handles[s].pos)
    BY Zenon, <1>1, <1>2
  <1>4. Handles' = [Handles EXCEPT ![s].pos = Handles[s].pos + m]
    BY Zenon, <1>2
  <1>5. files' = [files EXCEPT ![Handles[s].file] = [i \in 1..Len(files[Handles[s].file]) |->
                    IF i \in (Handles[s].pos + 1)..(Handles[s].pos + m)
                    THEN w[i - Handles[s].pos] ELSE files[Handles[s].file][i]]]
    BY Zenon, <1>2 DEF Overwrite
  <1>6. result'.call = "write"
    BY Zenon DEF Ok
  <1> DEFINE M == Min2(Len(w), Len(files[Handles[s].file]) - Handles[s].pos)
  <1>7. /\ result' = Ok(p, "write", M, <<>>)
        /\ Handles' = [Handles EXCEPT ![s].pos = Handles[s].pos + M]
        /\ files' = [files EXCEPT ![Handles[s].file] = [i \in 1..Len(files[Handles[s].file]) |->
                      IF i \in (Handles[s].pos + 1)..(Handles[s].pos + M)
                      THEN w[i - Handles[s].pos] ELSE files[Handles[s].file][i]]]
    <2> HIDE DEF M
    <2>1. m = M
      BY Zenon, <1>3 DEF M
    <2> QED BY ZenonT(60), <1>4, <1>5, <2>1
  <1>8. F!Write(p, s, w)
    BY Zenon, <1>2, <1>6, <1>7 DEF F!Write, F!Holds, F!Min2, F!Ok, Min2, Ok, Handles
  <1> QED BY Zenon, <1>8 DEF F!Next

\* A call at the end of the file.
LEMMA StartStep ==
    ASSUME IInv, NEW p \in Process, NEW op \in {"read", "write"}, NEW s \in Slot, NEW n \in Nat,
           NEW buf, Calls(p), p \in refs[s], Start(p, op, s, n, buf),
           op = "read" => n \in Asked,
           op = "write" => buf \in Written /\ n = Len(buf)
    PROVE  F!Next
  <1> DEFINE f == file_structs[s]
             g == f.inode_number + 1
             m == Min2(n, f.file_size - f.file_position)
  <1>1. /\ f \in FileRec /\ f.flags = 1 /\ f.file_position \in Nat /\ f.file_size \in Nat
        /\ g \in 1..NFILES /\ files[g] \in Seq(Byte) /\ Len(files[g]) = f.file_size
        /\ f.file_position <= f.file_size /\ Handles[s] = Used(f, refs[s])
    BY ZenonT(60), HeldFacts
  <1>2. CASE f.file_position >= f.file_size
    <2>1. Refuse(p, Ok(p, op, 0, <<>>))
      BY <1>1, <1>2 DEF Start
    <2>2. result' = Ok(p, op, 0, <<>>) /\ UNCHANGED <<files, file_structs, refs>>
      BY ZenonT(60), <2>1 DEF Refuse
    <2>3. f.file_size - f.file_position = 0 /\ m = 0
      BY SMTT(30), <1>1, <1>2 DEF Min2
    <2>4. Handles' = Handles
      BY Zenon, <2>2, HandlesKept
    <2>5. Handles = [Handles EXCEPT ![s].pos = f.file_position + 0]
      <3>1. Handles[s].pos = f.file_position + 0
        BY SMTT(30), <1>1 DEF Used
      <3>2. [Handles[s] EXCEPT !.pos = f.file_position + 0] = Handles[s]
        BY Zenon, <1>1, <3>1 DEF Used
      <3>3. Handles = [t \in Slot |-> Handles[t]]
        BY Zenon DEF Handles
      <3> QED BY Zenon, <3>2, <3>3
    <2>6. CASE op = "read"
      <3>1. SubSeq(files[g], f.file_position + 1, f.file_position + 0) = <<>>
        BY <1>1
      <3> HIDE DEF m
      <3> QED BY ZenonT(60), <2>2, <2>3, <2>4, <2>5, <2>6, <3>1, ReadStep DEF m
    <2>7. CASE op = "write"
      <3> DEFINE at == f.file_position
      <3>1. at \in Nat
        BY Zenon, <1>1
      <3>2. files[g] = Overwrite(g, at, 0, buf)
        <4>1. \A i \in 1..Len(files[g]) : i \notin (at + 1)..(at + 0)
          <5> HIDE DEF at
          <5> QED BY SMTT(30), <3>1
        <4>2. files[g] = [i \in 1..Len(files[g]) |-> files[g][i]]
          BY SMTT(30), <1>1
        <4> QED BY Zenon, <4>1, <4>2 DEF Overwrite
      <3>3. files = [files EXCEPT ![g] = files[g]]
        BY Zenon, <1>1 DEF IInv, Types
      <3>4. files' = [files EXCEPT ![g] = Overwrite(g, at, 0, buf)]
        BY Zenon, <2>2, <3>2, <3>3
      <3>5. 0 = Min2(Len(buf), f.file_size - f.file_position) /\ buf \in Written
        BY Zenon, <2>3, <2>7
      <3>6. result' = Ok(p, "write", 0, <<>>) /\ Handles' = [Handles EXCEPT ![s].pos = at + 0]
        BY Zenon, <2>2, <2>4, <2>5, <2>7
      <3>7. 0 \in Nat
        BY Zenon
      <3> QED BY Zenon, <3>4, <3>5, <3>6, <3>7, WriteStep
    <2> QED BY Zenon, <2>6, <2>7
  <1>3. CASE ~(f.file_position >= f.file_size)
    <2>1. Begin(p, op, s, m, buf)
      BY <1>1, <1>3 DEF Start
    <2>2. result' = None /\ UNCHANGED <<files, file_structs, refs>>
      BY ZenonT(60), <2>1 DEF Begin, ReadInode
    <2>3. Handles' = Handles
      BY Zenon, <2>2, HandlesKept
    <2> QED BY Zenon, <2>2, <2>3, ForgetStep
  <1> QED BY Zenon, <1>2, <1>3

\* A sequence whose elements are those of a part of another one is that part.
LEMMA IsPart ==
    ASSUME NEW S, NEW t \in Seq(S), NEW b \in Seq(S), NEW at \in Nat, at + Len(b) <= Len(t),
           \A j \in 1..Len(b) : b[j] = t[at + j]
    PROVE  b = SubSeq(t, at + 1, at + Len(b))
  <1> DEFINE m == Len(b)
             T == SubSeq(t, at + 1, at + m)
  <1>1. m \in Nat /\ Len(t) \in Nat
    OBVIOUS
  <1>2. T \in Seq(S) /\ Len(T) = m
    BY <1>1
  <1>3. \A j \in 1..m : T[j] = t[at + j]
    BY <1>1
  <1> HIDE DEF T
  <1>4. b = [j \in 1..m |-> b[j]] /\ T = [j \in 1..m |-> T[j]]
    <2>1. b = [j \in 1..m |-> b[j]]
      OBVIOUS
    <2>2. T = [j \in 1..m |-> T[j]]
      <3> HIDE DEF m
      <3> QED BY <1>2
    <2> QED BY Zenon, <2>1, <2>2
  <1>5. \A j \in 1..m : b[j] = T[j]
    BY Zenon, <1>3
  <1> QED BY Zenon, <1>4, <1>5 DEF T

\* One turn of the loop: the call is complete, or goes on.
LEMMA TurnStep ==
    ASSUME PartlyFilled, IInv, NEW p \in Process, NEW c \in CallRec, NEW f, Turn(p, c, f)
    PROVE  F!Next
  <1> DEFINE s == c.file
             g == f.inode_number + 1
             at == f.file_position
  <1>1. /\ Looping(p, c, f) /\ Loop(p, c, mkfs_inode(f.inode_number + 1)) /\ HasRead(c, f)
        /\ boot_block = mkfs_boot /\ UNCHANGED refs
    BY Zenon DEF Turn
  <1>2. /\ c.op \in {"read", "write"} /\ s \in Slot /\ f = file_structs[s] /\ p \in refs[s]
        /\ Transfer(c, f) /\ c.todo \in Nat /\ c.total \in Nat /\ c.buf \in Seq(Byte)
    BY ZenonT(60), <1>1 DEF Looping, CallRec
  <1>3. /\ f \in FileRec /\ f.flags = 1 /\ at \in Nat /\ f.file_size \in Nat
        /\ g \in 1..NFILES /\ f.file_size = Len(Content[g])
        /\ files[g] \in Seq(Byte) /\ Len(files[g]) = f.file_size /\ at <= f.file_size
        /\ Handles[s] = Used(f, refs[s])
    BY Zenon, <1>2, HeldFacts
  <1>4. CASE c.todo > 0
    <2>1. NextBlock(p, c, mkfs_inode(f.inode_number + 1))
      BY <1>1, <1>4 DEF Loop
    <2>2. result' = None /\ UNCHANGED <<file_structs, files>>
      BY Zenon, <1>1, <1>4, <2>1, NextOnDisk
    <2>3. Handles' = Handles
      BY Zenon, <1>1, <2>2, HandlesKept
    <2> QED BY Zenon, <2>2, <2>3, ForgetStep
  <1>5. CASE c.todo = 0
    <2>1. Complete(p, c)
      BY Zenon, <1>1, <1>5 DEF Loop
    <2>2. Completed(p, c, f)
      BY Zenon, <1>1, <1>5, <2>1, CompleteFacts
    <2>3. c.file_pos = at + c.total
      BY Zenon, <1>2 DEF Transfer
    <2>4. c.total + c.todo = c.total
      BY <1>2, <1>5
    <2>5. result' = Ok(p, c.op, c.total, IF c.op = "read" THEN c.buf ELSE <<>>)
      BY Zenon, <2>2 DEF Completed, Finish
    <2>6. Handles' = [Handles EXCEPT ![s].pos = at + c.total]
      <3>1. /\ file_structs'[s] = [f EXCEPT !.file_position = c.file_pos]
            /\ \A t \in Slot : t # s => file_structs'[t] = file_structs[t]
        BY Zenon, <2>2 DEF Completed
      <3>2. Handles' = [Handles EXCEPT ![s] = Handles'[s]]
        BY Zenon, <1>1, <1>2, <3>1, HandleChange
      <3>3. /\ file_structs'[s].flags = 1 /\ file_structs'[s].inode_number = f.inode_number
            /\ file_structs'[s].file_position = at + c.total
        BY ZenonT(60), <1>3, <2>3, <3>1 DEF FileRec
      <3>4. Handles'[s] = Used(file_structs'[s], refs[s])
        BY SMTT(30), <1>1, <1>2, <3>3, HandleFacts
      <3>5. Handles'[s] = [Handles[s] EXCEPT !.pos = at + c.total]
        BY <1>3, <3>3, <3>4 DEF Used
      <3> QED BY Zenon, <3>2, <3>5
    <2>7. CASE c.op = "read"
      <3>1. PICK n \in Asked : c.total = Min2(n, f.file_size - at)
        BY Zenon, <1>2, <2>4, <2>7 DEF Transfer
      <3>2. Len(c.buf) = c.total /\ at + c.total <= Len(files[g])
        <4>1. Len(c.buf) = c.total
          BY Zenon, <1>2, <2>7 DEF Transfer
        <4>2. n \in Nat
          BY Zenon, KfsAssumption
        <4> DEFINE z == f.file_size
                   t == c.total
        <4>3. /\ z \in Nat /\ t \in Nat /\ at \in Nat /\ at <= z
              /\ t = Min2(n, z - at) /\ Len(files[g]) = z
          BY ZenonT(60), <1>2, <1>3, <3>1
        <4> HIDE DEF z, t, at
        <4>4. at + t <= z
          BY <4>2, <4>3 DEF Min2
        <4> QED BY Zenon, <4>1, <4>3, <4>4 DEF t
      <3>3. \A j \in 1..Len(c.buf) : c.buf[j] = files[g][at + j]
        BY Zenon, <1>1, <2>7, <3>2 DEF HasRead
      <3>4. c.buf = SubSeq(files[g], at + 1, at + c.total)
        <4>1. at + Len(c.buf) <= Len(files[g])
          BY Zenon, <3>2
        <4> DEFINE b == c.buf
                   t == files[g]
        <4>2. b \in Seq(Byte) /\ t \in Seq(Byte) /\ at \in Nat
          BY ZenonT(60), <1>2, <1>3
        <4>3. at + Len(b) <= Len(t) /\ \A j \in 1..Len(b) : b[j] = t[at + j]
          BY Zenon, <3>3, <4>1
        <4> HIDE DEF b, t, at
        <4>4. b = SubSeq(t, at + 1, at + Len(b))
          BY Zenon, <4>2, <4>3, IsPart
        <4> QED BY Zenon, <3>2, <4>4 DEF b, t
      <3>5. UNCHANGED files
        BY Zenon, <2>1, <2>7 DEF Complete
      <3>6. result' = Ok(p, "read", c.total, c.buf)
        BY Zenon, <2>5, <2>7
      <3> QED BY ZenonT(60), <1>2, <2>6, <3>1, <3>4, <3>5, <3>6, ReadStep
    <2>8. CASE c.op = "write"
      <3>1. c.buf \in Written /\ c.total = Min2(Len(c.buf), f.file_size - at)
        BY Zenon, <1>2, <2>4, <2>8 DEF Transfer
      <3>2. result' = Ok(p, "write", c.total, <<>>)
        BY Zenon, <2>5, <2>8
      <3>3. /\ files' \in [1..NFILES -> Seq(Byte)] /\ files \in [1..NFILES -> Seq(Byte)]
            /\ \A h \in 1..NFILES : files'[h] = Stored(c, f, h)
        BY Zenon, <2>2 DEF Completed, IInv, Types
      <3>4. Stored(c, f, g) = Overwrite(g, at, c.total, c.buf)
        BY ZenonT(60), <1>3, <2>3, <2>8 DEF Stored, Overwrite
      <3>5. ASSUME NEW h \in 1..NFILES, h # g PROVE files'[h] = files[h]
        BY Zenon, <3>3, <3>5 DEF Stored
      <3>6. files' = [files EXCEPT ![g] = Overwrite(g, at, c.total, c.buf)]
        <4> HIDE DEF g
        <4> QED BY ZenonT(60), <1>3, <3>3, <3>4, <3>5
      <3> QED BY ZenonT(60), <1>2, <2>6, <3>1, <3>2, <3>6, WriteStep
    <2> QED BY Zenon, <1>2, <2>7, <2>8
  <1> QED BY <1>2, <1>4, <1>5

\* Every step is a step of Files or is not seen by its callers.
LEMMA NextFiles ==
    ASSUME PartlyFilled, IInv, DataInv, Next
    PROVE  F!Next
  <1>1. CASE fs_mount
    BY Zenon, <1>1, MountStep
  <1>2. ASSUME NEW p \in Process, Step(p) PROVE F!Next
    <2>1. CASE InodeOfOpen(p)
      BY Zenon, <2>1, OpenedStep
    <2>2. CASE InodeOfTransfer(p) \/ BlockRead(p) \/ BlockWritten(p)
      <3>1. PICK d \in CallRec : Turn(p, d, file_structs[call[p].file])
        BY Zenon, <2>2, TurnOfStep
      <3> QED BY Zenon, <3>1, TurnStep
    <2> QED BY Zenon, <1>2, <2>1, <2>2 DEF Step
  <1>3. ASSUME NEW p \in Process, NEW name \in 1..(NFILES + 1), fs_open(p, name) PROVE F!Next
    BY Zenon, <1>3, OpenStep
  <1>4. ASSUME NEW p \in Process, NEW q \in Process, fork(p, q) PROVE F!Next
    BY Zenon, <1>4, ForkStep
  <1>5. ASSUME NEW p \in Process, NEW s \in Slot, fs_close(p, s) PROVE F!Next
    BY Zenon, <1>5, CloseStep
  <1>6. ASSUME NEW p \in Process, NEW s \in Slot, NEW n \in Asked, fs_read(p, s, n) PROVE F!Next
    <2>1. n \in Nat
      BY Zenon, KfsAssumption
    <2> QED BY Zenon, <1>6, <2>1, StartStep DEF fs_read
  <1>7. ASSUME NEW p \in Process, NEW s \in Slot, NEW n \in Asked, fs_setpos(p, s, n) PROVE F!Next
    BY Zenon, <1>7, SetposStep
  <1>8. ASSUME NEW p \in Process, NEW s \in Slot, NEW bytes \in Written, fs_write(p, s, bytes)
        PROVE  F!Next
    <2>1. Len(bytes) \in Nat
      BY KfsAssumption
    <2> QED BY Zenon, <1>8, <2>1, StartStep DEF fs_write
  <1> QED BY ZenonT(60), <1>1, <1>2, <1>3, <1>4, <1>5, <1>6, <1>7, <1>8 DEF Next

\* The calls of kfs.c on the image of mkfs.c are the atomic operations of Files on
\* the files that mkfs was given, if no file but the last is a whole number of
\* blocks; mkfs.c puts the blocks of the files after such a file where their
\* inodes do not say.
THEOREM FilesRefined ==
    ASSUME PartlyFilled
    PROVE  Spec => ImplementsFiles
  <1>1. Init => DataInv
    BY Zenon, InitData
  <1>2. IInv /\ DataInv /\ [Next]_vars => DataInv'
    BY Zenon, NextData
  <1>3. IInv /\ DataInv /\ [Next]_vars => [F!Next]_<<files, Handles, result>>
    <2> SUFFICES ASSUME IInv, DataInv, [Next]_vars
                 PROVE  [F!Next]_<<files, Handles, result>>
      BY Zenon
    <2>1. CASE Next
      BY Zenon, <2>1, NextFiles
    <2>2. CASE UNCHANGED vars
      BY Zenon, <2>2 DEF vars, Handles
    <2> QED BY Zenon, <2>1, <2>2
  <1> QED BY <1>1, <1>2, <1>3, InitFiles, InvCorrect, PTL
          DEF Spec, ImplementsFiles, F!Spec, Handles
=============================================================================
