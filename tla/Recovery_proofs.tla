--------------------------- MODULE Recovery_proofs ---------------------------
(***************************************************************************)
(* The disk of one node through kills, power losses and rotations, for any *)
(* number of entries, segments, directory operations and snapshots.        *)
(***************************************************************************)
EXTENDS Recovery, SequenceTheorems, NaturalsInduction, WellFoundedInduction, TLAPS

-----------------------------------------------------------------------------
(* Sequences of entries *)

Begins(s, t) == Len(s) <= Len(t) /\ \A i \in 1..Len(s) : s[i] = t[i]

LEMMA PrefixIsBegins ==
  ASSUME NEW s \in Seq(Int), NEW t \in Seq(Int)
  PROVE  IsPrefix(s, t) <=> Begins(s, t)
<1>0. Len(s) \in Nat /\ Len(t) \in Nat
  OBVIOUS
<1> DEFINE a == SubSeq(s, 1, Len(s))
           b == SubSeq(t, 1, Len(s))
<1>1. a = s
  BY SubSeqFull
<1>2. ASSUME Len(s) <= Len(t)
      PROVE  /\ b \in Seq(Int) /\ Len(b) = Len(s)
             /\ \A i \in 1..Len(s) : b[i] = t[i]
  <2>1. \A i \in 1..Len(s) : t[i] \in Int
    BY <1>0, <1>2
  <2>2. /\ b \in Seq(Int) /\ Len(b) = (IF 1 <= Len(s) THEN Len(s) - 1 + 1 ELSE 0)
        /\ \A i \in 1..(Len(s) - 1 + 1) : b[i] = t[1 + i - 1]
    BY <1>0, <2>1, SubSeqProperties
  <2>3. QED
    BY <1>0, <2>2
<1> HIDE DEF a, b
<1>3. ASSUME Len(s) <= Len(t) PROVE a = b <=> \A i \in 1..Len(s) : s[i] = t[i]
  <2>1. ASSUME \A i \in 1..Len(s) : s[i] = t[i] PROVE s = b
    BY <1>2, <1>3, <2>1, SeqEqual
  <2>2. QED
    BY <1>1, <1>2, <1>3, <2>1
<1>4. QED
  BY <1>3 DEF IsPrefix, Begins, a, b

LEMMA ConcatFacts ==
  ASSUME NEW s \in Seq(Int), NEW t \in Seq(Int)
  PROVE  /\ s \o t \in Seq(Int) /\ Len(s \o t) = Len(s) + Len(t)
         /\ \A i \in 1..Len(s) : (s \o t)[i] = s[i]
         /\ \A i \in 1..Len(t) : (s \o t)[Len(s) + i] = t[i]
         /\ \A i \in 1..(Len(s) + Len(t)) :
              i \in 1..Len(s) \/ (i - Len(s) \in 1..Len(t) /\ (s \o t)[i] = t[i - Len(s)])
<1>1. Len(s) \in Nat /\ Len(t) \in Nat
  OBVIOUS
<1>2. /\ s \o t \in Seq(Int) /\ Len(s \o t) = Len(s) + Len(t)
      /\ \A i \in 1..(Len(s) + Len(t)) :
           (s \o t)[i] = IF i <= Len(s) THEN s[i] ELSE t[i - Len(s)]
  BY ConcatProperties
<1>3. ASSUME NEW i \in 1..Len(s) PROVE (s \o t)[i] = s[i]
  BY <1>1, <1>2
<1>4. ASSUME NEW i \in 1..Len(t) PROVE (s \o t)[Len(s) + i] = t[i]
  <2>1. Len(s) + i \in 1..(Len(s) + Len(t)) /\ ~(Len(s) + i <= Len(s)) /\ Len(s) + i - Len(s) = i
    BY <1>1
  <2>2. QED
    BY <1>2, <2>1
<1>5. QED
  BY <1>1, <1>2, <1>3, <1>4

LEMMA Reassociated ==
  ASSUME NEW s \in Seq(Int), NEW t \in Seq(Int), NEW u \in Seq(Int)
  PROVE  (s \o t) \o u = s \o (t \o u)
BY ConcatAssociative

LEMMA CutFacts ==
  ASSUME NEW s \in Seq(Int), NEW k \in 0..Len(s)
  PROVE  /\ SubSeq(s, 1, k) \in Seq(Int) /\ Len(SubSeq(s, 1, k)) = k
         /\ \A i \in 1..k : SubSeq(s, 1, k)[i] = s[i]
<1>1. Len(s) \in Nat /\ k \in Nat /\ \A i \in 1..k : s[i] \in Int
  OBVIOUS
<1> DEFINE a == SubSeq(s, 1, k)
<1>2. /\ a \in Seq(Int) /\ Len(a) = (IF 1 <= k THEN k - 1 + 1 ELSE 0)
      /\ \A i \in 1..(k - 1 + 1) : a[i] = s[1 + i - 1]
  BY <1>1, SubSeqProperties
<1>3. QED
  BY <1>1, <1>2

\* A sequence and what follows its beginning.
LEMMA Rejoined ==
  ASSUME NEW s \in Seq(Int), NEW t \in Seq(Int), Begins(s, t)
  PROVE  s \o SubSeq(t, Len(s) + 1, Len(t)) = t
<1>1. Len(s) \in Nat /\ Len(t) \in Nat /\ Len(s) <= Len(t)
  BY DEF Begins
<1>2. SubSeq(t, 1, Len(s)) = s
  <2>1. /\ SubSeq(t, 1, Len(s)) \in Seq(Int) /\ Len(SubSeq(t, 1, Len(s))) = Len(s)
        /\ \A i \in 1..Len(s) : SubSeq(t, 1, Len(s))[i] = t[i]
    BY <1>1, CutFacts
  <2>2. \A i \in 1..Len(s) : SubSeq(t, 1, Len(s))[i] = s[i]
    BY <2>1 DEF Begins
  <2>3. QED
    BY <2>1, <2>2, SeqEqual
<1>3. SubSeq(t, 1, Len(s)) \o SubSeq(t, Len(s) + 1, Len(t)) = SubSeq(t, 1, Len(t))
  <2>1. 1 \in 1..(Len(t) + 1) /\ Len(s) \in (1 - 1)..Len(t) /\ Len(t) \in Len(s)..Len(t)
    BY <1>1
  <2> DEFINE k == Len(s)
             n == Len(t)
  <2> HIDE DEF k, n
  <2>2. SubSeq(t, 1, k) \o SubSeq(t, k + 1, n) = SubSeq(t, 1, n)
    BY <2>1, ConcatAdjacentSubSeq DEF k, n
  <2>3. QED
    BY <2>2 DEF k, n
<1>4. QED
  BY <1>2, <1>3, SubSeqFull

LEMMA BeginsTransitive ==
  ASSUME NEW s \in Seq(Int), NEW t \in Seq(Int), NEW u \in Seq(Int), Begins(s, t), Begins(t, u)
  PROVE  Begins(s, u)
<1>1. Len(s) \in Nat /\ Len(t) \in Nat /\ Len(u) \in Nat /\ Len(s) <= Len(t) /\ Len(t) <= Len(u)
  BY DEF Begins
<1>2. \A i \in 1..Len(s) : i \in 1..Len(t)
  BY <1>1
<1>3. QED
  BY <1>1, <1>2 DEF Begins

LEMMA BeginsConcat ==
  ASSUME NEW s \in Seq(Int), NEW t \in Seq(Int)
  PROVE  Begins(s, s) /\ Begins(s, s \o t)
<1>1. Len(s) \in Nat /\ Len(t) \in Nat
  OBVIOUS
<1>2. QED
  BY <1>1, ConcatFacts DEF Begins

-----------------------------------------------------------------------------
(* Where the whole entries of a segment end *)

Positive(c) == \A i \in 1..Len(c) : c[i] > 0
EndOf(c) == Max({n \in 0..Len(c) : \A i \in 1..n : c[i] > 0})
WholeOf(c) == SubSeq(c, 1, EndOf(c))

LEMMA BoundedMax ==
  ASSUME NEW N \in Nat, NEW S \in SUBSET (0..N), S # {}
  PROVE  \E m \in S : \A d \in S : m >= d
<1> DEFINE T == {N - x : x \in S}
<1>0. \A x \in S : x \in 0..N /\ N - x \in Nat
  OBVIOUS
<1>1. T \subseteq Nat /\ T # {}
  BY <1>0
<1>2. \E x \in T : \A y \in T : ~(<<y, x>> \in OpToRel(<, Nat))
  BY <1>1, WFMin, NatLessThanWellFounded
<1>3. PICK x \in T : \A y \in T : ~(y < x)
  BY <1>1, <1>2 DEF OpToRel
<1>4. PICK c \in S : x = N - c
  OBVIOUS
<1>5. ASSUME NEW d \in S PROVE c >= d
  <2>1. N - d \in T
    OBVIOUS
  <2>2. ~(N - d < N - c) /\ c \in Int /\ d \in Int
    BY <1>3, <1>4, <2>1
  <2>3. QED
    BY <2>2
<1>6. QED
  BY <1>5

LEMMA EndFacts ==
  ASSUME NEW c \in Seq(Int)
  PROVE  /\ EndOf(c) \in 0..Len(c) /\ \A i \in 1..EndOf(c) : c[i] > 0
         /\ \A n \in 0..Len(c) : (\A i \in 1..n : c[i] > 0) => n <= EndOf(c)
<1> DEFINE S == {n \in 0..Len(c) : \A i \in 1..n : c[i] > 0}
<1>1. Len(c) \in Nat /\ 0 \in S
  OBVIOUS
<1>2. \E m \in S : \A d \in S : m >= d
  BY <1>1, BoundedMax
<1>3. Max(S) \in S /\ \A d \in S : Max(S) >= d
  BY <1>2 DEF Max
<1>4. EndOf(c) = Max(S)
  BY DEF EndOf
<1>5. QED
  BY <1>1, <1>3, <1>4

LEMMA WholeFacts ==
  ASSUME NEW c \in Seq(Int)
  PROVE  /\ WholeOf(c) \in Seq(Int) /\ Len(WholeOf(c)) = EndOf(c)
         /\ \A i \in 1..EndOf(c) : WholeOf(c)[i] = c[i]
         /\ Positive(WholeOf(c))
BY EndFacts, CutFacts DEF WholeOf, Positive

LEMMA EndPositive ==
  ASSUME NEW c \in Seq(Int), Positive(c)
  PROVE  EndOf(c) = Len(c) /\ WholeOf(c) = c
<1>1. Len(c) \in Nat /\ EndOf(c) \in 0..Len(c) /\ Len(c) <= EndOf(c)
  BY EndFacts DEF Positive
<1>2. EndOf(c) = Len(c)
  BY <1>1
<1>3. QED
  BY <1>2, SubSeqFull DEF WholeOf

LEMMA ChainIs == \A f : Chain(f) = anchor[f] \o WholeOf(cache[f]) /\ Kept(f) = WholeOf(cache[f])
BY DEF Chain, Whole, ValidEnd, WholeOf, EndOf, Kept

-----------------------------------------------------------------------------
(* Types *)

Journals == Seq(Int)
Named == [archives : Seq(Nat), live : Nat]
Saves == [app : Journals, chain : Journals]
Phases == {"down", "genesis", "synthesizing", "refused", "run", "drain", "archived",
           "created", "installed"}
Files == 1..Len(cache)

DirType == dirs \in Seq(Named) /\ Len(dirs) >= 1
FileType ==
  /\ anchor \in Seq(Journals) /\ headed \in Seq(BOOLEAN)
  /\ cache \in Seq(Journals) /\ disk \in Seq(Journals)
  /\ Len(anchor) = Len(cache) /\ Len(headed) = Len(cache) /\ Len(disk) = Len(cache)
NodeType ==
  /\ wire \in Journals /\ app \in Journals /\ acked \in Journals
  /\ phase \in Phases /\ exposed \in BOOLEAN /\ excused \in BOOLEAN
SaveType ==
  /\ snaps \in Seq(SUBSET Saves) /\ Len(snaps) >= 1 /\ taken \in SUBSET Saves
  /\ shadow \in Nat /\ saving \in {"no", "rotated", "ready", "published"}
Types == DirType /\ FileType /\ NodeType /\ SaveType

LEMMA DirFacts ==
  ASSUME DirType
  PROVE  /\ Len(dirs) \in Nat /\ Len(dirs) \in 1..Len(dirs) /\ Dir = dirs[Len(dirs)] /\ Dir \in Named
         /\ \A k \in 1..Len(dirs) : /\ dirs[k] \in Named /\ dirs[k].archives \in Seq(Nat)
                                    /\ dirs[k].live \in Nat /\ Len(dirs[k].archives) \in Nat
<1>1. Len(dirs) \in Nat /\ Len(dirs) \in 1..Len(dirs)
  BY DEF DirType
<1>2. \A k \in 1..Len(dirs) : dirs[k] \in Named
  BY DEF DirType
<1>3. ASSUME NEW L \in Named PROVE L.archives \in Seq(Nat) /\ L.live \in Nat /\ Len(L.archives) \in Nat
  BY DEF Named
<1>4. QED
  BY <1>1, <1>2, <1>3 DEF Dir, Last

LEMMA FileFacts ==
  ASSUME FileType
  PROVE  /\ Len(cache) \in Nat
         /\ \A f \in Files : /\ anchor[f] \in Seq(Int) /\ cache[f] \in Seq(Int) /\ disk[f] \in Seq(Int)
                             /\ headed[f] \in BOOLEAN /\ Len(anchor[f]) \in Nat
                             /\ Len(cache[f]) \in Nat /\ Len(disk[f]) \in Nat
<1>1. Len(cache) \in Nat
  BY DEF FileType
<1>2. ASSUME NEW f \in Files
      PROVE  anchor[f] \in Seq(Int) /\ cache[f] \in Seq(Int) /\ disk[f] \in Seq(Int) /\ headed[f] \in BOOLEAN
  <2>1. f \in 1..Len(cache) /\ f \in 1..Len(anchor) /\ f \in 1..Len(disk) /\ f \in 1..Len(headed)
    BY DEF FileType, Files
  <2>2. anchor[f] \in Journals /\ cache[f] \in Journals /\ disk[f] \in Journals /\ headed[f] \in BOOLEAN
    BY <2>1, ElementOfSeq DEF FileType
  <2>3. QED
    BY <2>2 DEF Journals
<1>3. QED
  BY <1>1, <1>2, LenProperties

LEMMA AppendEffect ==
  ASSUME NEW S, NEW s \in Seq(S), NEW e \in S, NEW t, t = Append(s, e)
  PROVE  /\ t \in Seq(S) /\ Len(t) = Len(s) + 1 /\ t[Len(s) + 1] = e
         /\ \A f \in 1..Len(s) : t[f] = s[f]
BY AppendProperties

LEMMA AddEffect ==
  ASSUME FileType, NEW h \in Seq(Int), NEW c \in Seq(Int), NEW b \in BOOLEAN, AddFile(h, c, b)
  PROVE  /\ FileType' /\ Len(cache') = Len(cache) + 1 /\ NewFile = Len(cache) + 1 /\ Len(cache) \in Nat
         /\ anchor'[NewFile] = h /\ headed'[NewFile] = b /\ cache'[NewFile] = c /\ disk'[NewFile] = c
         /\ \A f \in Files : /\ anchor'[f] = anchor[f] /\ headed'[f] = headed[f]
                             /\ cache'[f] = cache[f] /\ disk'[f] = disk[f]
<1>1. h \in Journals /\ c \in Journals
  BY DEF Journals
<1>2. /\ anchor' = Append(anchor, h) /\ headed' = Append(headed, b)
      /\ cache' = Append(cache, c) /\ disk' = Append(disk, c)
  BY DEF AddFile
<1>3. /\ anchor' \in Seq(Journals) /\ Len(anchor') = Len(anchor) + 1 /\ anchor'[Len(anchor) + 1] = h
      /\ \A f \in 1..Len(anchor) : anchor'[f] = anchor[f]
  <2>1. anchor \in Seq(Journals) /\ h \in Journals /\ anchor' = Append(anchor, h)
    BY <1>1, <1>2 DEF FileType
  <2>2. QED
    BY ONLY <2>1, AppendEffect
<1>4. /\ headed' \in Seq(BOOLEAN) /\ Len(headed') = Len(headed) + 1 /\ headed'[Len(headed) + 1] = b
      /\ \A f \in 1..Len(headed) : headed'[f] = headed[f]
  BY <1>1, <1>2, AppendEffect DEF FileType
<1>5. /\ cache' \in Seq(Journals) /\ Len(cache') = Len(cache) + 1 /\ cache'[Len(cache) + 1] = c
      /\ \A f \in 1..Len(cache) : cache'[f] = cache[f]
  BY <1>1, <1>2, AppendEffect DEF FileType
<1>6. /\ disk' \in Seq(Journals) /\ Len(disk') = Len(disk) + 1 /\ disk'[Len(disk) + 1] = c
      /\ \A f \in 1..Len(disk) : disk'[f] = disk[f]
  BY <1>1, <1>2, AppendEffect DEF FileType
<1>7. Len(cache) \in Nat /\ Len(anchor) = Len(cache) /\ Len(headed) = Len(cache) /\ Len(disk) = Len(cache)
  BY DEF FileType
<1>8. FileType'
  BY <1>3, <1>4, <1>5, <1>6, <1>7 DEF FileType
<1>9. QED
  BY <1>3, <1>4, <1>5, <1>6, <1>7, <1>8 DEF Files, NewFile

LEMMA PutEffect ==
  ASSUME NEW S, NEW s \in Seq(S), NEW f \in 1..Len(s), NEW c \in S, NEW t, t = [s EXCEPT ![f] = c]
  PROVE  /\ t \in Seq(S) /\ Len(t) = Len(s) /\ t[f] = c
         /\ \A g \in 1..Len(s) : g # f => t[g] = s[g]
BY ExceptSeq

\* dirs after an operation: as it was, one more state, or only the last.
Turns(L) == \/ dirs' = dirs /\ L = Dir
            \/ dirs' = <<L>>
            \/ dirs' = Append(dirs, L)

LEMMA TurnsEffect ==
  ASSUME DirType, NEW L \in Named, Turns(L)
  PROVE  /\ DirType' /\ Dir' = L
         /\ \A k \in 1..Len(dirs') : dirs'[k] = L \/ \E j \in 1..Len(dirs) : dirs'[k] = dirs[j]
<1>1. CASE dirs' = dirs /\ L = Dir
  BY <1>1 DEF DirType, Dir
<1>2. CASE dirs' = <<L>>
  <2>1. Len(dirs') = 1 /\ dirs'[1] = L /\ dirs' \in Seq(Named)
    BY <1>2
  <2>2. QED
    BY <2>1 DEF DirType, Dir, Last
<1>3. CASE dirs' = Append(dirs, L)
  <2>1. Len(dirs) \in Nat
    BY DEF DirType
  <2>2. /\ dirs' \in Seq(Named) /\ Len(dirs') = Len(dirs) + 1 /\ dirs'[Len(dirs) + 1] = L
        /\ \A f \in 1..Len(dirs) : dirs'[f] = dirs[f]
    BY <1>3, AppendEffect DEF DirType
  <2>3. DirType' /\ Dir' = L
    BY <2>1, <2>2 DEF DirType, Dir, Last
  <2>4. QED
    BY <2>1, <2>2, <2>3
<1>4. QED
  BY <1>1, <1>2, <1>3 DEF Turns

-----------------------------------------------------------------------------
(* The names.  No layout names a file twice, each names files there are, and *)
(* the first segment of each goes back to the genesis.                       *)

Distinct(L) ==
  /\ L.live \in 0..Len(cache)
  /\ \A i \in 1..Len(L.archives) : L.archives[i] \in Files /\ L.archives[i] # L.live
  /\ \A i, j \in 1..Len(L.archives) : L.archives[i] = L.archives[j] => i = j
Rooted(L) ==
  /\ Len(L.archives) >= 1 => anchor[L.archives[1]] = <<>>
  /\ Len(L.archives) = 0 /\ L.live # NoFile => anchor[L.live] = <<>>
Shape == \A k \in 1..Len(dirs) : Distinct(dirs[k]) /\ Rooted(dirs[k])

\* Files are never taken away, nor their headers rewritten.
Grows == FileType' /\ Len(cache') >= Len(cache) /\ \A f \in Files : anchor'[f] = anchor[f]

LEMMA ShapeLayout ==
  ASSUME FileType, Grows, NEW L \in Named, Distinct(L), Rooted(L)
  PROVE  Distinct(L)' /\ Rooted(L)'
<1>1. Len(cache) \in Nat /\ Len(cache') \in Nat /\ Len(cache) <= Len(cache') /\ L.live \in Nat
  BY DEF FileType, Grows, Named
<1>2. \A f \in Files : f \in 1..Len(cache') /\ anchor'[f] = anchor[f]
  BY <1>1 DEF Files, Grows
<1>3. Distinct(L)'
  BY <1>1, <1>2 DEF Distinct, Files
<1>4. Rooted(L)'
  <2>1. ASSUME Len(L.archives) >= 1 PROVE L.archives[1] \in Files
    <3>1. Len(L.archives) \in Nat
      BY DEF Named
    <3>2. QED
      BY <2>1, <3>1 DEF Distinct
  <2>2. ASSUME L.live # NoFile PROVE L.live \in Files
    BY <1>1, <2>2 DEF Distinct, Files, NoFile
  <2>3. QED
    BY <1>2, <2>1, <2>2 DEF Rooted
<1>5. QED
  BY <1>3, <1>4

LEMMA ShapeStep ==
  ASSUME DirType, FileType, Shape, Grows, NEW L \in Named, Turns(L), Distinct(L)', Rooted(L)'
  PROVE  Shape'
<1>1. ASSUME NEW k \in 1..Len(dirs'), NEW M, M = dirs'[k] PROVE Distinct(M)' /\ Rooted(M)'
  <2>1. M = L \/ \E j \in 1..Len(dirs) : M = dirs[j]
    BY <1>1, TurnsEffect
  <2>2. CASE M = L
    BY <2>2
  <2>3. CASE \E j \in 1..Len(dirs) : M = dirs[j]
    <3>1. M \in Named /\ Distinct(M) /\ Rooted(M)
      BY <2>3, DirFacts DEF Shape
    <3>2. QED
      BY <3>1, ShapeLayout
  <2>4. QED
    BY <2>1, <2>2, <2>3
<1>2. QED
  BY <1>1 DEF Shape, Distinct, Rooted

LEMMA DirShape ==
  ASSUME DirType, FileType, Shape
  PROVE  /\ Distinct(Dir) /\ Rooted(Dir) /\ (Dir.live # NoFile <=> Dir.live \in Files)
         /\ Len(Dir.archives) \in Nat /\ Dir.archives \in Seq(Nat) /\ Dir.live \in Nat
<1>1. Distinct(Dir) /\ Rooted(Dir) /\ Dir.live \in Nat /\ Len(Dir.archives) \in Nat /\ Dir.archives \in Seq(Nat)
  BY DirFacts DEF Shape
<1>2. Len(cache) \in Nat
  BY DEF FileType
<1>3. QED
  BY <1>1, <1>2 DEF Distinct, Files, NoFile

-----------------------------------------------------------------------------
(* The cells.  An entry lies where the sequence it was written under says,   *)
(* and no history is longer than the entries written.                        *)

Spelled(s) == Len(s) <= Len(wire) /\ \A i \in 1..Len(s) : s[i] \in 1..Len(wire)
Places(f) ==
  \A i \in 1..Len(cache[f]) : /\ cache[f][i] \in (-1)..Len(wire)
                              /\ cache[f][i] > 0 => wire[cache[f][i]] = Len(anchor[f]) + i
Placed == \A f \in Files : Places(f) /\ Spelled(anchor[f])
Wired ==
  /\ \A e \in 1..Len(wire) : wire[e] \in 1..e
  /\ Spelled(app) /\ Spelled(acked) /\ shadow <= Len(wire)

LEMMA Numbers ==
  ASSUME NEW n \in Nat, NEW b \in Int
  PROVE  /\ [i \in 1..n |-> b + i] \in Seq(Int) /\ Len([i \in 1..n |-> b + i]) = n
         /\ \A i \in 1..n : [j \in 1..n |-> b + j][i] = b + i
OBVIOUS

\* Entries are written under the sequences after b.
Writes(b, n) == wire' = wire \o [i \in 1..n |-> b + i]

LEMMA WritesEffect ==
  ASSUME wire \in Journals, NEW b \in Nat, b <= Len(wire), NEW n \in Nat, Writes(b, n),
         \A e \in 1..Len(wire) : wire[e] \in 1..e
  PROVE  /\ wire' \in Journals /\ Len(wire') = Len(wire) + n /\ Begins(wire, wire')
         /\ \A i \in 1..n : wire'[Len(wire) + i] = b + i
         /\ \A e \in 1..Len(wire') : wire'[e] \in 1..e
<1> DEFINE t == [i \in 1..n |-> b + i]
<1>1. t \in Seq(Int) /\ Len(t) = n /\ \A i \in 1..n : t[i] = b + i
  BY Numbers
<1>2. wire' = wire \o t /\ wire \in Seq(Int) /\ Len(wire) \in Nat
  BY DEF Writes, Journals
<1> HIDE DEF t
<1>3. /\ wire' \in Seq(Int) /\ Len(wire') = Len(wire) + n
      /\ \A i \in 1..Len(wire) : wire'[i] = wire[i]
      /\ \A i \in 1..n : wire'[Len(wire) + i] = b + i
  BY <1>1, <1>2, ConcatFacts
<1>4. Begins(wire, wire')
  BY <1>2, <1>3 DEF Begins
<1>5. ASSUME NEW e \in 1..Len(wire') PROVE wire'[e] \in 1..e
  <2>1. CASE e <= Len(wire)
    <3>1. e \in 1..Len(wire)
      BY <1>2, <1>3, <2>1
    <3>2. QED
      BY <1>3, <3>1
  <2>2. CASE e > Len(wire)
    <3>1. e - Len(wire) \in 1..n /\ Len(wire) + (e - Len(wire)) = e
      BY <1>2, <1>3, <2>2
    <3>2. wire'[e] = b + (e - Len(wire))
      BY <1>3, <3>1
    <3>3. QED
      BY <1>2, <3>1, <3>2
  <2>3. QED
    BY <1>2, <1>3, <2>1, <2>2
<1>6. QED
  BY <1>3, <1>4, <1>5 DEF Journals

LEMMA SpelledGrows ==
  ASSUME wire \in Journals, wire' \in Journals, Begins(wire, wire'), NEW s \in Seq(Int), Spelled(s)
  PROVE  Spelled(s)'
<1>1. Len(wire) \in Nat /\ Len(wire') \in Nat /\ Len(wire) <= Len(wire') /\ Len(s) \in Nat
  BY DEF Journals, Begins
<1>2. QED
  BY <1>1 DEF Spelled

LEMMA PlacesGrows ==
  ASSUME FileType, wire \in Journals, wire' \in Journals, Begins(wire, wire'), NEW f \in Files, Places(f),
         cache'[f] = cache[f], anchor'[f] = anchor[f]
  PROVE  Places(f)'
<1>1. Len(wire) \in Nat /\ Len(wire') \in Nat /\ Len(wire) <= Len(wire')
  BY DEF Journals, Begins
<1>2. ASSUME NEW i \in 1..Len(cache[f]), NEW x, x = cache[f][i]
      PROVE  x \in (-1)..Len(wire') /\ (x > 0 => wire'[x] = Len(anchor[f]) + i)
  <2>1. x \in (-1)..Len(wire) /\ (x > 0 => wire[x] = Len(anchor[f]) + i)
    BY <1>2 DEF Places
  <2>2. ASSUME x > 0 PROVE x \in 1..Len(wire)
    BY <1>1, <2>1, <2>2
  <2>3. QED
    BY <1>1, <2>1, <2>2 DEF Begins
<1>3. QED
  BY <1>2 DEF Places

\* What a segment spells is spelled by entries that were written.
LEMMA ChainSpelled ==
  ASSUME Types, Placed, Wired, NEW f \in Files
  PROVE  /\ Chain(f) \in Seq(Int) /\ Spelled(Chain(f))
         /\ Len(Chain(f)) = Len(anchor[f]) + EndOf(cache[f]) /\ EndOf(cache[f]) \in 0..Len(cache[f])
<1> DEFINE c == cache[f]
           a == anchor[f]
           w == WholeOf(cache[f])
<1>1. c \in Seq(Int) /\ a \in Seq(Int) /\ Len(a) \in Nat /\ Len(c) \in Nat /\ Len(wire) \in Nat
  BY FileFacts DEF Types, NodeType, Journals
<1>2. /\ w \in Seq(Int) /\ Len(w) = EndOf(c) /\ Positive(w) /\ EndOf(c) \in 0..Len(c)
      /\ \A i \in 1..EndOf(c) : w[i] = c[i]
  BY <1>1, WholeFacts, EndFacts
<1>3. Chain(f) = a \o w
  BY ChainIs
<1>4. \A i \in 1..EndOf(c) : w[i] \in 1..Len(wire) /\ wire[w[i]] = Len(a) + i
  <2>1. ASSUME NEW i \in 1..EndOf(c) PROVE w[i] \in 1..Len(wire) /\ wire[w[i]] = Len(a) + i
    <3>1. i \in 1..Len(c) /\ w[i] = c[i] /\ w[i] > 0
      BY <1>1, <1>2 DEF Positive
    <3>2. c[i] \in (-1)..Len(wire) /\ (c[i] > 0 => wire[c[i]] = Len(a) + i)
      BY <3>1 DEF Placed, Places
    <3>3. QED
      BY <1>1, <3>1, <3>2
  <2>2. QED
    BY <2>1
<1>5. Spelled(a)
  BY DEF Placed
<1> HIDE DEF c, a, w
<1>6. Len(a) + EndOf(c) <= Len(wire)
  <2>1. CASE EndOf(c) = 0
    BY <1>1, <1>5, <2>1 DEF Spelled
  <2>2. CASE EndOf(c) # 0
    <3>1. EndOf(c) \in 1..EndOf(c)
      BY <1>1, <1>2, <2>2
    <3>2. PICK e : e = w[EndOf(c)]
      OBVIOUS
    <3>3. e \in 1..Len(wire) /\ wire[e] = Len(a) + EndOf(c)
      BY <1>4, <3>1, <3>2
    <3>4. wire[e] \in 1..e
      BY <3>3 DEF Wired
    <3>5. QED
      BY <1>1, <1>2, <3>3, <3>4
  <2>3. QED
    BY <2>1, <2>2
<1>7. /\ a \o w \in Seq(Int) /\ Len(a \o w) = Len(a) + EndOf(c)
      /\ \A i \in 1..Len(a) : (a \o w)[i] = a[i]
      /\ \A i \in 1..(Len(a) + EndOf(c)) :
           i \in 1..Len(a) \/ (i - Len(a) \in 1..EndOf(c) /\ (a \o w)[i] = w[i - Len(a)])
  <2>1. a \in Seq(Int) /\ w \in Seq(Int) /\ Len(w) = EndOf(c)
    BY <1>1, <1>2
  <2>2. /\ a \o w \in Seq(Int) /\ Len(a \o w) = Len(a) + Len(w)
        /\ \A i \in 1..Len(a) : (a \o w)[i] = a[i]
        /\ \A i \in 1..(Len(a) + Len(w)) :
             i \in 1..Len(a) \/ (i - Len(a) \in 1..Len(w) /\ (a \o w)[i] = w[i - Len(a)])
    BY <2>1, ConcatFacts, Zenon
  <2>3. QED
    BY <2>1, <2>2, Zenon
<1>8. \A i \in 1..(Len(a) + EndOf(c)) : (a \o w)[i] \in 1..Len(wire)
  BY <1>4, <1>5, <1>7 DEF Spelled
<1>9. Spelled(a \o w)
  BY <1>6, <1>7, <1>8 DEF Spelled
<1>10. QED
  BY <1>2, <1>3, <1>7, <1>9 DEF a, c

-----------------------------------------------------------------------------
(* What recovery reads *)

LEMMA SegmentsAre ==
  ASSUME DirType
  PROVE  /\ Dir.live = NoFile => Segments = Dir.archives
         /\ Dir.live # NoFile => /\ Len(Segments) = Len(Dir.archives) + 1
                                 /\ \A i \in 1..Len(Dir.archives) : Segments[i] = Dir.archives[i]
                                 /\ Segments[Len(Dir.archives) + 1] = Dir.live
         /\ Segments \in Seq(Nat)
<1> DEFINE A == Dir.archives
           n == Len(Dir.archives)
<1>1. A \in Seq(Nat) /\ n \in Nat /\ Dir.live \in Nat
  BY DirFacts
<1>2. CASE Dir.live = NoFile
  BY <1>1, <1>2 DEF Segments
<1>3. CASE Dir.live # NoFile
  <2>1. PICK x \in Nat : x = Dir.live
    BY <1>1
  <2> DEFINE t == <<x>>
  <2>2. t \in Seq(Nat) /\ Len(t) = 1 /\ t[1] = x
    OBVIOUS
  <2>3. Segments = A \o t
    BY <1>3, <2>1 DEF Segments
  <2> HIDE DEF t
  <2>4. /\ A \o t \in Seq(Nat) /\ Len(A \o t) = Len(A) + Len(t)
        /\ \A i \in 1..(Len(A) + Len(t)) : (A \o t)[i] = IF i <= Len(A) THEN A[i] ELSE t[i - Len(A)]
    BY <1>1, <2>2, ConcatProperties
  <2>5. \A i \in 1..n : (A \o t)[i] = A[i]
    BY <1>1, <2>2, <2>4
  <2>6. (A \o t)[n + 1] = x
    BY <1>1, <2>2, <2>4
  <2>7. QED
    BY <1>3, <2>1, <2>2, <2>3, <2>4, <2>5, <2>6
<1>4. QED
  BY <1>2, <1>3

LEMMA JournalIs ==
  ASSUME DirType
  PROVE  /\ Segments = <<>> <=> Dir.live = NoFile /\ Len(Dir.archives) = 0
         /\ Dir.live # NoFile => Journal = Chain(Dir.live)
         /\ Dir.live = NoFile => Journal = Chain(Dir.archives[Len(Dir.archives)])
<1>1. Dir.archives \in Seq(Nat) /\ Len(Dir.archives) \in Nat
  BY DirFacts
<1>2. Segments = <<>> <=> Len(Segments) = 0
  BY SegmentsAre
<1>3. CASE Dir.live = NoFile
  BY <1>1, <1>2, <1>3, SegmentsAre DEF Journal, Last
<1>4. CASE Dir.live # NoFile
  BY <1>1, <1>2, <1>4, SegmentsAre DEF Journal, Last
<1>5. QED
  BY <1>3, <1>4

\* What the walk has established of the archives and of the live segment.
LEMMA AcceptsGives ==
  ASSUME Types, Shape, Accepts
  PROVE  /\ Dir.live # NoFile => headed[Dir.live]
         /\ \A s \in Snapshot : IsPrefix(s.chain, Journal)
         /\ \A j \in 1..Len(Dir.archives) : \A i \in 1..Len(cache[Dir.archives[j]]) :
              cache[Dir.archives[j]][i] > 0 => i <= EndOf(cache[Dir.archives[j]])
         /\ \A j \in 2..Len(Dir.archives) : anchor[Dir.archives[j]] = Chain(Dir.archives[j - 1])
         /\ Dir.live # NoFile /\ Len(Dir.archives) >= 1
              => anchor[Dir.live] = Chain(Dir.archives[Len(Dir.archives)])
<1> DEFINE A == Dir.archives
           n == Len(Dir.archives)
<1>0. DirType /\ FileType /\ n \in Nat /\ A \in Seq(Nat) /\ Len(Segments) \in Nat
  BY DirFacts, SegmentsAre DEF Types
<1>1. Distinct(Dir) /\ (Dir.live # NoFile <=> Dir.live \in Files)
  BY <1>0, DirShape
<1>2. (\A j \in 1..n : j \in 1..Len(Segments) /\ Segments[j] = A[j])
      /\ (Dir.live # NoFile => n + 1 \in 1..Len(Segments) /\ Segments[n + 1] = Dir.live /\ Len(Segments) = n + 1)
  BY <1>0, SegmentsAre
<1>3. /\ \A k \in 1..Len(Segments) : Readable(Segments[k], Segments[k] = Dir.live)
      /\ \A k \in 2..Len(Segments) : anchor[Segments[k]] = Chain(Segments[k - 1])
      /\ \A s \in Snapshot : IsPrefix(s.chain, Journal)
  BY DEF Accepts, Linked, Anchored
<1>4. ASSUME Dir.live # NoFile PROVE headed[Dir.live]
  BY <1>2, <1>3, <1>4 DEF Readable
<1>5. ASSUME NEW j \in 1..n, NEW i \in 1..Len(cache[A[j]]), cache[A[j]][i] > 0
      PROVE  i <= EndOf(cache[A[j]])
  <2>1. Readable(A[j], A[j] = Dir.live) /\ A[j] # Dir.live /\ A[j] \in Files
    BY <1>1, <1>2, <1>3 DEF Distinct
  <2>2. Readable(A[j], FALSE)
    BY <2>1
  <2>3. TailReach(A[j], FALSE) = ValidEnd(A[j]) + 0
    BY DEF TailReach
  <2>4. ValidEnd(A[j]) = EndOf(cache[A[j]])
    BY DEF ValidEnd, EndOf
  <2>5. EndOf(cache[A[j]]) \in Nat
    BY <1>0, <2>1, FileFacts, EndFacts
  <2>6. \A g \in 1..Len(cache[A[j]]) : g > TailReach(A[j], FALSE) => cache[A[j]][g] = 0
    BY <2>2, Zenon DEF Readable, Zeros
  <2>7. PICK e \in Nat : e = EndOf(cache[A[j]])
    BY <2>5
  <2>8. TailReach(A[j], FALSE) = e + 0
    BY <2>3, <2>4, <2>7
  <2>9. i > e + 0 => cache[A[j]][i] = 0
    BY <1>5, <2>6, <2>8
  <2>10. i \in Int /\ ~(i > e + 0)
    BY <1>5, <2>9
  <2>11. QED
    BY <2>7, <2>10
<1>6. ASSUME NEW j \in 2..n PROVE anchor[A[j]] = Chain(A[j - 1])
  <2>1. j \in 1..n /\ j - 1 \in 1..n /\ j \in 2..Len(Segments)
    BY <1>0, <1>2
  <2>2. QED
    BY <1>2, <1>3, <2>1
<1>7. ASSUME Dir.live # NoFile, n >= 1 PROVE anchor[Dir.live] = Chain(A[n])
  <2>1. n + 1 \in 2..Len(Segments) /\ n + 1 - 1 = n /\ n \in 1..n
    BY <1>0, <1>2, <1>7
  <2>2. anchor[Segments[n + 1]] = Chain(Segments[n + 1 - 1])
    BY <1>3, <2>1
  <2>3. QED
    BY <1>2, <1>7, <2>1, <2>2
<1>8. QED
  BY <1>3, <1>4, <1>5, <1>6, <1>7

Saved ==
  /\ \A j \in 1..Len(snaps) : \A s \in snaps[j] : s.app = s.chain
  /\ \A s \in taken : s.app = s.chain

LEMMA SnapshotFacts ==
  ASSUME Types
  PROVE  /\ Len(snaps) \in Nat /\ Len(snaps) \in 1..Len(snaps) /\ Snapshot = snaps[Len(snaps)]
         /\ \A k \in 1..Len(snaps) : snaps[k] \in SUBSET Saves
         /\ \A s \in Saves : s.chain \in Seq(Int) /\ s.app \in Seq(Int)
<1>1. Len(snaps) \in Nat /\ Len(snaps) >= 1 /\ \A k \in 1..Len(snaps) : snaps[k] \in SUBSET Saves
  BY ElementOfSeq DEF Types, SaveType
<1>2. \A s \in Saves : s.chain \in Seq(Int) /\ s.app \in Seq(Int)
  BY DEF Saves, Journals
<1>3. QED
  BY <1>1, <1>2 DEF Snapshot, Last

\* A snapshot that is in the journal and the entries after it are the journal.
LEMMA ReplayedIs ==
  ASSUME Types, Saved, Journal \in Seq(Int), \A s \in Snapshot : Begins(s.chain, Journal)
  PROVE  Replayed = Journal
<1>1. CASE Snapshot = {}
  BY <1>1 DEF Replayed
<1>2. CASE Snapshot # {}
  <2> DEFINE s == CHOOSE s \in Snapshot : TRUE
  <2>1. s \in Snapshot
    BY <1>2
  <2>2. Replayed = s.app \o SubSeq(Journal, Len(s.chain) + 1, Len(Journal))
    BY <1>2 DEF Replayed
  <2> HIDE DEF s
  <2>3. s \in Saves /\ s.app = s.chain /\ s.chain \in Seq(Int) /\ Begins(s.chain, Journal)
    BY <2>1, SnapshotFacts DEF Saved
  <2>4. QED
    BY <2>2, <2>3, Rejoined
<1>3. QED
  BY <1>1, <1>2

-----------------------------------------------------------------------------
(* The running node.  Only the live segment has cells that are not synced,   *)
(* and those follow the durable history; the node has applied what its last  *)
(* segment spells, through every step of a rotation.                         *)

Spells(f) == anchor[f] \o cache[f]
Settled(f) ==
  /\ Begins(disk[f], cache[f]) /\ Len(cache[f]) <= Len(disk[f]) + MaxUnsynced
  /\ disk[f] # cache[f] => /\ f = Dir.live /\ phase \in {"drain", "down", "refused"}
                           /\ Positive(cache[f]) /\ acked = anchor[f] \o disk[f]
Synced == \A f \in Files : Settled(f)

LastArchive(L) == L.archives[Len(L.archives)]
Standing(f) == f \in Files /\ Positive(cache[f]) /\ headed[f] /\ Spells(f) = app
Opened(f) == f \in Files /\ cache[f] = <<>> /\ anchor[f] = app
Running ==
  /\ Up => Begins(acked, app)
  /\ phase \in {"run", "archived", "created", "installed"} => acked = app
  /\ phase \in {"run", "drain"} => Standing(Dir.live)
  /\ phase \in {"archived", "created"} => Len(Dir.archives) >= 1 /\ Standing(LastArchive(Dir))
  /\ phase = "archived" => Dir.live = NoFile
  /\ phase \in {"created", "installed"} => Opened(Dir.live)
  /\ phase = "installed" => headed[Dir.live]
Synthesizing ==
  phase = "synthesizing" =>
    /\ Dir.live \in Files /\ cache[Dir.live] = <<>>
    /\ \A s \in Snapshot : Begins(s.chain, anchor[Dir.live])

Base == Types /\ Shape /\ Placed /\ Wired /\ Synced /\ Saved /\ Running /\ Synthesizing

LEMMA BaseInit == Init => Base
<1> SUFFICES ASSUME Init PROVE Base
  OBVIOUS
<1>1. /\ dirs = <<Layout(<<>>, NoFile)>> /\ snaps = <<{}>> /\ anchor = <<>> /\ headed = <<>>
      /\ cache = <<>> /\ disk = <<>> /\ wire = <<>> /\ phase = "down" /\ app = <<>> /\ shadow = 0
      /\ saving = "no" /\ taken = {} /\ acked = <<>> /\ exposed = FALSE /\ excused = FALSE
  BY DEF Init
<1> DEFINE L == Layout(<<>>, NoFile)
<1>2. L \in Named /\ L.archives = <<>> /\ L.live = 0
  BY DEF Layout, Named, NoFile
<1> HIDE DEF L
<1>3. dirs = <<L>> /\ Len(dirs) = 1 /\ dirs[1] = L /\ dirs \in Seq(Named)
  BY <1>1, <1>2 DEF L
<1>4. Types
  <2>1. DirType
    BY <1>3 DEF DirType
  <2>2. FileType
    BY <1>1 DEF FileType
  <2>3. NodeType
    <3>1. <<>> \in Journals
      BY DEF Journals
    <3>2. QED
      BY <1>1, <3>1, Zenon DEF NodeType, Phases
  <2>4. SaveType
    <3>1. Len(snaps) = 1 /\ snaps \in Seq(SUBSET Saves)
      BY <1>1
    <3>2. QED
      BY <1>1, <3>1 DEF SaveType
  <2>5. QED
    BY <2>1, <2>2, <2>3, <2>4 DEF Types
<1>5. Files = {} /\ Len(cache) = 0
  BY <1>1 DEF Files
<1>6. Shape
  BY <1>2, <1>3, <1>5 DEF Shape, Distinct, Rooted, NoFile
<1>7. Placed /\ Synced
  BY <1>5 DEF Placed, Synced
<1>8. Wired
  BY <1>1 DEF Wired, Spelled
<1>9. Saved
  <2>1. Len(snaps) = 1 /\ snaps[1] = {} /\ taken = {}
    BY <1>1
  <2>2. QED
    BY <2>1 DEF Saved
<1>10. Running /\ Synthesizing
  BY <1>1 DEF Running, Synthesizing, Up
<1>11. QED
  BY <1>4, <1>6, <1>7, <1>8, <1>9, <1>10 DEF Base

\* A node that is not draining, down or refused has synced every file.
LEMMA AllSynced ==
  ASSUME Synced, phase \notin {"drain", "down", "refused"}
  PROVE  \A f \in Files : disk[f] = cache[f]
BY DEF Synced, Settled

LEMMA OthersSynced ==
  ASSUME Synced, NEW f \in Files, f # Dir.live
  PROVE  disk[f] = cache[f]
BY DEF Synced, Settled

FilesStay == UNCHANGED <<anchor, headed, cache, disk, wire>>

LEMMA QuietBase ==
  ASSUME Base, FilesStay, acked' = acked, NEW L \in Named, Turns(L), Distinct(L), Rooted(L),
         app' \in {app, <<>>}, phase' \in Phases, exposed' \in BOOLEAN, excused' \in BOOLEAN,
         SaveType', shadow' <= Len(wire),
         \A f \in Files : disk[f] # cache[f] => f = L.live /\ phase' \in {"drain", "down", "refused"}
  PROVE  Types' /\ Shape' /\ Placed' /\ Wired' /\ Synced' /\ Dir' = L
<1>0. Types /\ DirType /\ FileType /\ Shape /\ Placed /\ Wired /\ Synced
  BY DEF Base, Types
<1>1. anchor' = anchor /\ headed' = headed /\ cache' = cache /\ disk' = disk /\ wire' = wire
  BY DEF FilesStay
<1>2. DirType' /\ Dir' = L
  BY <1>0, TurnsEffect
<1>3. FileType' /\ Files' = Files
  BY <1>0, <1>1 DEF FileType, Files
<1>4. NodeType'
  <2>1. app \in Journals /\ acked \in Journals /\ wire \in Journals /\ <<>> \in Journals
    BY <1>0 DEF Types, NodeType, Journals
  <2>2. app' \in Journals /\ acked' \in Journals /\ wire' \in Journals
    BY <1>1, <2>1
  <2>3. QED
    BY <2>2, Zenon DEF NodeType
<1>5. Types'
  BY <1>2, <1>3, <1>4 DEF Types
<1>6. Grows
  BY <1>0, <1>1, <1>3, FileFacts DEF Grows
<1>7. Distinct(L)' /\ Rooted(L)'
  BY <1>0, <1>6, ShapeLayout
<1>8. Shape'
  BY <1>0, <1>6, <1>7, ShapeStep
<1>9. Placed'
  BY <1>0, <1>1, <1>3 DEF Placed, Places, Spelled
<1>10. Wired'
  <2>1. Spelled(<<>>)
    BY <1>0 DEF Spelled, Types, NodeType, Journals
  <2>2. Spelled(app') /\ Spelled(acked')
    BY <1>0, <2>1 DEF Wired
  <2>3. QED
    BY <1>0, <1>1, <2>2 DEF Wired, Spelled
<1>11. Synced'
  <2>1. ASSUME NEW f \in Files PROVE Settled(f)'
    <3>1. Settled(f)
      BY <1>0 DEF Synced
    <3>2. QED
      BY <1>1, <1>2, <3>1 DEF Settled
  <2>2. QED
    BY <1>3, <2>1 DEF Synced
<1>12. QED
  BY <1>2, <1>5, <1>8, <1>9, <1>10, <1>11

-----------------------------------------------------------------------------
(* Steps that write no file *)

LEMMA BaseKeeps ==
  ASSUME Base
  PROVE  /\ Types /\ DirType /\ FileType /\ NodeType /\ SaveType /\ Shape /\ Placed /\ Wired /\ Synced
         /\ Saved /\ Running /\ Synthesizing
         /\ Dir \in Named /\ Distinct(Dir) /\ Rooted(Dir)
         /\ app \in Seq(Int) /\ acked \in Seq(Int) /\ wire \in Seq(Int) /\ Len(wire) \in Nat
         /\ Len(app) \in Nat /\ Len(acked) \in Nat /\ Len(app) <= Len(wire) /\ Len(acked) <= Len(wire)
<1>1. /\ Types /\ DirType /\ FileType /\ NodeType /\ SaveType /\ Shape /\ Placed /\ Wired /\ Synced
      /\ Saved /\ Running /\ Synthesizing
  BY DEF Base, Types
<1>2. Dir \in Named /\ Distinct(Dir) /\ Rooted(Dir)
  BY <1>1, DirFacts, DirShape
<1>3. app \in Seq(Int) /\ acked \in Seq(Int) /\ wire \in Seq(Int)
  BY <1>1 DEF NodeType, Journals
<1>4. Len(app) <= Len(wire) /\ Len(acked) <= Len(wire)
  BY <1>1 DEF Wired, Spelled
<1>5. QED
  BY <1>1, <1>2, <1>3, <1>4, LenProperties

\* A step that leaves the disk and the node alone.
LEMMA IdleBase ==
  ASSUME Base, FilesStay, dirs' = dirs, acked' = acked, app' = app, phase' = phase,
         exposed' = exposed, excused' = excused, SaveType', shadow' <= Len(wire)
  PROVE  Types' /\ Shape' /\ Placed' /\ Wired' /\ Synced' /\ Running'
<1>0. Types /\ FileType /\ NodeType /\ Synced /\ Running /\ Dir \in Named /\ Distinct(Dir) /\ Rooted(Dir)
  BY BaseKeeps
<1>1. PICK L \in Named : L = Dir
  BY <1>0
<1>2. Turns(L) /\ Distinct(L) /\ Rooted(L)
  BY <1>0, <1>1 DEF Turns
<1>3. phase' \in Phases /\ exposed' \in BOOLEAN /\ excused' \in BOOLEAN
  BY <1>0 DEF NodeType
<1>4. \A f \in Files : disk[f] # cache[f] => f = L.live /\ phase' \in {"drain", "down", "refused"}
  BY <1>0, <1>1 DEF Synced, Settled
<1>5. Types' /\ Shape' /\ Placed' /\ Wired' /\ Synced'
  BY <1>2, <1>3, <1>4, QuietBase
<1>6. Running'
  BY <1>0 DEF Running, Up, Standing, Opened, LastArchive, Spells, Files, Dir, FilesStay
<1>7. QED
  BY <1>5, <1>6

LEMMA SnapsAppend ==
  ASSUME SaveType, Saved, NEW S \in SUBSET Saves, \A s \in S : s.app = s.chain,
         snaps' \in {snaps, <<S>>, Append(snaps, S)}
  PROVE  /\ snaps' \in Seq(SUBSET Saves) /\ Len(snaps') >= 1
         /\ \A j \in 1..Len(snaps') : snaps'[j] = S \/ \E i \in 1..Len(snaps) : snaps'[j] = snaps[i]
         /\ \A j \in 1..Len(snaps') : \A s \in snaps'[j] : s.app = s.chain
<1>1. snaps \in Seq(SUBSET Saves) /\ Len(snaps) \in Nat /\ Len(snaps) >= 1
  BY DEF SaveType
<1>2. /\ snaps' \in Seq(SUBSET Saves) /\ Len(snaps') >= 1
      /\ \A j \in 1..Len(snaps') : snaps'[j] = S \/ \E i \in 1..Len(snaps) : snaps'[j] = snaps[i]
  <2>1. CASE snaps' = snaps
    BY <1>1, <2>1
  <2>2. CASE snaps' = <<S>>
    <3>1. Len(snaps') = 1 /\ snaps'[1] = S /\ snaps' \in Seq(SUBSET Saves)
      BY <2>2
    <3>2. QED
      BY <3>1
  <2>3. CASE snaps' = Append(snaps, S)
    <3>1. /\ snaps' \in Seq(SUBSET Saves) /\ Len(snaps') = Len(snaps) + 1 /\ snaps'[Len(snaps) + 1] = S
          /\ \A f \in 1..Len(snaps) : snaps'[f] = snaps[f]
      BY <1>1, <2>3, AppendEffect
    <3>2. QED
      BY <1>1, <3>1
  <2>4. QED
    BY <2>1, <2>2, <2>3
<1>3. QED
  BY <1>2 DEF Saved

LEMMA ShadowBase ==
  ASSUME Base, Shadow
  PROVE  Base'
<1>0. /\ Types /\ SaveType /\ Saved /\ Running /\ app \in Seq(Int) /\ acked \in Seq(Int)
      /\ Len(acked) \in Nat /\ Len(wire) \in Nat /\ Len(acked) <= Len(wire) /\ Wired
  BY BaseKeeps
<1>1. /\ Up /\ FilesStay /\ dirs' = dirs /\ acked' = acked /\ app' = app /\ phase' = phase
      /\ exposed' = exposed /\ excused' = excused
  BY DEF Shadow, ShadowConsume, StartSave, SyncRotated, Publish, SyncPublished, FilesStay, directory,
         files, history, save
<1>2. Snapshot \in SUBSET Saves /\ (\A s \in Snapshot : s.app = s.chain) /\ taken \in SUBSET Saves
  BY <1>0, SnapshotFacts DEF Saved, SaveType
<1>3. /\ shadow' \in Nat /\ shadow' <= Len(wire)
      /\ saving' \in {"no", "rotated", "ready", "published"}
  <2>1. CASE ShadowConsume
    <3>1. shadow' \in (shadow + 1)..Len(acked) /\ saving' = saving /\ shadow \in Nat
      BY <1>0, <2>1 DEF ShadowConsume, save, SaveType
    <3>2. QED
      BY <1>0, <3>1 DEF SaveType
  <2>2. CASE ~ShadowConsume
    BY <1>0, <2>2 DEF Shadow, StartSave, SyncRotated, Publish, SyncPublished, SaveType, Wired
  <2>3. QED
    BY <2>1, <2>2
<1>4. \E S \in SUBSET Saves : (\A s \in S : s.app = s.chain) /\ snaps' \in {snaps, <<S>>, Append(snaps, S)}
  <2>1. CASE ShadowConsume
    BY <1>2, <2>1 DEF ShadowConsume, directory
  <2>2. CASE StartSave
    <3>1. snaps' = snaps \/ snaps' = Append(snaps, {})
      BY <2>2 DEF StartSave
    <3>2. QED
      BY <1>2, <3>1
  <2>3. CASE SyncRotated
    <3>1. snaps' = snaps \/ snaps' = <<Snapshot>>
      BY <2>3 DEF SyncRotated
    <3>2. QED
      BY <1>2, <3>1
  <2>4. CASE Publish
    <3>1. snaps' = Append(snaps, taken) /\ \A s \in taken : s.app = s.chain
      BY <1>0, <2>4 DEF Publish, Saved
    <3>2. QED
      BY <1>2, <3>1
  <2>5. CASE SyncPublished
    <3>1. snaps' = snaps \/ snaps' = <<Snapshot>>
      BY <2>5 DEF SyncPublished
    <3>2. QED
      BY <1>2, <3>1
  <2>6. QED
    BY <2>1, <2>2, <2>3, <2>4, <2>5 DEF Shadow
<1>5. /\ snaps' \in Seq(SUBSET Saves) /\ Len(snaps') >= 1
      /\ \A j \in 1..Len(snaps') : \A s \in snaps'[j] : s.app = s.chain
  BY <1>0, <1>4, SnapsAppend
<1>6. taken' \in SUBSET Saves /\ \A s \in taken' : s.app = s.chain
  <2>1. CASE StartSave
    <3>1. taken' = {[app |-> SubSeq(app, 1, shadow), chain |-> acked]} /\ shadow = Len(acked)
      BY <2>1 DEF StartSave, AtBoundary
    <3>2. Begins(acked, app)
      BY <1>0, <1>1 DEF Running
    <3>3. SubSeq(app, 1, Len(acked)) = acked
      <4>1. SubSeq(acked, 1, Len(acked)) = SubSeq(app, 1, Len(acked))
        BY <1>0, <3>2, PrefixIsBegins DEF IsPrefix
      <4>2. QED
        BY <1>0, <4>1, SubSeqFull
    <3>4. taken' = {[app |-> acked, chain |-> acked]}
      BY <3>1, <3>3
    <3>5. QED
      BY <1>0, <3>4 DEF Saves, Journals
  <2>2. CASE ~StartSave
    <3>1. taken' = taken \/ taken' = {}
      BY <2>2 DEF Shadow, ShadowConsume, SyncRotated, Publish, SyncPublished, save
    <3>2. QED
      BY <1>0, <1>2, <3>1 DEF Saved
  <2>3. QED
    BY <2>1, <2>2
<1>7. SaveType' /\ Saved'
  BY <1>3, <1>5, <1>6 DEF SaveType, Saved
<1>8. Types' /\ Shape' /\ Placed' /\ Wired' /\ Synced' /\ Running'
  BY <1>1, <1>3, <1>7, IdleBase
<1>9. Synthesizing'
  BY <1>1 DEF Synthesizing, Up
<1>10. QED
  BY <1>7, <1>8, <1>9 DEF Base

LEMMA ForgetSaves ==
  ASSUME SaveType, Saved, Forget, \E k \in 1..Len(snaps) : snaps' = <<snaps[k]>> \/ snaps' = snaps
  PROVE  SaveType' /\ Saved' /\ shadow' = 0
<1>1. shadow' = 0 /\ saving' = "no" /\ taken' = {}
  BY DEF Forget
<1>2. PICK k \in 1..Len(snaps) : snaps' = <<snaps[k]>> \/ snaps' = snaps
  OBVIOUS
<1>3. PICK S \in SUBSET Saves : S = snaps[k]
  BY ElementOfSeq DEF SaveType
<1>4. \A s \in S : s.app = s.chain
  BY <1>3 DEF Saved
<1>5. /\ snaps' \in Seq(SUBSET Saves) /\ Len(snaps') >= 1
      /\ \A j \in 1..Len(snaps') : \A s \in snaps'[j] : s.app = s.chain
  BY <1>2, <1>3, <1>4, SnapsAppend
<1>6. QED
  BY <1>1, <1>5 DEF SaveType, Saved

LEMMA KillBase ==
  ASSUME Base, Kill
  PROVE  Base'
<1>0. /\ Types /\ SaveType /\ Saved /\ NodeType /\ Synced /\ Dir \in Named /\ Distinct(Dir) /\ Rooted(Dir)
      /\ Len(wire) \in Nat
  BY BaseKeeps
<1>1. /\ FilesStay /\ dirs' = dirs /\ snaps' = snaps /\ acked' = acked /\ app' = <<>> /\ phase' = "down"
      /\ exposed' = exposed /\ excused' = excused
  BY DEF Kill, Forget, FilesStay, directory, files, history
<1>2. SaveType' /\ Saved' /\ shadow' = 0
  <2>1. Len(snaps) \in 1..Len(snaps)
    BY <1>0, SnapshotFacts
  <2>2. QED
    BY <1>0, <1>1, <2>1, ForgetSaves DEF Kill
<1>3. PICK L \in Named : L = Dir
  BY <1>0
<1>4. Turns(L) /\ Distinct(L) /\ Rooted(L)
  BY <1>0, <1>1, <1>3 DEF Turns
<1>5. phase' \in Phases /\ exposed' \in BOOLEAN /\ excused' \in BOOLEAN
  BY <1>0, <1>1 DEF NodeType, Phases
<1>6. \A f \in Files : disk[f] # cache[f] => f = L.live /\ phase' \in {"drain", "down", "refused"}
  BY <1>0, <1>1, <1>3 DEF Synced, Settled
<1>7. Types' /\ Shape' /\ Placed' /\ Wired' /\ Synced'
  BY <1>0, <1>1, <1>2, <1>4, <1>5, <1>6, QuietBase
<1>8. Running' /\ Synthesizing'
  BY <1>1 DEF Running, Synthesizing, Up
<1>9. QED
  BY <1>2, <1>7, <1>8 DEF Base

LEMMA RefuseBase ==
  ASSUME Base, Refuse
  PROVE  Base'
<1>0. /\ Types /\ SaveType /\ Saved /\ NodeType /\ Synced /\ Wired /\ Dir \in Named /\ Distinct(Dir)
      /\ Rooted(Dir)
  BY BaseKeeps
<1>1. /\ FilesStay /\ dirs' = dirs /\ snaps' = snaps /\ acked' = acked /\ app' = app /\ phase' = "refused"
      /\ exposed' = exposed /\ excused' = excused /\ shadow' = shadow /\ saving' = saving /\ taken' = taken
  BY DEF Refuse, FilesStay, directory, files, history, follower, save
<1>2. SaveType' /\ Saved' /\ shadow' <= Len(wire)
  BY <1>0, <1>1 DEF SaveType, Saved, Wired
<1>3. PICK L \in Named : L = Dir
  BY <1>0
<1>4. Turns(L) /\ Distinct(L) /\ Rooted(L)
  BY <1>0, <1>1, <1>3 DEF Turns
<1>5. phase' \in Phases /\ exposed' \in BOOLEAN /\ excused' \in BOOLEAN
  BY <1>0, <1>1 DEF NodeType, Phases
<1>6. \A f \in Files : disk[f] # cache[f] => f = L.live /\ phase' \in {"drain", "down", "refused"}
  BY <1>0, <1>1, <1>3 DEF Synced, Settled
<1>7. Types' /\ Shape' /\ Placed' /\ Wired' /\ Synced'
  BY <1>0, <1>1, <1>2, <1>4, <1>5, <1>6, QuietBase
<1>8. Running' /\ Synthesizing'
  BY <1>1 DEF Running, Synthesizing, Up
<1>9. QED
  BY <1>2, <1>7, <1>8 DEF Base

LEMMA SyncGenesisBase ==
  ASSUME Base, SyncGenesis
  PROVE  Base'
<1>0. /\ Types /\ SaveType /\ Saved /\ NodeType /\ Synced /\ Wired /\ Dir \in Named /\ Distinct(Dir)
      /\ Rooted(Dir)
  BY BaseKeeps
<1>1. /\ FilesStay /\ dirs' \in {<<Dir>>, dirs} /\ snaps' = snaps /\ acked' = acked /\ app' = app
      /\ phase = "genesis" /\ phase' = "down" /\ exposed' = exposed /\ excused' = excused
      /\ shadow' = shadow /\ saving' = saving /\ taken' = taken
  BY DEF SyncGenesis, FilesStay, files, history, follower, save
<1>2. SaveType' /\ Saved' /\ shadow' <= Len(wire)
  BY <1>0, <1>1 DEF SaveType, Saved, Wired
<1>3. PICK L \in Named : L = Dir
  BY <1>0
<1>4. Turns(L) /\ Distinct(L) /\ Rooted(L)
  BY <1>0, <1>1, <1>3 DEF Turns
<1>5. phase' \in Phases /\ exposed' \in BOOLEAN /\ excused' \in BOOLEAN
  BY <1>0, <1>1 DEF NodeType, Phases
<1>6. \A f \in Files : disk[f] # cache[f] => f = L.live /\ phase' \in {"drain", "down", "refused"}
  BY <1>0, <1>1, <1>3 DEF Synced, Settled
<1>7. Types' /\ Shape' /\ Placed' /\ Wired' /\ Synced'
  BY <1>0, <1>1, <1>2, <1>4, <1>5, <1>6, QuietBase
<1>8. Running' /\ Synthesizing'
  BY <1>1 DEF Running, Synthesizing, Up
<1>9. QED
  BY <1>2, <1>7, <1>8 DEF Base

\* Renames within the running node: the live name goes, or comes back.
LEMMA DirIs ==
  ASSUME Base
  PROVE  /\ Dir.archives \in Seq(Nat) /\ Len(Dir.archives) \in Nat /\ Dir.live \in 0..Len(cache)
         /\ Len(cache) \in Nat
         /\ \A i \in 1..Len(Dir.archives) : Dir.archives[i] \in 1..Len(cache) /\ Dir.archives[i] # Dir.live
         /\ \A i, j \in 1..Len(Dir.archives) : Dir.archives[i] = Dir.archives[j] => i = j
         /\ Len(Dir.archives) >= 1 => anchor[Dir.archives[1]] = <<>>
         /\ Len(Dir.archives) = 0 /\ Dir.live # 0 => anchor[Dir.live] = <<>>
<1>1. /\ Distinct(Dir) /\ Rooted(Dir) /\ DirType /\ FileType
  BY BaseKeeps
<1>2. Dir.archives \in Seq(Nat) /\ Len(Dir.archives) \in Nat /\ Len(cache) \in Nat
  BY <1>1, DirFacts DEF FileType
<1>3. QED
  BY <1>1, <1>2 DEF Distinct, Rooted, Files, NoFile

LEMMA LayoutIs ==
  ASSUME NEW B \in Seq(Nat), NEW x \in Nat
  PROVE  /\ Layout(B, x) \in Named /\ Layout(B, x).archives = B /\ Layout(B, x).live = x
BY DEF Layout, Named

LEMMA ArchivedLayout ==
  ASSUME Base, Dir.live \in Files
  PROVE  LET L == Layout(Append(Dir.archives, Dir.live), NoFile)
         IN  /\ L \in Named /\ Distinct(L) /\ Rooted(L) /\ Len(L.archives) >= 1 /\ L.live = NoFile
             /\ LastArchive(L) = Dir.live /\ Len(L.archives) = Len(Dir.archives) + 1
             /\ \A i \in 1..Len(Dir.archives) : L.archives[i] = Dir.archives[i]
<1>1. PICK A, n, x, c : A = Dir.archives /\ n = Len(Dir.archives) /\ x = Dir.live /\ c = Len(cache)
  OBVIOUS
<1>2. /\ A \in Seq(Nat) /\ n \in Nat /\ n = Len(A) /\ c \in Nat /\ x \in 1..c /\ x \in Nat
      /\ \A i \in 1..n : A[i] \in 1..c /\ A[i] # x
      /\ \A i, j \in 1..n : A[i] = A[j] => i = j
      /\ n >= 1 => anchor[A[1]] = <<>>
      /\ n = 0 => anchor[x] = <<>>
  <2>1. x \in 1..c /\ c \in Nat
    BY <1>1, DirIs DEF Files
  <2>2. x \in Nat /\ x # 0
    BY <2>1
  <2>3. QED
    BY <1>1, <2>1, <2>2, DirIs
<1>3. PICK B : B = Append(A, x)
  OBVIOUS
<1>4. /\ B \in Seq(Nat) /\ Len(B) = n + 1 /\ B[n + 1] = x
      /\ \A i \in 1..n : B[i] = A[i]
  BY <1>2, <1>3, AppendEffect
<1>5. PICK L : L = Layout(B, 0)
  OBVIOUS
<1>6. L \in Named /\ L.archives = B /\ L.live = 0
  BY <1>4, <1>5, LayoutIs
<1>7. \A i \in 1..(n + 1) : i \in 1..n \/ i = n + 1
  BY <1>2
<1>8. Distinct(L)
  <2>1. \A i \in 1..(n + 1) : B[i] \in 1..c
    BY <1>2, <1>4, <1>7
  <2>2. \A i \in 1..(n + 1) : B[i] # 0
    BY <1>2, <2>1
  <2>3. ASSUME NEW i \in 1..(n + 1), NEW j \in 1..(n + 1), B[i] = B[j] PROVE i = j
    <3>1. CASE i \in 1..n /\ j \in 1..n
      BY <1>2, <1>4, <2>3, <3>1
    <3>2. CASE i \in 1..n /\ j = n + 1
      BY <1>2, <1>4, <2>3, <3>2
    <3>3. CASE i = n + 1 /\ j \in 1..n
      BY <1>2, <1>4, <2>3, <3>3
    <3>4. QED
      BY <1>7, <3>1, <3>2, <3>3
  <2>4. 0 \in 0..c
    BY <1>2
  <2>5. QED
    BY <1>1, <1>4, <1>6, <2>1, <2>2, <2>3, <2>4 DEF Distinct, Files
<1>9. Rooted(L)
  <2>1. anchor[B[1]] = <<>>
    <3>1. CASE n >= 1
      <4>1. 1 \in 1..n
        BY <1>2, <3>1
      <4>2. QED
        BY <1>2, <1>4, <3>1, <4>1
    <3>2. CASE n = 0
      BY <1>2, <1>4, <3>2
    <3>3. QED
      BY <1>2, <3>1, <3>2
  <2>2. QED
    BY <1>2, <1>4, <1>6, <2>1 DEF Rooted
<1>10. LastArchive(L) = x /\ Len(L.archives) >= 1
  BY <1>2, <1>4, <1>6 DEF LastArchive
<1>11. L = Layout(Append(Dir.archives, Dir.live), NoFile)
  BY <1>1, <1>3, <1>5 DEF NoFile
<1>12. QED
  BY <1>1, <1>4, <1>6, <1>8, <1>9, <1>10, <1>11 DEF NoFile

LEMMA BackLayout ==
  ASSUME Base, Len(Dir.archives) >= 1
  PROVE  LET L == Layout(Front(Dir.archives), Last(Dir.archives))
         IN  /\ L \in Named /\ Distinct(L) /\ Rooted(L) /\ L.live = LastArchive(Dir) /\ L.live \in Files
             /\ Len(L.archives) = Len(Dir.archives) - 1
             /\ \A i \in 1..Len(L.archives) : L.archives[i] = Dir.archives[i]
<1>1. PICK A, n, c : A = Dir.archives /\ n = Len(Dir.archives) /\ c = Len(cache)
  OBVIOUS
<1>2. /\ A \in Seq(Nat) /\ n \in Nat /\ n >= 1 /\ n = Len(A) /\ c \in Nat
      /\ \A i \in 1..n : A[i] \in 1..c
      /\ \A i, j \in 1..n : A[i] = A[j] => i = j
      /\ anchor[A[1]] = <<>>
  BY <1>1, DirIs
<1>3. n \in 1..n /\ n - 1 \in Nat /\ \A i \in 1..(n - 1) : i \in 1..n /\ i # n
  BY <1>2
<1>4. PICK B : B = SubSeq(A, 1, n - 1)
  OBVIOUS
<1>5. B \in Seq(Nat) /\ Len(B) = n - 1 /\ \A i \in 1..(n - 1) : B[i] = A[i]
  <2>1. \A i \in 1..n : A[i] \in Nat
    BY <1>2
  <2>2. 1 \in Int /\ n - 1 \in Int /\ \A i \in 1..(n - 1) : A[i] \in Nat
    BY <1>3, <2>1
  <2>3. /\ B \in Seq(Nat) /\ Len(B) = (IF 1 <= n - 1 THEN n - 1 - 1 + 1 ELSE 0)
        /\ \A i \in 1..(n - 1 - 1 + 1) : B[i] = A[1 + i - 1]
    BY <1>4, <2>2, SubSeqProperties
  <2>4. QED
    BY <1>2, <2>3
<1>6. PICK x : x = A[n]
  OBVIOUS
<1>7. x \in 1..c /\ x \in Nat /\ x \in 0..c
  BY <1>2, <1>3, <1>6
<1>8. PICK L : L = Layout(B, x)
  OBVIOUS
<1>9. L \in Named /\ L.archives = B /\ L.live = x
  BY <1>5, <1>7, <1>8, LayoutIs
<1>10. Distinct(L)
  <2>1. \A i \in 1..(n - 1) : B[i] \in 1..c /\ B[i] # x
    BY <1>2, <1>3, <1>5, <1>6
  <2>2. \A i, j \in 1..(n - 1) : B[i] = B[j] => i = j
    BY <1>2, <1>3, <1>5
  <2>3. QED
    BY <1>1, <1>5, <1>7, <1>9, <2>1, <2>2 DEF Distinct, Files
<1>11. Rooted(L)
  <2>1. CASE n = 1
    BY <1>2, <1>5, <1>6, <1>9, <2>1 DEF Rooted
  <2>2. CASE n > 1
    <3>1. 1 \in 1..(n - 1) /\ n - 1 # 0
      BY <1>2, <2>2
    <3>2. QED
      BY <1>2, <1>5, <1>9, <3>1 DEF Rooted
  <2>3. n = 1 \/ n > 1
    BY <1>2
  <2>4. QED
    BY <2>1, <2>2, <2>3
<1>12. L = Layout(Front(Dir.archives), Last(Dir.archives)) /\ LastArchive(Dir) = x
  BY <1>1, <1>2, <1>4, <1>6, <1>8 DEF Front, Last, LastArchive
<1>13. QED
  BY <1>1, <1>5, <1>7, <1>9, <1>10, <1>11, <1>12 DEF Files

LEMMA ArchiveBase ==
  ASSUME Base, ArchiveLive
  PROVE  Base'
<1>0. /\ Types /\ SaveType /\ Saved /\ NodeType /\ Synced /\ Wired /\ Running /\ FileType
  BY BaseKeeps
<1>1. /\ FilesStay /\ snaps' = snaps /\ acked' = acked /\ app' = app
      /\ dirs' = Append(dirs, Layout(Append(Dir.archives, Dir.live), NoFile))
      /\ phase = "run" /\ phase' = "archived" /\ exposed' = exposed /\ excused' = excused
      /\ shadow' = shadow /\ saving' = saving /\ taken' = taken
  BY DEF ArchiveLive, Drained, FilesStay, files, history, follower, save
<1>2. SaveType' /\ Saved' /\ shadow' <= Len(wire)
  BY <1>0, <1>1 DEF SaveType, Saved, Wired
<1>3. Standing(Dir.live) /\ acked = app /\ Begins(acked, app)
  BY <1>0, <1>1 DEF Running, Up
<1>4. PICK L \in Named : /\ L = Layout(Append(Dir.archives, Dir.live), NoFile)
                         /\ Distinct(L) /\ Rooted(L) /\ Len(L.archives) >= 1 /\ L.live = NoFile
                         /\ LastArchive(L) = Dir.live
  BY <1>3, ArchivedLayout DEF Standing
<1>5. Turns(L)
  BY <1>1, <1>4 DEF Turns
<1>6. phase' \in Phases /\ exposed' \in BOOLEAN /\ excused' \in BOOLEAN
  BY <1>0, <1>1 DEF NodeType, Phases
<1>7. \A f \in Files : disk[f] = cache[f]
  BY <1>0, <1>1, AllSynced
<1>8. Types' /\ Shape' /\ Placed' /\ Wired' /\ Synced' /\ Dir' = L
  BY <1>1, <1>2, <1>4, <1>5, <1>6, <1>7, QuietBase
<1>9. LastArchive(Dir)' = Dir.live
  BY <1>4, <1>8 DEF LastArchive
<1>10. PICK f : f = Dir.live
  OBVIOUS
<1>11. Standing(f)'
  BY <1>1, <1>3, <1>10 DEF Standing, Spells, Files, FilesStay
<1>12. Standing(LastArchive(Dir))'
  BY <1>9, <1>10, <1>11 DEF Standing, Spells
<1>13. Running'
  BY <1>1, <1>3, <1>4, <1>8, <1>12 DEF Running, Up
<1>14. Synthesizing'
  BY <1>1 DEF Synthesizing
<1>15. QED
  BY <1>2, <1>8, <1>13, <1>14 DEF Base

LEMMA RollBackBase ==
  ASSUME Base, RollBack
  PROVE  Base'
<1>0. /\ Types /\ SaveType /\ Saved /\ NodeType /\ Synced /\ Wired /\ Running /\ FileType
  BY BaseKeeps
<1>1. /\ FilesStay /\ snaps' = snaps /\ acked' = acked /\ app' = app
      /\ phase \in {"archived", "created"} /\ phase' = "run" /\ excused' = excused /\ exposed' \in BOOLEAN
      /\ shadow' = shadow /\ saving' = saving /\ taken' = taken
  BY DEF RollBack, FilesStay, files, history, follower, save
<1>2. SaveType' /\ Saved' /\ shadow' <= Len(wire)
  BY <1>0, <1>1 DEF SaveType, Saved, Wired
<1>3. Len(Dir.archives) >= 1 /\ Standing(LastArchive(Dir)) /\ acked = app /\ Begins(acked, app)
  BY <1>0, <1>1 DEF Running, Up
<1>4. PICK L \in Named : /\ L = Layout(Front(Dir.archives), Last(Dir.archives))
                         /\ Distinct(L) /\ Rooted(L) /\ L.live = LastArchive(Dir)
  BY <1>3, BackLayout
<1>5. Turns(L)
  BY <1>4 DEF Turns, RollBack
<1>6. phase' \in Phases /\ exposed' \in BOOLEAN /\ excused' \in BOOLEAN
  BY <1>0, <1>1 DEF NodeType, Phases
<1>7. \A f \in Files : disk[f] = cache[f]
  BY <1>0, <1>1, AllSynced
<1>8. Types' /\ Shape' /\ Placed' /\ Wired' /\ Synced' /\ Dir' = L
  BY <1>1, <1>2, <1>4, <1>5, <1>6, <1>7, QuietBase
<1>9. PICK f : f = LastArchive(Dir)
  OBVIOUS
<1>10. Standing(f)' /\ f = Dir'.live
  BY <1>1, <1>3, <1>4, <1>8, <1>9 DEF Standing, Spells, Files, FilesStay
<1>11. Standing(Dir.live)'
  BY <1>10 DEF Standing, Spells
<1>12. Running'
  BY <1>1, <1>3, <1>11 DEF Running, Up
<1>13. Synthesizing'
  BY <1>1 DEF Synthesizing
<1>14. QED
  BY <1>2, <1>8, <1>12, <1>13 DEF Base

LEMMA FinishBase ==
  ASSUME Base, FinishRotation
  PROVE  Base'
<1>0. /\ Types /\ SaveType /\ Saved /\ NodeType /\ Synced /\ Wired /\ Running /\ FileType
      /\ Dir \in Named /\ Distinct(Dir) /\ Rooted(Dir) /\ app \in Seq(Int)
  BY BaseKeeps
<1>1. /\ FilesStay /\ snaps' = snaps /\ acked' = acked /\ app' = app /\ dirs' \in {<<Dir>>, dirs}
      /\ phase = "installed" /\ phase' = "run" /\ excused' = excused /\ exposed' \in BOOLEAN
      /\ shadow' = shadow /\ saving' = saving /\ taken' = taken
  BY DEF FinishRotation, AfterRotation, FilesStay, files, history, follower, save
<1>2. SaveType' /\ Saved' /\ shadow' <= Len(wire)
  BY <1>0, <1>1 DEF SaveType, Saved, Wired
<1>3. Opened(Dir.live) /\ headed[Dir.live] /\ acked = app /\ Begins(acked, app)
  BY <1>0, <1>1 DEF Running, Up
<1>4. PICK L \in Named : L = Dir
  BY <1>0
<1>5. Turns(L) /\ Distinct(L) /\ Rooted(L)
  BY <1>0, <1>1, <1>4 DEF Turns
<1>6. phase' \in Phases /\ exposed' \in BOOLEAN /\ excused' \in BOOLEAN
  BY <1>0, <1>1 DEF NodeType, Phases
<1>7. \A f \in Files : disk[f] = cache[f]
  BY <1>0, <1>1, AllSynced
<1>8. Types' /\ Shape' /\ Placed' /\ Wired' /\ Synced' /\ Dir' = L
  BY <1>1, <1>2, <1>5, <1>6, <1>7, QuietBase
<1>9. PICK f : f = Dir.live
  OBVIOUS
<1>10. Positive(cache[f]) /\ Spells(f) = app
  <2>1. cache[f] = <<>> /\ anchor[f] = app
    BY <1>3, <1>9 DEF Opened
  <2>2. app \o <<>> = app
    BY <1>0, ConcatEmptySeq
  <2>3. Positive(<<>>)
    BY DEF Positive
  <2>4. QED
    BY <2>1, <2>2, <2>3 DEF Spells
<1>11. Standing(f)' /\ f = Dir'.live
  BY <1>1, <1>3, <1>4, <1>8, <1>9, <1>10 DEF Standing, Spells, Files, FilesStay, Opened
<1>12. Standing(Dir.live)'
  BY <1>11 DEF Standing, Spells
<1>13. Running'
  BY <1>1, <1>3, <1>12 DEF Running, Up
<1>14. Synthesizing'
  BY <1>1 DEF Synthesizing
<1>15. QED
  BY <1>2, <1>8, <1>13, <1>14 DEF Base

-----------------------------------------------------------------------------
(* Steps that create a file *)

LEMMA NoEntries == <<>> \in Seq(Int) /\ Len(<<>>) = 0
BY EmptySeq

LEMMA SettledSame ==
  ASSUME NEW f, disk'[f] = cache'[f], cache'[f] \in Journals
  PROVE  Settled(f)'
<1>1. PICK x \in Seq(Int) : x = cache'[f] /\ x = disk'[f]
  BY DEF Journals
<1>2. Len(x) \in Nat /\ MaxUnsynced \in Nat
  BY RecoveryBounds
<1>3. Begins(x, x) /\ Len(x) <= Len(x) + MaxUnsynced
  BY <1>2 DEF Begins
<1>4. QED
  BY <1>1, <1>3 DEF Settled

LEMMA AddBase ==
  ASSUME Base, NEW h \in Seq(Int), NEW c \in Seq(Int), NEW b \in BOOLEAN, AddFile(h, c, b),
         NEW L \in Named, dirs' = Append(dirs, L), L.live = NewFile, L.archives = Dir.archives,
         Dir.live = NoFile, Len(Dir.archives) = 0 => h = <<>>,
         wire' \in Journals, Begins(wire, wire'), \A e \in 1..Len(wire') : wire'[e] \in 1..e,
         Spelled(h)', \A i \in 1..Len(c) : c[i] \in 1..Len(wire') /\ wire'[c[i]] = Len(h) + i,
         acked' = acked, app' = app, phase' \in Phases, exposed' = exposed, excused' = excused,
         snaps' = snaps, shadow' = shadow, saving' = saving, taken' = taken
  PROVE  Types' /\ Shape' /\ Placed' /\ Wired' /\ Synced' /\ Saved' /\ Dir' = L
<1>0. /\ Types /\ DirType /\ FileType /\ NodeType /\ SaveType /\ Shape /\ Placed /\ Wired /\ Synced /\ Saved
      /\ app \in Seq(Int) /\ acked \in Seq(Int) /\ wire \in Journals
  BY BaseKeeps DEF NodeType
<1>1. PICK m \in Nat : m = Len(cache)
  BY <1>0, FileFacts
<1>2. PICK g : g = NewFile
  OBVIOUS
<1>3. /\ FileType' /\ Len(cache') = m + 1 /\ g = m + 1
      /\ anchor'[g] = h /\ headed'[g] = b /\ cache'[g] = c /\ disk'[g] = c
      /\ \A f \in 1..m : /\ anchor'[f] = anchor[f] /\ headed'[f] = headed[f]
                         /\ cache'[f] = cache[f] /\ disk'[f] = disk[f]
  BY <1>0, <1>1, <1>2, AddEffect DEF Files
<1>4. \A f \in 1..(m + 1) : f \in 1..m \/ f = g
  BY <1>1, <1>3
<1>5. Turns(L)
  BY DEF Turns
<1>6. DirType' /\ Dir' = L
  BY <1>0, <1>5, TurnsEffect
<1>7. NodeType' /\ SaveType' /\ Saved'
  BY <1>0 DEF NodeType, SaveType, Saved
<1>8. Types'
  BY <1>3, <1>6, <1>7 DEF Types
<1>9. Grows
  BY <1>1, <1>3 DEF Grows, Files
<1>10. Distinct(L)' /\ Rooted(L)'
  <2>1. /\ Len(L.archives) \in Nat /\ \A i \in 1..Len(L.archives) : L.archives[i] \in 1..m
        /\ \A i, j \in 1..Len(L.archives) : L.archives[i] = L.archives[j] => i = j
        /\ Len(L.archives) >= 1 => anchor[L.archives[1]] = <<>>
    BY <1>1, DirIs
  <2>2. \A f \in 1..m : f # g /\ f \in 1..(m + 1)
    BY <1>1, <1>3
  <2>3. Distinct(L)'
    <3>1. L.live \in 0..(m + 1)
      BY <1>1, <1>2, <1>3
    <3>2. \A i \in 1..Len(L.archives) : L.archives[i] \in 1..(m + 1) /\ L.archives[i] # L.live
      BY <1>2, <2>1, <2>2
    <3>3. QED
      BY <1>3, <2>1, <3>1, <3>2 DEF Distinct, Files
  <2>4. Rooted(L)'
    <3>1. ASSUME Len(L.archives) >= 1 PROVE anchor'[L.archives[1]] = <<>>
      <4>1. 1 \in 1..Len(L.archives)
        BY <2>1, <3>1
      <4>2. QED
        BY <1>3, <2>1, <3>1, <4>1
    <3>2. Len(L.archives) = 0 => anchor'[L.live] = <<>>
      BY <1>2, <1>3
    <3>3. QED
      BY <3>1, <3>2 DEF Rooted
  <2>5. QED
    BY <2>3, <2>4
<1>11. Shape'
  BY <1>0, <1>5, <1>9, <1>10, ShapeStep
<1>12. Placed'
  <2>1. ASSUME NEW f \in 1..m PROVE Places(f)' /\ Spelled(anchor[f])'
    <3>1. f \in Files /\ Places(f) /\ Spelled(anchor[f]) /\ anchor[f] \in Seq(Int)
      BY <1>0, <1>1, FileFacts DEF Placed, Files
    <3>2. Places(f)'
      BY <1>0, <1>3, <3>1, PlacesGrows
    <3>3. PICK a \in Seq(Int) : a = anchor[f]
      BY <3>1
    <3>4. Spelled(a)'
      BY <1>0, <3>1, <3>3, SpelledGrows
    <3>5. anchor'[f] = a
      BY <1>3, <3>3
    <3>6. QED
      BY <3>2, <3>4, <3>5 DEF Spelled
  <2>2. Places(g)' /\ Spelled(anchor[g])'
    <3>1. Len(wire') \in Nat
      BY DEF Journals
    <3>2. \A i \in 1..Len(c) : c[i] \in (-1)..Len(wire')
      BY <3>1
    <3>3. Places(g)'
      BY <1>3, <3>2 DEF Places
    <3>4. QED
      BY <1>3, <3>3 DEF Spelled
  <2>3. QED
    BY <1>3, <1>4, <2>1, <2>2 DEF Placed, Files
<1>13. Wired'
  <2>1. \A s \in Seq(Int) : Spelled(s) => Spelled(s)'
    BY <1>0, SpelledGrows
  <2>2. Spelled(app)' /\ Spelled(acked)'
    <3>1. PICK a \in Seq(Int), k \in Seq(Int) : a = app /\ k = acked
      BY <1>0
    <3>2. Spelled(a)' /\ Spelled(k)' /\ a = app' /\ k = acked'
      BY <1>0, <2>1, <3>1 DEF Wired
    <3>3. QED
      BY <3>2 DEF Spelled
  <2>3. shadow' <= Len(wire')
    <3>1. shadow \in Nat /\ shadow <= Len(wire) /\ Len(wire) <= Len(wire') /\ Len(wire) \in Nat
          /\ Len(wire') \in Nat
      BY <1>0 DEF Wired, Begins, SaveType, Journals
    <3>2. QED
      BY <3>1
  <2>4. QED
    BY <2>2, <2>3 DEF Wired
<1>14. Synced'
  <2>1. ASSUME NEW f \in 1..(m + 1) PROVE disk'[f] = cache'[f]
    <3>1. CASE f = g
      BY <1>3, <3>1
    <3>2. CASE f \in 1..m
      <4>1. f \in Files /\ f # Dir.live
        BY <1>1, <3>2 DEF Files, NoFile
      <4>2. QED
        BY <1>0, <1>3, <3>2, <4>1, OthersSynced
    <3>3. QED
      BY <1>4, <3>1, <3>2
  <2>2. ASSUME NEW f \in 1..(m + 1) PROVE Settled(f)'
    <3>1. cache'[f] \in Journals
      BY <1>3, ElementOfSeq DEF FileType
    <3>2. QED
      BY <2>1, <3>1, SettledSame
  <2>3. QED
    BY <1>3, <2>2 DEF Synced, Files
<1>15. QED
  BY <1>6, <1>7, <1>8, <1>11, <1>12, <1>13, <1>14

LEMMA WriteGenesisBase ==
  ASSUME Base, WriteGenesis
  PROVE  Base'
<1>0. /\ Types /\ DirType /\ FileType /\ NodeType /\ Wired /\ Len(wire) \in Nat /\ Genesis \in Nat /\ Dir \in Named
      /\ wire \in Journals /\ 0 \in Nat /\ 0 <= Len(wire) /\ \A e \in 1..Len(wire) : wire[e] \in 1..e
  BY BaseKeeps, RecoveryBounds DEF NodeType, Wired
<1>1. Dir.live = NoFile /\ Len(Dir.archives) = 0 /\ Dir.archives = <<>>
  <2>1. Dir.live = NoFile /\ Len(Dir.archives) = 0
    BY <1>0, JournalIs DEF WriteGenesis, Fresh
  <2>2. QED
    BY <2>1, DirIs
<1> DEFINE ids == [i \in 1..Genesis |-> Len(wire) + i]
<1>2. ids \in Seq(Int) /\ Len(ids) = Genesis /\ \A i \in 1..Genesis : ids[i] = Len(wire) + i
  BY <1>0, Numbers
<1>3. /\ AddFile(<<>>, ids, TRUE) /\ wire' = wire \o [i \in 1..Genesis |-> i]
      /\ dirs' = Append(dirs, Layout(<<>>, NewFile)) /\ phase' = "genesis" /\ acked' = acked /\ app' = app
      /\ exposed' = exposed /\ excused' = excused /\ snaps' = snaps /\ shadow' = shadow
      /\ saving' = saving /\ taken' = taken
  BY DEF WriteGenesis, follower, save, history
<1>4. PICK c \in Seq(Int) : c = ids
  BY <1>2
<1> HIDE DEF ids
<1>5. Writes(0, Genesis)
  <2>1. \A i \in 1..Genesis : 0 + i = i
    BY <1>0
  <2>2. [i \in 1..Genesis |-> i] = [i \in 1..Genesis |-> 0 + i]
    BY <2>1
  <2>3. QED
    BY <1>3, <2>2 DEF Writes
<1>6. /\ wire' \in Journals /\ Len(wire') = Len(wire) + Genesis /\ Begins(wire, wire')
      /\ \A i \in 1..Genesis : wire'[Len(wire) + i] = 0 + i
      /\ \A e \in 1..Len(wire') : wire'[e] \in 1..e
  BY <1>0, <1>5, WritesEffect
<1>7. PICK h \in Seq(Int) : h = <<>>
  BY NoEntries
<1>8. Len(h) = 0 /\ Spelled(h)'
  BY <1>0, <1>6, <1>7 DEF Spelled
<1>9. ASSUME NEW i \in 1..Len(c) PROVE c[i] \in 1..Len(wire') /\ wire'[c[i]] = Len(h) + i
  <2>1. i \in 1..Genesis /\ c[i] = Len(wire) + i
    BY <1>2, <1>4
  <2>2. wire'[c[i]] = 0 + i
    BY <1>6, <2>1
  <2>3. QED
    BY <1>0, <1>6, <1>8, <2>1, <2>2
<1>10. PICK L \in Named : L = Layout(<<>>, NewFile)
  <2>1. NewFile \in Nat /\ <<>> \in Seq(Nat)
    BY <1>0, FileFacts DEF NewFile
  <2>2. QED
    BY <2>1, LayoutIs
<1>11. L.live = NewFile /\ L.archives = Dir.archives
  BY <1>1, <1>10 DEF Layout
<1>12. AddFile(h, c, TRUE) /\ phase' \in Phases
  BY <1>3, <1>4, <1>7 DEF Phases
<1>13. Types' /\ Shape' /\ Placed' /\ Wired' /\ Synced' /\ Saved' /\ Dir' = L
  BY <1>1, <1>3, <1>6, <1>7, <1>8, <1>9, <1>10, <1>11, <1>12, AddBase
<1>14. Running' /\ Synthesizing'
  BY <1>3 DEF Running, Synthesizing, Up
<1>15. QED
  BY <1>13, <1>14 DEF Base

\* The rotation's new segment, prepared or created in place.
LEMMA InstallBase ==
  ASSUME Base, phase = "archived", NEW b \in BOOLEAN, AddFile(app, <<>>, b),
         dirs' = Append(dirs, Layout(Dir.archives, NewFile)), phase' \in {"created", "installed"},
         phase' = "installed" => b, wire' = wire, acked' = acked, app' = app, exposed' = exposed,
         excused' = excused, snaps' = snaps, shadow' = shadow, saving' = saving, taken' = taken
  PROVE  Base' /\ Dir' = Layout(Dir.archives, NewFile)
<1>0. /\ Types /\ DirType /\ FileType /\ NodeType /\ Wired /\ Running /\ Len(wire) \in Nat /\ Dir \in Named
      /\ wire \in Journals /\ app \in Seq(Int)
  BY BaseKeeps DEF NodeType
<1>1. /\ Dir.live = NoFile /\ Len(Dir.archives) >= 1 /\ Standing(LastArchive(Dir)) /\ acked = app
      /\ Begins(acked, app)
  BY <1>0 DEF Running, Up
<1>2. PICK h \in Seq(Int), c \in Seq(Int) : h = app /\ c = <<>>
  BY <1>0, NoEntries
<1>3. /\ wire' \in Journals /\ Begins(wire, wire') /\ \A e \in 1..Len(wire') : wire'[e] \in 1..e
  BY <1>0 DEF Wired, Begins
<1>4. Spelled(h)' /\ Len(c) = 0
  BY <1>0, <1>2 DEF Wired, Spelled
<1>5. \A i \in 1..Len(c) : c[i] \in 1..Len(wire') /\ wire'[c[i]] = Len(h) + i
  BY <1>4
<1>6. PICK L \in Named : L = Layout(Dir.archives, NewFile) /\ L.live = NewFile /\ L.archives = Dir.archives
  <2>1. NewFile \in Nat /\ Dir.archives \in Seq(Nat)
    BY <1>0, FileFacts, DirIs DEF NewFile
  <2>2. QED
    BY <2>1, LayoutIs
<1>7. AddFile(h, c, b) /\ phase' \in Phases /\ (Len(Dir.archives) = 0 => h = <<>>)
  BY <1>1, <1>2, DirIs DEF Phases
<1>8. Types' /\ Shape' /\ Placed' /\ Wired' /\ Synced' /\ Saved' /\ Dir' = L
  BY <1>1, <1>2, <1>3, <1>4, <1>5, <1>6, <1>7, AddBase
<1>9. PICK g : g = NewFile
  OBVIOUS
<1>10. /\ g \in 1..Len(cache') /\ anchor'[g] = app /\ headed'[g] = b /\ cache'[g] = <<>>
       /\ \A f \in Files : /\ anchor'[f] = anchor[f] /\ headed'[f] = headed[f] /\ f \in 1..Len(cache')
                           /\ cache'[f] = cache[f] /\ disk'[f] = disk[f]
  <2>1. /\ Len(cache') = Len(cache) + 1 /\ g = Len(cache) + 1 /\ Len(cache) \in Nat
        /\ anchor'[g] = h /\ headed'[g] = b /\ cache'[g] = c
        /\ \A f \in Files : /\ anchor'[f] = anchor[f] /\ headed'[f] = headed[f]
                            /\ cache'[f] = cache[f] /\ disk'[f] = disk[f]
    BY <1>0, <1>7, <1>9, AddEffect
  <2>2. g \in 1..Len(cache') /\ \A f \in Files : f \in 1..Len(cache')
    BY <2>1 DEF Files
  <2>3. QED
    BY <1>2, <2>1, <2>2
<1>11. Opened(Dir.live)' /\ headed'[Dir'.live] = b
  BY <1>6, <1>8, <1>9, <1>10 DEF Opened, Files
<1>12. PICK f : f = LastArchive(Dir)
  OBVIOUS
<1>13. Standing(f)' /\ f = LastArchive(Dir)'
  BY <1>1, <1>6, <1>8, <1>10, <1>12 DEF Standing, Spells, LastArchive, Files
<1>14. Standing(LastArchive(Dir))' /\ Len(Dir'.archives) >= 1
  BY <1>1, <1>6, <1>8, <1>13 DEF Standing, Spells
<1>15. Running'
  BY <1>1, <1>11, <1>14 DEF Running, Up
<1>16. Synthesizing'
  BY DEF Synthesizing
<1>17. QED
  BY <1>6, <1>8, <1>15, <1>16 DEF Base

LEMMA SynthesizeBase ==
  ASSUME Base, SynthesizeLive
  PROVE  Base' /\ Dir' = Layout(Dir.archives, NewFile) /\ anchor'[NewFile] = Journal /\ cache'[NewFile] = <<>>
<1>0. /\ Types /\ DirType /\ FileType /\ NodeType /\ Wired /\ Placed /\ Shape /\ Len(wire) \in Nat
      /\ Dir \in Named /\ wire \in Journals
  BY BaseKeeps DEF NodeType
<1>1. /\ AddFile(Journal, <<>>, FALSE) /\ wire' = wire /\ Accepts
      /\ dirs' = Append(dirs, Layout(Dir.archives, NewFile)) /\ phase' = "synthesizing" /\ acked' = acked
      /\ app' = app /\ exposed' = exposed /\ excused' = excused /\ snaps' = snaps /\ shadow' = shadow
      /\ saving' = saving /\ taken' = taken /\ Dir.live = NoFile /\ Dir.archives # <<>>
  BY DEF SynthesizeLive, follower, save, history
<1>2. Len(Dir.archives) >= 1 /\ LastArchive(Dir) \in Files
  <2>1. Dir.archives \in Seq(Nat) /\ Len(Dir.archives) \in Nat /\ Len(Dir.archives) # 0
    BY <1>1, DirIs
  <2>2. Len(Dir.archives) \in 1..Len(Dir.archives) /\ Len(Dir.archives) >= 1
    BY <2>1
  <2>3. QED
    BY <2>2, DirIs DEF LastArchive, Files
<1>3. Journal \in Seq(Int) /\ Spelled(Journal)
  <2>1. Journal = Chain(LastArchive(Dir))
    BY <1>0, <1>1, JournalIs DEF LastArchive
  <2>2. QED
    BY <1>0, <1>2, <2>1, ChainSpelled
<1>4. PICK h \in Seq(Int), c \in Seq(Int) : h = Journal /\ c = <<>>
  BY <1>3, NoEntries
<1>5. /\ wire' \in Journals /\ Begins(wire, wire') /\ \A e \in 1..Len(wire') : wire'[e] \in 1..e
  BY <1>0, <1>1 DEF Wired, Begins
<1>6. Spelled(h)' /\ Len(c) = 0
  BY <1>1, <1>3, <1>4 DEF Spelled
<1>7. \A i \in 1..Len(c) : c[i] \in 1..Len(wire') /\ wire'[c[i]] = Len(h) + i
  BY <1>6
<1>8. PICK L \in Named : L = Layout(Dir.archives, NewFile) /\ L.live = NewFile /\ L.archives = Dir.archives
  <2>1. NewFile \in Nat /\ Dir.archives \in Seq(Nat)
    BY <1>0, FileFacts, DirIs DEF NewFile
  <2>2. QED
    BY <2>1, LayoutIs
<1>9. AddFile(h, c, FALSE) /\ phase' \in Phases /\ (Len(Dir.archives) = 0 => h = <<>>)
  <2>1. AddFile(h, c, FALSE)
    BY <1>1, <1>4
  <2>2. phase' \in Phases
    BY <1>1 DEF Phases
  <2>3. Len(Dir.archives) # 0
    BY <1>2, DirIs
  <2>4. QED
    BY <2>1, <2>2, <2>3
<1>10. Types' /\ Shape' /\ Placed' /\ Wired' /\ Synced' /\ Saved' /\ Dir' = L
  BY <1>1, <1>4, <1>5, <1>6, <1>7, <1>8, <1>9, AddBase
<1>11. PICK g : g = NewFile
  OBVIOUS
<1>12. /\ g \in 1..Len(cache') /\ anchor'[g] = Journal /\ cache'[g] = <<>>
  <2>1. /\ Len(cache') = Len(cache) + 1 /\ g = Len(cache) + 1 /\ Len(cache) \in Nat
        /\ anchor'[g] = h /\ cache'[g] = c
    BY <1>0, <1>9, <1>11, AddEffect
  <2>2. g \in 1..Len(cache')
    BY <2>1
  <2>3. QED
    BY <1>4, <2>1, <2>2
<1>13. \A s \in Snapshot : Begins(s.chain, Journal)
  <2>1. ASSUME NEW s \in Snapshot PROVE Begins(s.chain, Journal)
    <3>1. s.chain \in Seq(Int) /\ IsPrefix(s.chain, Journal)
      BY <1>0, <1>1, AcceptsGives, SnapshotFacts
    <3>2. QED
      BY <1>3, <3>1, PrefixIsBegins
  <2>2. QED
    BY <2>1
<1>14. Synthesizing'
  <2>1. Snapshot' = Snapshot
    BY <1>1 DEF Snapshot
  <2>2. Dir'.live = g /\ g \in Files'
    BY <1>8, <1>10, <1>11, <1>12 DEF Files
  <2>3. QED
    BY <1>12, <1>13, <2>1, <2>2 DEF Synthesizing
<1>15. Running'
  BY <1>1 DEF Running, Up
<1>16. QED
  BY <1>8, <1>10, <1>11, <1>12, <1>14, <1>15 DEF Base



LEMMA HeadEffect ==
  ASSUME Base, Dir.live \in Files, headed' = [headed EXCEPT ![Dir.live] = TRUE],
         anchor' = anchor, cache' = cache, disk' = disk, wire' = wire
  PROVE  /\ FileType' /\ Files' = Files /\ Grows /\ Placed' /\ headed'[Dir.live] = TRUE
         /\ \A f \in Files : f # Dir.live => headed'[f] = headed[f]
<1>0. FileType /\ Placed /\ Len(cache) \in Nat
  BY BaseKeeps DEF FileType
<1>1. PICK x : x = Dir.live
  OBVIOUS
<1>2. headed \in Seq(BOOLEAN) /\ x \in 1..Len(headed) /\ headed' = [headed EXCEPT ![x] = TRUE]
  BY <1>0, <1>1 DEF FileType, Files
<1>3. /\ headed' \in Seq(BOOLEAN) /\ Len(headed') = Len(headed) /\ headed'[x] = TRUE
      /\ \A g \in 1..Len(headed) : g # x => headed'[g] = headed[g]
  BY ONLY <1>2
<1>4. FileType' /\ Files' = Files
  BY <1>0, <1>3 DEF FileType, Files
<1>5. Grows
  BY <1>0, <1>4 DEF Grows
<1>6. Placed'
  BY <1>0, <1>4 DEF Placed, Places, Spelled
<1>7. QED
  BY <1>0, <1>1, <1>3, <1>4, <1>5, <1>6 DEF FileType, Files

LEMMA InstallFreshHeadBase ==
  ASSUME Base, phase = "created", headed' = [headed EXCEPT ![Dir.live] = TRUE], phase' = "installed",
         dirs' = dirs, snaps' = snaps, anchor' = anchor, cache' = cache, disk' = disk, wire' = wire,
         app' = app, acked' = acked, exposed' = exposed, excused' = excused,
         shadow' = shadow, saving' = saving, taken' = taken
  PROVE  Base'
<1>0. /\ Types /\ DirType /\ FileType /\ NodeType /\ SaveType /\ Wired /\ Saved /\ Running /\ Synced /\ Shape
      /\ Dir \in Named /\ Distinct(Dir) /\ Rooted(Dir)
  BY BaseKeeps
<1>1. Opened(Dir.live) /\ acked = app /\ Begins(acked, app)
  BY <1>0 DEF Running, Up
<1>2. /\ FileType' /\ Files' = Files /\ Grows /\ Placed' /\ headed'[Dir.live] = TRUE
  BY <1>1, HeadEffect DEF Opened
<1>3. Dir' = Dir /\ DirType'
  BY <1>0 DEF Dir, DirType
<1>4. NodeType' /\ SaveType' /\ Saved' /\ Wired'
  BY <1>0 DEF NodeType, SaveType, Saved, Wired, Spelled, Phases
<1>5. Types'
  BY <1>2, <1>3, <1>4 DEF Types
<1>6. Shape'
  <2>1. PICK L \in Named : L = Dir
    BY <1>0
  <2>2. Turns(L) /\ Distinct(L)' /\ Rooted(L)'
    BY <1>0, <1>2, <2>1, ShapeLayout DEF Turns
  <2>3. QED
    BY <1>0, <1>2, <2>2, ShapeStep
<1>7. Synced'
  <2>1. ASSUME NEW f \in Files PROVE Settled(f)'
    <3>1. disk'[f] = cache'[f] /\ cache'[f] \in Journals
      BY <1>0, AllSynced, FileFacts DEF Journals
    <3>2. QED
      BY <3>1, SettledSame
  <2>2. QED
    BY <1>2, <2>1 DEF Synced
<1>8. Running'
  BY <1>1, <1>2, <1>3 DEF Running, Up, Opened
<1>9. Synthesizing'
  BY DEF Synthesizing
<1>10. QED
  BY <1>2, <1>4, <1>5, <1>6, <1>7, <1>8, <1>9 DEF Base

\* The node takes up what its live segment spells.
LEMMA ServeBase ==
  ASSUME Base, NEW state \in Seq(Int), Spelled(state), Serve(state), dirs' = dirs, snaps' = snaps,
         wire' = wire, exposed' \in BOOLEAN, FileType', Files' = Files, Grows, Placed',
         \A f \in Files : disk'[f] = cache'[f], Standing(Dir.live)'
  PROVE  Base'
<1>0. /\ Types /\ DirType /\ FileType /\ NodeType /\ SaveType /\ Wired /\ Saved /\ Shape
      /\ Dir \in Named /\ Distinct(Dir) /\ Rooted(Dir) /\ Len(wire) \in Nat
  BY BaseKeeps
<1>1. /\ phase' = "run" /\ app' = state /\ acked' = state /\ shadow' = Len(state) /\ saving' = "no"
      /\ taken' = {} /\ excused' = excused
  BY DEF Serve
<1>2. DirType'
  BY <1>0 DEF DirType
<1>3. NodeType'
  BY <1>0, <1>1 DEF NodeType, Phases, Journals
<1>4. SaveType' /\ Saved'
  <2>1. Len(state) \in Nat
    OBVIOUS
  <2>2. QED
    BY <1>0, <1>1, <2>1 DEF SaveType, Saved
<1>5. Types'
  BY <1>2, <1>3, <1>4 DEF Types
<1>6. Wired'
  BY <1>0, <1>1 DEF Wired, Spelled
<1>7. Shape'
  <2>1. PICK L \in Named : L = Dir
    BY <1>0
  <2>2. Turns(L) /\ Distinct(L)' /\ Rooted(L)'
    BY <1>0, <2>1, ShapeLayout DEF Turns
  <2>3. QED
    BY <1>0, <2>2, ShapeStep
<1>8. Synced'
  <2>1. ASSUME NEW f \in Files PROVE Settled(f)'
    <3>1. f \in 1..Len(cache') /\ cache' \in Seq(Journals)
      BY DEF FileType, Files
    <3>2. cache'[f] \in Journals
      BY <3>1, ElementOfSeq
    <3>3. QED
      BY <3>2, SettledSame
  <2>2. QED
    BY <2>1 DEF Synced
<1>9. Running'
  <2>1. Begins(acked', app')
    BY <1>1 DEF Begins
  <2>2. QED
    BY <1>1, <2>1 DEF Running, Up
<1>10. Synthesizing'
  BY <1>1 DEF Synthesizing
<1>11. QED
  BY <1>4, <1>5, <1>6, <1>7, <1>8, <1>9, <1>10 DEF Base

\* In both recoveries what is replayed is the journal.
LEMMA HeadSynthesizedBase ==
  ASSUME Base, HeadSynthesized
  PROVE  Base' /\ Replayed = Journal /\ Journal = anchor[Dir.live] /\ Dir' = Dir
<1>0. /\ Types /\ DirType /\ FileType /\ NodeType /\ Placed /\ Synthesizing /\ Synced /\ Saved /\ Wired
  BY BaseKeeps
<1>1. /\ phase = "synthesizing" /\ headed' = [headed EXCEPT ![Dir.live] = TRUE] /\ Serve(Replayed)
      /\ exposed' = TRUE /\ dirs' = dirs /\ snaps' = snaps /\ anchor' = anchor /\ cache' = cache
      /\ disk' = disk /\ wire' = wire
  BY DEF HeadSynthesized, directory
<1>2. /\ Dir.live \in Files /\ cache[Dir.live] = <<>>
      /\ \A s \in Snapshot : Begins(s.chain, anchor[Dir.live])
  BY <1>0, <1>1 DEF Synthesizing
<1>3. PICK x \in Files : x = Dir.live
  BY <1>2
<1>4. /\ anchor[x] \in Seq(Int) /\ Spelled(anchor[x]) /\ anchor[x] \o <<>> = anchor[x]
  BY <1>0, FileFacts, ConcatEmptySeq DEF Placed
<1>5. Positive(<<>>) /\ <<>> \in Seq(Int)
  BY NoEntries DEF Positive
<1>6. Journal = anchor[x]
  <2>1. Dir.live # NoFile
    BY <1>0, <1>2, DirShape, BaseKeeps
  <2>2. Journal = Chain(x)
    BY <1>0, <1>3, <2>1, JournalIs
  <2>3. Chain(x) = anchor[x] \o WholeOf(<<>>)
    BY <1>2, <1>3, ChainIs
  <2>4. WholeOf(<<>>) = <<>>
    BY <1>5, EndPositive
  <2>5. QED
    BY <1>4, <2>2, <2>3, <2>4
<1>7. Replayed = Journal
  BY <1>0, <1>2, <1>3, <1>4, <1>6, ReplayedIs
<1>8. PICK state \in Seq(Int) : state = Replayed
  BY <1>4, <1>6, <1>7
<1>9. Spelled(state) /\ Serve(state)
  BY <1>1, <1>4, <1>6, <1>7, <1>8
<1>10. /\ FileType' /\ Files' = Files /\ Grows /\ Placed' /\ headed'[x] = TRUE
  BY <1>1, <1>2, <1>3, HeadEffect
<1>11. \A f \in Files : disk'[f] = cache'[f]
  BY <1>0, <1>1, AllSynced
<1>12. Standing(x)'
  <2>1. app' = state
    BY <1>9 DEF Serve
  <2>2. QED
    BY <1>1, <1>2, <1>3, <1>4, <1>5, <1>6, <1>7, <1>8, <1>10, <2>1 DEF Standing, Spells
<1>13. Dir' = Dir
  BY <1>1 DEF Dir
<1>14. Standing(Dir.live)'
  BY <1>3, <1>12, <1>13 DEF Standing, Spells
<1>15. Base'
  BY <1>1, <1>8, <1>9, <1>10, <1>11, <1>14, ServeBase
<1>16. QED
  BY <1>3, <1>6, <1>7, <1>13, <1>15

-----------------------------------------------------------------------------
(* Steps that write cells *)

LEMMA PutFile ==
  ASSUME FileType, NEW x \in Files, NEW c \in Seq(Int), anchor' = anchor, headed' = headed,
         cache' = [cache EXCEPT ![x] = c], disk' \in {[disk EXCEPT ![x] = c], disk, cache'}
  PROVE  /\ FileType' /\ Files' = Files /\ Grows /\ cache'[x] = c
         /\ \A f \in Files : f # x => cache'[f] = cache[f]
<1>1. /\ cache \in Seq(Journals) /\ disk \in Seq(Journals) /\ c \in Journals /\ x \in 1..Len(cache)
      /\ x \in 1..Len(disk) /\ Len(cache) \in Nat
  BY DEF FileType, Files, Journals
<1>2. /\ cache' \in Seq(Journals) /\ Len(cache') = Len(cache) /\ cache'[x] = c
      /\ \A g \in 1..Len(cache) : g # x => cache'[g] = cache[g]
  BY <1>1, PutEffect
<1>3. PICK d : d = [disk EXCEPT ![x] = c]
  OBVIOUS
<1>4. d \in Seq(Journals) /\ Len(d) = Len(disk)
  BY <1>1, <1>3, PutEffect
<1>5. disk' \in Seq(Journals) /\ Len(disk') = Len(cache)
  <2>1. Len(disk) = Len(cache)
    BY DEF FileType
  <2>2. QED
    BY <1>1, <1>2, <1>3, <1>4, <2>1
<1>6. FileType' /\ Files' = Files
  BY <1>2, <1>5 DEF FileType, Files
<1>7. Grows
  BY <1>1, <1>2, <1>6 DEF Grows
<1>8. QED
  BY <1>2, <1>6, <1>7 DEF Files

\* A recovery that serves cuts the live segment, replays its journal, and
\* leaves every file synced.
LEMMA RecoverBase ==
  ASSUME Base, Recover
  PROVE  /\ Base' /\ Replayed = Journal /\ Journal = Chain(Dir.live) /\ Dir' = Dir
         /\ cache'[Dir.live] = WholeOf(cache[Dir.live]) /\ Dir.live \in Files /\ Files' = Files
         /\ \A f \in Files : f # Dir.live => cache'[f] = cache[f]
         /\ \A f \in Files : disk'[f] = cache'[f]
<1>0. /\ Types /\ DirType /\ FileType /\ NodeType /\ Placed /\ Synced /\ Saved /\ Wired /\ Shape
  BY BaseKeeps
<1>1. /\ cache' = [cache EXCEPT ![Dir.live] = Kept(Dir.live)]
      /\ disk' = [disk EXCEPT ![Dir.live] = Kept(Dir.live)] /\ Serve(Replayed)
      /\ exposed' \in BOOLEAN /\ dirs' = dirs /\ snaps' = snaps /\ anchor' = anchor /\ headed' = headed
      /\ wire' = wire /\ Accepts /\ Dir.live # NoFile
  BY DEF Recover, directory
<1>2. PICK x \in Files : x = Dir.live
  BY <1>0, <1>1, DirShape
<1>3. cache[x] \in Seq(Int) /\ anchor[x] \in Seq(Int) /\ Len(cache[x]) \in Nat
  BY <1>0, FileFacts
<1>4. PICK w : w = WholeOf(cache[x])
  OBVIOUS
<1>5. /\ w \in Seq(Int) /\ Positive(w) /\ Len(w) \in 0..Len(cache[x])
      /\ \A i \in 1..Len(w) : w[i] = cache[x][i]
  BY <1>3, <1>4, WholeFacts, EndFacts
<1>6. Kept(x) = w /\ Chain(x) = anchor[x] \o w
  BY <1>4, ChainIs
<1>7. Journal = Chain(x) /\ Journal \in Seq(Int) /\ Spelled(Journal)
  BY <1>0, <1>1, <1>2, JournalIs, ChainSpelled
<1>8. Replayed = Journal
  <2>1. ASSUME NEW s \in Snapshot PROVE Begins(s.chain, Journal)
    <3>1. s.chain \in Seq(Int) /\ IsPrefix(s.chain, Journal)
      BY <1>0, <1>1, AcceptsGives, SnapshotFacts
    <3>2. QED
      BY <1>7, <3>1, PrefixIsBegins
  <2>2. QED
    BY <1>0, <1>7, <2>1, ReplayedIs
<1>9. cache' = [cache EXCEPT ![x] = w] /\ disk' = [disk EXCEPT ![x] = w]
  BY <1>1, <1>2, <1>6
<1>10. /\ FileType' /\ Files' = Files /\ Grows /\ cache'[x] = w
       /\ \A f \in Files : f # x => cache'[f] = cache[f]
  BY <1>0, <1>1, <1>5, <1>9, PutFile
<1>11. \A f \in Files : disk'[f] = cache'[f]
  <2>1. /\ disk'[x] = w /\ \A f \in Files : f # x => disk'[f] = disk[f]
    <3>1. disk \in Seq(Journals) /\ x \in 1..Len(disk) /\ w \in Journals /\ Len(disk) = Len(cache)
      BY <1>0, <1>5 DEF FileType, Files, Journals
    <3>2. QED
      BY <1>9, <3>1, PutEffect DEF Files
  <2>2. \A f \in Files : f # x => disk[f] = cache[f]
    BY <1>0, <1>2, OthersSynced
  <2>3. QED
    BY <1>10, <2>1, <2>2
<1>12. Placed'
  <2>1. ASSUME NEW f \in Files PROVE Places(f)' /\ Spelled(anchor[f])'
    <3>1. Places(f) /\ Spelled(anchor[f])
      BY <1>0 DEF Placed
    <3>2. CASE f = x
      <4>1. \A i \in 1..Len(w) : i \in 1..Len(cache[x])
        BY <1>3, <1>5
      <4>2. QED
        BY <1>1, <1>5, <1>10, <3>1, <3>2, <4>1 DEF Places, Spelled
    <3>3. CASE f # x
      BY <1>1, <1>10, <3>1, <3>3 DEF Places, Spelled
    <3>4. QED
      BY <3>2, <3>3
  <2>2. QED
    BY <1>10, <2>1 DEF Placed
<1>13. PICK state \in Seq(Int) : state = Replayed
  BY <1>7, <1>8
<1>14. Spelled(state) /\ Serve(state) /\ app' = state
  <2>1. Spelled(state) /\ Serve(state)
    BY <1>1, <1>7, <1>8, <1>13
  <2>2. QED
    BY <2>1 DEF Serve
<1>15. Dir' = Dir
  BY <1>1 DEF Dir
<1>16. Standing(x)'
  <2>1. headed[x]
    BY <1>0, <1>1, <1>2, AcceptsGives
  <2>2. anchor[x] \o w = state
    BY <1>6, <1>7, <1>8, <1>13
  <2>3. QED
    BY <1>1, <1>5, <1>10, <1>14, <2>1, <2>2 DEF Standing, Spells
<1>17. Standing(Dir.live)'
  BY <1>2, <1>15, <1>16 DEF Standing, Spells
<1>18. Base'
  BY <1>1, <1>10, <1>11, <1>12, <1>14, <1>17, ServeBase
<1>19. QED
  BY <1>2, <1>4, <1>7, <1>8, <1>10, <1>11, <1>15, <1>18

\* A drain writes its cells after the last whole entry, and nothing is left
\* behind them.
LEMMA WrittenIs ==
  ASSUME Base, Standing(Dir.live), NEW ids \in Seq(Int)
  PROVE  Written(ids) = cache[Dir.live] \o ids
<1>0. FileType /\ app \in Seq(Int)
  BY BaseKeeps
<1>1. PICK x \in Files : x = Dir.live
  BY DEF Standing
<1>2. PICK a \in Seq(Int), c \in Seq(Int) : a = anchor[x] /\ c = cache[x]
  BY <1>0, FileFacts
<1>3. app = a \o c
  BY <1>1, <1>2 DEF Standing, Spells
<1>4. Len(app) = Len(a) + Len(c) /\ Len(a) \in Nat /\ Len(c) \in Nat /\ Len(ids) \in Nat
  BY <1>3, ConcatFacts
<1>5. PICK n \in Nat : n = Len(c)
  BY <1>4
<1>6. WritePos = n
  BY <1>1, <1>2, <1>4, <1>5 DEF WritePos
<1>7. Written(ids) = SubSeq(c, 1, n) \o ids \o SubSeq(c, n + Len(ids) + 1, n)
  BY <1>1, <1>2, <1>5, <1>6 DEF Written
<1>8. SubSeq(c, 1, n) = c
  BY <1>5, SubSeqFull
<1>9. SubSeq(c, n + Len(ids) + 1, n) = <<>>
  BY <1>4, <1>5, SubSeqEmpty
<1>10. c \o ids \in Seq(Int)
  BY ConcatFacts
<1>11. (c \o ids) \o <<>> = c \o ids
  BY <1>10, ConcatEmptySeq
<1>12. QED
  BY <1>1, <1>2, <1>7, <1>8, <1>9, <1>11

LEMMA DrainBase ==
  ASSUME Base, Drain
  PROVE  /\ Base' /\ Dir' = Dir /\ Dir.live \in Files /\ Files' = Files
         /\ \A f \in Files : f # Dir.live => cache'[f] = cache[f]
         /\ Begins(cache[Dir.live], cache'[Dir.live]) /\ Begins(app, app') /\ Begins(wire, wire')
         /\ \A i \in 1..Len(cache'[Dir.live]) : i \in 1..Len(cache[Dir.live]) \/ cache'[Dir.live][i] > Len(wire)
         /\ \A i \in 1..Len(app') : i \in 1..Len(app) \/ app'[i] > Len(wire)
<1>0. /\ Types /\ DirType /\ FileType /\ NodeType /\ SaveType /\ Placed /\ Synced /\ Saved /\ Wired /\ Shape
      /\ Running /\ Dir \in Named /\ Distinct(Dir) /\ Rooted(Dir) /\ app \in Seq(Int) /\ acked \in Seq(Int)
      /\ wire \in Journals /\ Len(wire) \in Nat /\ Len(app) \in Nat /\ Len(app) <= Len(wire)
  BY BaseKeeps DEF NodeType
<1>1. /\ phase = "run" /\ phase' = "drain" /\ dirs' \in {<<Dir>>, dirs} /\ exposed' \in BOOLEAN
      /\ snaps' = snaps /\ anchor' = anchor /\ headed' = headed /\ disk' = disk /\ acked' = acked
      /\ excused' = excused /\ shadow' = shadow /\ saving' = saving /\ taken' = taken
  BY <1>0 DEF Drain, MayDrain, PollRetry, follower, save, NodeType
<1>2. Standing(Dir.live) /\ acked = app
  BY <1>0, <1>1 DEF Running
<1>3. PICK x \in Files : x = Dir.live
  BY <1>2 DEF Standing
<1>4. PICK n \in 1..MaxUnsynced :
        /\ cache' = [cache EXCEPT ![Dir.live] = Written([i \in 1..n |-> Len(wire) + i])]
        /\ wire' = wire \o [i \in 1..n |-> Len(app) + i]
        /\ app' = app \o [i \in 1..n |-> Len(wire) + i]
  BY DEF Drain
<1>5. n \in Nat /\ MaxUnsynced \in Nat /\ n >= 1 /\ n <= MaxUnsynced
  BY RecoveryBounds
<1>6. PICK ids \in Seq(Int) : /\ ids = [i \in 1..n |-> Len(wire) + i]
                              /\ Len(ids) = n /\ \A i \in 1..n : ids[i] = Len(wire) + i
  <2>1. PICK b \in Int : b = Len(wire)
    BY <1>0
  <2>2. PICK t : t = [i \in 1..n |-> b + i]
    OBVIOUS
  <2>3. t \in Seq(Int) /\ Len(t) = n /\ \A i \in 1..n : t[i] = b + i
    BY <1>5, <2>2, Numbers
  <2>4. QED
    BY <2>1, <2>2, <2>3, Zenon
<1>7. PICK a \in Seq(Int), c \in Seq(Int) : a = anchor[x] /\ c = cache[x]
  BY <1>0, FileFacts
<1>8. PICK d : d = c \o ids
  OBVIOUS
<1>9. /\ d \in Seq(Int) /\ Len(d) = Len(c) + n /\ Len(c) \in Nat /\ Len(a) \in Nat
      /\ \A i \in 1..Len(c) : d[i] = c[i]
      /\ \A i \in 1..(Len(c) + n) : i \in 1..Len(c) \/ (i - Len(c) \in 1..n /\ d[i] = ids[i - Len(c)])
  BY <1>6, <1>8, ConcatFacts
<1>10. cache' = [cache EXCEPT ![x] = d]
  BY <1>2, <1>3, <1>4, <1>6, <1>7, <1>8, WrittenIs
<1>11. /\ FileType' /\ Files' = Files /\ Grows /\ cache'[x] = d
       /\ \A f \in Files : f # x => cache'[f] = cache[f]
  BY <1>0, <1>1, <1>9, <1>10, PutFile
<1>12. /\ wire' \in Journals /\ Len(wire') = Len(wire) + n /\ Begins(wire, wire')
       /\ \A i \in 1..n : wire'[Len(wire) + i] = Len(app) + i
       /\ \A e \in 1..Len(wire') : wire'[e] \in 1..e
  <2>1. Writes(Len(app), n)
    BY <1>4 DEF Writes
  <2>2. QED
    BY <1>0, <1>5, <2>1, WritesEffect DEF Wired
<1>13. /\ app = a \o c /\ Len(app) = Len(a) + Len(c) /\ Positive(c) /\ headed[x]
  <2>1. app = a \o c /\ Positive(c) /\ headed[x]
    BY <1>2, <1>3, <1>7 DEF Standing, Spells
  <2>2. QED
    BY <2>1, ConcatFacts
<1>14. /\ app' = app \o ids /\ app' \in Seq(Int) /\ Len(app') = Len(app) + n
       /\ \A i \in 1..Len(app) : app'[i] = app[i]
       /\ \A i \in 1..(Len(app) + n) : i \in 1..Len(app) \/ (i - Len(app) \in 1..n /\ app'[i] = ids[i - Len(app)])
  <2>1. app' = app \o ids
    BY <1>4, <1>6
  <2>2. QED
    BY <1>0, <1>6, <2>1, ConcatFacts
<1>15. \A i \in 1..n : ids[i] > Len(wire) /\ ids[i] \in 1..Len(wire')
  BY <1>0, <1>5, <1>6, <1>12
<1>16. PICK L \in Named : L = Dir
  BY <1>0
<1>17. Turns(L)
  BY <1>1, <1>16 DEF Turns
<1>18. DirType' /\ Dir' = L
  BY <1>0, <1>17, TurnsEffect
<1>19. Types' /\ Saved'
  <2>1. NodeType'
    BY <1>0, <1>1, <1>12, <1>14 DEF NodeType, Journals, Phases
  <2>2. SaveType' /\ Saved'
    BY <1>0, <1>1 DEF SaveType, Saved
  <2>3. QED
    BY <1>11, <1>18, <2>1, <2>2 DEF Types
<1>20. Shape'
  <2>1. Distinct(L)' /\ Rooted(L)'
    BY <1>0, <1>11, <1>16, ShapeLayout
  <2>2. QED
    BY <1>0, <1>11, <1>17, <2>1, ShapeStep
<1>21. \A s \in Seq(Int) : Spelled(s) => Spelled(s)'
  BY <1>0, <1>12, SpelledGrows
<1>22. Placed'
  <2>1. ASSUME NEW f \in Files PROVE Places(f)' /\ Spelled(anchor[f])'
    <3>1. Places(f) /\ Spelled(anchor[f]) /\ anchor[f] \in Seq(Int)
      BY <1>0, FileFacts DEF Placed
    <3>2. PICK b \in Seq(Int) : b = anchor[f]
      BY <3>1
    <3>3. Spelled(b)' /\ anchor'[f] = b
      BY <1>1, <1>21, <3>1, <3>2
    <3>4. Spelled(anchor[f])'
      BY <3>3 DEF Spelled
    <3>5. CASE f # x
      <4>1. cache'[f] = cache[f] /\ anchor'[f] = anchor[f]
        BY <1>1, <1>11, <3>5
      <4>2. QED
        BY <1>0, <1>12, <3>1, <3>4, <4>1, PlacesGrows
    <3>6. CASE f = x
      <4>1. ASSUME NEW i \in 1..Len(d)
            PROVE  d[i] \in (-1)..Len(wire') /\ (d[i] > 0 => wire'[d[i]] = Len(a) + i)
        <5>1. CASE i \in 1..Len(c)
          <6>1. d[i] = c[i] /\ c[i] \in (-1)..Len(wire) /\ (c[i] > 0 => wire[c[i]] = Len(a) + i)
            BY <1>7, <1>9, <3>1, <3>6, <5>1 DEF Places
          <6>2. PICK e : e = c[i]
            OBVIOUS
          <6>3. e \in (-1)..Len(wire) /\ (e > 0 => wire[e] = Len(a) + i)
            BY <6>1, <6>2
          <6>4. e > 0 => e \in 1..Len(wire)
            BY <1>0, <6>3
          <6>5. e \in (-1)..Len(wire')
            BY <1>0, <1>5, <1>12, <6>3
          <6>6. QED
            BY <1>12, <6>1, <6>2, <6>3, <6>4, <6>5 DEF Begins
        <5>2. CASE i \notin 1..Len(c)
          <6>1. PICK k \in 1..n : k = i - Len(c) /\ d[i] = ids[k]
            BY <1>9, <5>2
          <6>2. d[i] = Len(wire) + k /\ wire'[d[i]] = Len(app) + k
            BY <1>6, <1>12, <6>1
          <6>3. Len(app) + k = Len(a) + i
            BY <1>9, <1>13, <6>1
          <6>4. d[i] \in (-1)..Len(wire')
            BY <1>0, <1>5, <1>12, <6>2
          <6>5. QED
            BY <6>2, <6>3, <6>4
        <5>3. QED
          BY <5>1, <5>2
      <4>2. Places(f)'
        BY <1>1, <1>7, <1>11, <3>6, <4>1 DEF Places
      <4>3. QED
        BY <3>4, <4>2
    <3>7. QED
      BY <3>5, <3>6
  <2>2. QED
    BY <1>11, <2>1 DEF Placed
<1>23. Wired'
  <2>1. Spelled(app)'
    <3>1. \A i \in 1..(Len(app) + n) : app'[i] \in 1..Len(wire')
      <4>1. \A i \in 1..Len(app) : app[i] \in 1..Len(wire)
        BY <1>0 DEF Wired, Spelled
      <4>2. \A e \in 1..Len(wire) : e \in 1..Len(wire')
        BY <1>0, <1>5, <1>12
      <4>3. QED
        BY <1>14, <1>15, <4>1, <4>2
    <3>2. Len(app') <= Len(wire')
      BY <1>0, <1>5, <1>12, <1>14
    <3>3. QED
      BY <1>14, <3>1, <3>2 DEF Spelled
  <2>2. Spelled(acked)'
    <3>1. PICK b \in Seq(Int) : b = acked
      BY <1>0
    <3>2. Spelled(b)' /\ acked' = b
      BY <1>0, <1>1, <1>21, <3>1 DEF Wired
    <3>3. QED
      BY <3>2 DEF Spelled
  <2>3. shadow' <= Len(wire')
    <3>1. shadow \in Nat /\ shadow <= Len(wire)
      BY <1>0 DEF SaveType, Wired
    <3>2. QED
      BY <1>0, <1>1, <1>5, <1>12, <3>1
  <2>4. QED
    BY <1>12, <2>1, <2>2, <2>3 DEF Wired
<1>24. \A f \in Files : disk[f] = cache[f]
  BY <1>0, <1>1, AllSynced
<1>25. Positive(d)
  <2>1. \A i \in 1..(Len(c) + n) : d[i] > 0
    <3>1. \A i \in 1..n : ids[i] > 0
      BY <1>0, <1>6
    <3>2. QED
      BY <1>9, <1>13, <3>1 DEF Positive
  <2>2. QED
    BY <1>9, <2>1 DEF Positive
<1>26. Synced'
  <2>1. ASSUME NEW f \in Files PROVE Settled(f)'
    <3>1. CASE f # x
      <4>1. disk'[f] = cache'[f] /\ cache'[f] \in Journals
        BY <1>0, <1>1, <1>11, <1>24, <3>1, FileFacts DEF Journals
      <4>2. QED
        BY <4>1, SettledSame
    <3>2. CASE f = x
      <4>1. disk'[f] = c /\ cache'[f] = d /\ anchor'[f] = a
        BY <1>1, <1>7, <1>11, <1>24, <3>2
      <4>2. Begins(c, d) /\ Len(d) <= Len(c) + MaxUnsynced
        BY <1>5, <1>9 DEF Begins
      <4>3. acked' = a \o c
        BY <1>1, <1>2, <1>13
      <4>4. f = Dir'.live
        BY <1>3, <1>16, <1>18, <3>2
      <4>5. QED
        BY <1>1, <1>25, <4>1, <4>2, <4>3, <4>4 DEF Settled
    <3>3. QED
      BY <3>1, <3>2
  <2>2. QED
    BY <1>11, <2>1 DEF Synced
<1>27. Standing(Dir.live)'
  <2>0. (a \o c) \o ids = a \o (c \o ids)
    BY Reassociated
  <2>1. a \o d = app'
    BY <1>8, <1>13, <1>14, <2>0, Zenon
  <2>2. Standing(x)'
    BY <1>1, <1>7, <1>11, <1>13, <1>25, <2>1 DEF Standing, Spells
  <2>3. x = Dir'.live
    BY <1>3, <1>16, <1>18
  <2>4. QED
    BY <2>2, <2>3 DEF Standing, Spells
<1>28. Begins(app, app') /\ Begins(acked', app')
  BY <1>0, <1>1, <1>2, <1>5, <1>14 DEF Begins
<1>29. Running' /\ Synthesizing'
  BY <1>1, <1>27, <1>28 DEF Running, Synthesizing, Up
<1>30. Base'
  BY <1>19, <1>20, <1>22, <1>23, <1>26, <1>29 DEF Base
<1>31. Begins(c, d)
  BY <1>5, <1>9 DEF Begins
<1>32. (\A i \in 1..Len(d) : i \in 1..Len(c) \/ d[i] > Len(wire))
       /\ \A i \in 1..Len(app') : i \in 1..Len(app) \/ app'[i] > Len(wire)
  BY <1>9, <1>14, <1>15
<1>33. QED
  BY <1>3, <1>7, <1>11, <1>12, <1>16, <1>18, <1>28, <1>30, <1>31, <1>32

LEMMA SyncBase ==
  ASSUME Base, Sync
  PROVE  /\ Base' /\ Begins(acked, acked') /\ acked' = app /\ \A f \in Files : disk'[f] = cache'[f]
<1>0. /\ Types /\ DirType /\ FileType /\ NodeType /\ SaveType /\ Placed /\ Synced /\ Saved /\ Wired /\ Shape
      /\ Running
  BY BaseKeeps
<1>1. /\ phase = "drain" /\ phase' = "run" /\ dirs' = dirs /\ snaps' = snaps /\ anchor' = anchor
      /\ headed' = headed /\ cache' = cache /\ wire' = wire /\ app' = app /\ exposed' = exposed
      /\ excused' = excused /\ shadow' = shadow /\ saving' = saving /\ taken' = taken
      /\ disk' = [disk EXCEPT ![Dir.live] = cache[Dir.live]] /\ acked' = app
  BY DEF Sync, directory, follower, save, history
<1>2. Standing(Dir.live) /\ Begins(acked, app)
  BY <1>0, <1>1 DEF Running, Up
<1>3. PICK x \in Files : x = Dir.live
  BY <1>2 DEF Standing
<1>4. PICK c \in Journals : c = cache[x]
  BY <1>0, FileFacts DEF Journals
<1>5. /\ disk' \in Seq(Journals) /\ Len(disk') = Len(disk) /\ disk'[x] = c
      /\ \A g \in 1..Len(disk) : g # x => disk'[g] = disk[g]
  <2>1. disk \in Seq(Journals) /\ x \in 1..Len(disk) /\ disk' = [disk EXCEPT ![x] = c]
    BY <1>0, <1>1, <1>3, <1>4 DEF FileType, Files
  <2>2. QED
    BY <2>1, PutEffect
<1>6. Types' /\ Files' = Files
  BY <1>0, <1>1, <1>5 DEF Types, DirType, FileType, NodeType, SaveType, Files, Phases
<1>7. Shape' /\ Placed' /\ Saved'
  BY <1>0, <1>1, <1>6 DEF Shape, Placed, Saved, Distinct, Rooted, Places, Spelled
<1>8. Wired'
  BY <1>0, <1>1 DEF Wired, Spelled
<1>9. \A f \in Files : disk'[f] = cache'[f]
  <2>1. \A f \in Files : f # x => disk[f] = cache[f]
    BY <1>0, <1>3, OthersSynced
  <2>2. QED
    BY <1>0, <1>1, <1>4, <1>5, <2>1 DEF FileType, Files
<1>10. Synced'
  <2>1. ASSUME NEW f \in Files PROVE Settled(f)'
    <3>1. cache'[f] \in Journals
      BY <1>0, <1>1, FileFacts DEF Journals
    <3>2. QED
      BY <1>9, <3>1, SettledSame
  <2>2. QED
    BY <1>6, <2>1 DEF Synced
<1>11. Running' /\ Synthesizing'
  <2>1. Standing(Dir.live)'
    BY <1>1, <1>2 DEF Standing, Spells, Files, Dir
  <2>2. Begins(app, app)
    BY <1>0, BeginsConcat DEF NodeType, Journals
  <2>3. QED
    BY <1>1, <2>1, <2>2 DEF Running, Synthesizing, Up
<1>12. QED
  BY <1>1, <1>2, <1>6, <1>7, <1>8, <1>9, <1>10, <1>11 DEF Base

\* What a power loss leaves of a segment: as many cells, the synced ones as
\* they were, and the others whole, torn or zeros.
Left(c, d, g) ==
  /\ g \in Seq(Int) /\ Len(g) = Len(c)
  /\ \A i \in 1..Len(d) : g[i] = c[i]
  /\ \A i \in 1..Len(c) : g[i] \in {0, -1, c[i]}

LEMMA RemainsFacts ==
  ASSUME FileType, Synced, NEW f \in Files, NEW g \in Remains(f)
  PROVE  Left(cache[f], disk[f], g)
<1>1. PICK c \in Seq(Int), d \in Seq(Int) : c = cache[f] /\ d = disk[f]
  BY FileFacts
<1>2. PICK n \in Nat, m \in Nat : n = Len(c) /\ m = Len(d)
  OBVIOUS
<1>3. m <= n /\ \A i \in 1..m : d[i] = c[i]
  BY <1>1, <1>2 DEF Synced, Settled, Begins
<1>4. PICK u : u = SubSeq(c, m + 1, n)
  OBVIOUS
<1>0. PICK q \in Nat : q = n - m /\ m + q = n /\ n - (m + 1) + 1 = q /\ \A i \in 1..q : m + 1 + i - 1 = m + i
  BY <1>2, <1>3
<1>5. Len(u) = q /\ u \in Seq(Int) /\ \A i \in 1..q : u[i] = c[m + i]
  <2>1. \A i \in (m + 1)..n : c[i] \in Int
    BY <1>2
  <2>2. /\ u \in Seq(Int) /\ Len(u) = (IF m + 1 <= n THEN n - (m + 1) + 1 ELSE 0)
        /\ \A i \in 1..(n - (m + 1) + 1) : u[i] = c[m + 1 + i - 1]
    BY <1>4, <2>1, SubSeqProperties
  <2>3. u \in Seq(Int) /\ \A i \in 1..q : u[i] = c[m + i]
    BY <1>0, <2>2
  <2>4. m + 1 <= n \/ q = 0
    BY <1>0
  <2>5. ~(m + 1 <= n) => q = 0
    BY <2>4
  <2>6. QED
    BY <1>0, <2>2, <2>3, <2>5
<1>6. PICK h : /\ h \in [1..q -> {0, -1} \cup Range(u)]
               /\ \A i \in 1..q : h[i] \in {0, -1, u[i]}
               /\ g = d \o h
  BY <1>1, <1>2, <1>4, <1>5 DEF Remains, Zeros, Torn
<1>7. h \in Seq(Int) /\ Len(h) = q
  <2>1. \A i \in 1..q : u[i] \in Int
    BY <1>5
  <2>2. ASSUME NEW i \in 1..q PROVE h[i] \in Int
    <3>1. h[i] = 0 \/ h[i] = -1 \/ h[i] = u[i]
      BY <1>6
    <3>2. QED
      BY <2>1, <3>1
  <2>3. h \in [1..q -> Int]
    BY <1>6, <2>2
  <2>4. QED
    BY <2>3
<1>8. /\ g \in Seq(Int) /\ Len(g) = n /\ \A i \in 1..m : g[i] = d[i]
      /\ \A i \in 1..n : i \in 1..m \/ (i - m \in 1..q /\ g[i] = h[i - m])
  <2>1. /\ g \in Seq(Int) /\ Len(g) = m + q /\ \A i \in 1..m : g[i] = d[i]
        /\ \A i \in 1..(m + q) : i \in 1..m \/ (i - m \in 1..q /\ g[i] = h[i - m])
    BY <1>2, <1>6, <1>7, ConcatFacts
  <2>2. QED
    BY <1>0, <2>1
<1>9. ASSUME NEW i \in 1..n PROVE g[i] \in {0, -1, c[i]}
  <2>1. CASE i \in 1..m
    BY <1>3, <1>8, <2>1
  <2>2. CASE i \notin 1..m
    <3>1. PICK k \in 1..q : k = i - m /\ g[i] = h[k]
      BY <1>8, <2>2
    <3>2. u[k] = c[i]
      <4>1. m + k = i
        BY <1>2, <3>1
      <4>2. QED
        BY <1>5, <4>1
    <3>3. QED
      BY <1>6, <3>1, <3>2
  <2>3. QED
    BY <2>1, <2>2
<1>10. QED
  BY <1>1, <1>2, <1>3, <1>8, <1>9 DEF Left

LEMMA PowerLossEffect ==
  ASSUME Base, PowerLoss
  PROVE  /\ FileType' /\ Files' = Files /\ disk' = cache'
         /\ \A f \in Files : Left(cache[f], disk[f], cache'[f]) /\ (f # Dir.live => cache'[f] = cache[f])
<1>0. DirType /\ FileType /\ Synced /\ Shape
  BY BaseKeeps
<1>1. /\ anchor' = anchor /\ headed' = headed /\ cache' \in Survivors /\ disk' = cache'
  BY DEF PowerLoss
<1>2. ASSUME NEW f \in Files PROVE Left(cache[f], disk[f], cache[f])
  <2>1. PICK c, d : c = cache[f] /\ d = disk[f] /\ c \in Seq(Int)
    BY <1>0, FileFacts
  <2>2. Left(c, d, c)
    BY <2>1 DEF Left
  <2>3. QED
    BY <2>1, <2>2
<1>3. CASE Dir.live = NoFile
  <2>1. cache' = cache
    BY <1>1, <1>3 DEF Survivors
  <2>2. FileType' /\ Files' = Files
    BY <1>0, <1>1, <2>1 DEF FileType, Files
  <2>3. QED
    BY <1>1, <1>2, <2>1, <2>2
<1>4. CASE Dir.live # NoFile
  <2>1. PICK x \in Files : x = Dir.live
    BY <1>0, <1>4, DirShape
  <2>2. PICK g \in Remains(x) : cache' = [cache EXCEPT ![x] = g]
    BY <1>1, <1>4, <2>1 DEF Survivors
  <2>3. Left(cache[x], disk[x], g) /\ g \in Seq(Int)
    <3>1. Left(cache[x], disk[x], g)
      BY <1>0, RemainsFacts
    <3>2. QED
      BY <3>1 DEF Left
  <2>4. /\ FileType' /\ Files' = Files /\ cache'[x] = g
        /\ \A f \in Files : f # x => cache'[f] = cache[f]
    BY <1>0, <1>1, <2>2, <2>3, PutFile
  <2>5. ASSUME NEW f \in Files PROVE Left(cache[f], disk[f], cache'[f])
    BY <1>2, <2>3, <2>4
  <2>6. QED
    BY <1>1, <2>1, <2>4, <2>5
<1>5. QED
  BY <1>3, <1>4

LEMMA PowerLossBase ==
  ASSUME Base, PowerLoss
  PROVE  Base'
<1>0. /\ Types /\ DirType /\ FileType /\ NodeType /\ SaveType /\ Placed /\ Synced /\ Saved /\ Wired /\ Shape
      /\ Len(wire) \in Nat
  BY BaseKeeps
<1>1. /\ phase' = "down" /\ app' = <<>> /\ Forget /\ anchor' = anchor /\ headed' = headed /\ wire' = wire
      /\ acked' = acked /\ exposed' = FALSE
  BY DEF PowerLoss, Forget
<1>2. PICK k \in 1..Len(dirs) : dirs' = <<dirs[k]>> /\ excused' = (excused \/ (exposed /\ k < Len(dirs)))
  BY DEF PowerLoss
<1>3. /\ FileType' /\ Files' = Files /\ disk' = cache'
      /\ \A f \in Files : Left(cache[f], disk[f], cache'[f])
  BY PowerLossEffect
<1>4. PICK L \in Named : L = dirs[k] /\ Distinct(L) /\ Rooted(L)
  BY <1>0, DirFacts DEF Shape
<1>5. Turns(L)
  BY <1>2, <1>4 DEF Turns
<1>6. Grows
  <2>1. Len(cache') = Len(cache) /\ Len(cache) \in Nat
    <3>1. PICK m \in Nat, n \in Nat : m = Len(cache) /\ n = Len(cache')
      BY <1>0, <1>3 DEF FileType
    <3>2. 1..m = 1..n
      BY <1>3, <3>1 DEF Files
    <3>3. m = n
      <4>1. ~(m < n)
        <5>1. ASSUME m < n PROVE n \in 1..n /\ n \notin 1..m
          BY <5>1
        <5>2. QED
          BY <3>2, <5>1
      <4>2. ~(n < m)
        <5>1. ASSUME n < m PROVE m \in 1..m /\ m \notin 1..n
          BY <5>1
        <5>2. QED
          BY <3>2, <5>1
      <4>3. QED
        BY <4>1, <4>2
    <3>4. QED
      BY <3>1, <3>3
  <2>2. QED
    BY <1>1, <1>3, <2>1 DEF Grows
<1>7. DirType' /\ Dir' = L
  BY <1>0, <1>5, TurnsEffect
<1>8. Shape'
  <2>1. Distinct(L)' /\ Rooted(L)'
    BY <1>0, <1>4, <1>6, ShapeLayout
  <2>2. QED
    BY <1>0, <1>5, <1>6, <2>1, ShapeStep
<1>9. SaveType' /\ Saved' /\ shadow' = 0
  <2>1. \E j \in 1..Len(snaps) : snaps' = <<snaps[j]>>
    BY DEF PowerLoss
  <2>2. QED
    BY <1>0, <1>1, <2>1, ForgetSaves
<1>10. NodeType'
  <2>1. app' \in Journals /\ wire' \in Journals /\ acked' \in Journals
    BY <1>0, <1>1, NoEntries DEF NodeType, Journals
  <2>2. phase' \in Phases
    BY <1>1 DEF Phases
  <2>3. exposed' \in BOOLEAN /\ excused' \in BOOLEAN
    BY <1>1, <1>2
  <2>4. QED
    BY <2>1, <2>2, <2>3 DEF NodeType
<1>11. Types'
  BY <1>3, <1>7, <1>9, <1>10 DEF Types
<1>12. Placed'
  <2>1. ASSUME NEW f \in Files PROVE Places(f)' /\ Spelled(anchor[f])'
    <3>1. Places(f) /\ Spelled(anchor[f])
      BY <1>0 DEF Placed
    <3>2. PICK c, g : c = cache[f] /\ g = cache'[f]
      OBVIOUS
    <3>3. Len(g) = Len(c) /\ \A i \in 1..Len(c) : g[i] \in {0, -1, c[i]}
      BY <1>3, <3>2 DEF Left
    <3>4. ASSUME NEW i \in 1..Len(g) PROVE g[i] \in (-1)..Len(wire) /\ (g[i] > 0 => wire[g[i]] = Len(anchor[f]) + i)
      <4>1. c[i] \in (-1)..Len(wire) /\ (c[i] > 0 => wire[c[i]] = Len(anchor[f]) + i)
        BY <3>1, <3>2, <3>3 DEF Places
      <4>2. g[i] = 0 \/ g[i] = -1 \/ g[i] = c[i]
        BY <3>3
      <4>3. QED
        BY <1>0, <4>1, <4>2
    <3>5. QED
      BY <1>1, <3>1, <3>2, <3>4 DEF Places, Spelled
  <2>2. QED
    BY <1>3, <2>1 DEF Placed
<1>13. Wired'
  <2>1. Spelled(<<>>)
    BY <1>0, NoEntries DEF Spelled
  <2>2. QED
    BY <1>0, <1>1, <1>9, <2>1 DEF Wired, Spelled
<1>14. Synced'
  <2>1. ASSUME NEW f \in Files PROVE Settled(f)'
    <3>1. cache'[f] \in Journals
      BY <1>3 DEF Left, Journals
    <3>2. QED
      BY <1>3, <3>1, SettledSame
  <2>2. QED
    BY <1>3, <2>1 DEF Synced
<1>15. Running' /\ Synthesizing'
  BY <1>1 DEF Running, Synthesizing, Up
<1>16. QED
  BY <1>8, <1>9, <1>11, <1>12, <1>13, <1>14, <1>15 DEF Base

LEMMA StutterBase ==
  ASSUME Base, UNCHANGED vars
  PROVE  Base'
<1>0. SaveType /\ Saved /\ Wired /\ Synthesizing
  BY BaseKeeps
<1>1. /\ FilesStay /\ dirs' = dirs /\ acked' = acked /\ app' = app /\ phase' = phase /\ exposed' = exposed
      /\ excused' = excused /\ snaps' = snaps /\ shadow' = shadow /\ saving' = saving /\ taken' = taken
  BY DEF vars, directory, files, follower, save, history, FilesStay
<1>2. SaveType' /\ Saved' /\ shadow' <= Len(wire)
  BY <1>0, <1>1 DEF SaveType, Saved, Wired
<1>3. Types' /\ Shape' /\ Placed' /\ Wired' /\ Synced' /\ Running'
  BY <1>1, <1>2, IdleBase
<1>4. Synthesizing'
  BY <1>0, <1>1 DEF Synthesizing, FilesStay, Dir, Snapshot, Files
<1>5. QED
  BY <1>2, <1>3, <1>4 DEF Base

LEMMA InstallPreparedBase ==
  ASSUME Base, InstallPrepared
  PROVE  Base' /\ Dir' = Layout(Dir.archives, NewFile) /\ AddFile(app, <<>>, TRUE)
<1>1. /\ phase = "archived" /\ AddFile(app, <<>>, TRUE) /\ dirs' = Append(dirs, Layout(Dir.archives, NewFile))
      /\ phase' = "installed" /\ wire' = wire /\ acked' = acked /\ app' = app /\ exposed' = exposed
      /\ excused' = excused /\ snaps' = snaps /\ shadow' = shadow /\ saving' = saving /\ taken' = taken
  BY DEF InstallPrepared, follower, save, history
<1>2. QED
  BY <1>1, InstallBase

LEMMA InstallFreshBase ==
  ASSUME Base, InstallFresh
  PROVE  Base'
<1>1. CASE phase = "archived"
  <2>1. /\ AddFile(app, <<>>, FALSE) /\ dirs' = Append(dirs, Layout(Dir.archives, NewFile))
        /\ phase' = "created" /\ wire' = wire /\ acked' = acked /\ app' = app /\ exposed' = exposed
        /\ excused' = excused /\ snaps' = snaps /\ shadow' = shadow /\ saving' = saving /\ taken' = taken
    BY <1>1 DEF InstallFresh, follower, save, history
  <2>2. QED
    BY <1>1, <2>1, InstallBase
<1>2. CASE phase # "archived"
  <2>1. /\ phase = "created" /\ headed' = [headed EXCEPT ![Dir.live] = TRUE] /\ phase' = "installed"
        /\ dirs' = dirs /\ snaps' = snaps /\ anchor' = anchor /\ cache' = cache /\ disk' = disk /\ wire' = wire
        /\ app' = app /\ acked' = acked /\ exposed' = exposed /\ excused' = excused
        /\ shadow' = shadow /\ saving' = saving /\ taken' = taken
    BY <1>2 DEF InstallFresh, directory, follower, save, history
  <2>2. QED
    BY <2>1, InstallFreshHeadBase
<1>3. QED
  BY <1>1, <1>2

LEMMA BaseStep == Base /\ [Next]_vars => Base'
<1> SUFFICES ASSUME Base, [Next]_vars PROVE Base'
  OBVIOUS
<1>1. CASE Boot
  BY <1>1, WriteGenesisBase, SyncGenesisBase, RecoverBase, SynthesizeBase, HeadSynthesizedBase, RefuseBase
     DEF Boot
<1>2. CASE Disk
  BY <1>2, DrainBase, SyncBase, ArchiveBase, InstallPreparedBase, InstallFreshBase, FinishBase, RollBackBase
     DEF Disk
<1>3. QED
  BY <1>1, <1>2, ShadowBase, KillBase, PowerLossBase, StutterBase DEF Next

-----------------------------------------------------------------------------
(* The entries a recovery discards.  None is left in a file that the         *)
(* directory may still name, and none is in what the node has applied.       *)

Names(f, L) == f = L.live \/ \E j \in 1..Len(L.archives) : f = L.archives[j]
Holds(s, e) == \E p \in 1..Len(s) : s[p] = e

Discarded == dropped \subseteq 1..Len(wire)
Apart ==
  \A k \in 1..Len(dirs) : \A f \in Files : Names(f, dirs[k]) => Names(f, Dir) \/ cache[f] = <<>>
Clean == \A f \in Files : Names(f, Dir) => \A i \in 1..Len(cache[f]) : cache[f][i] \notin dropped
Applied == Up => \A p \in 1..Len(app) : app[p] \notin dropped
Inherited ==
  phase = "synthesizing" =>
    /\ \A p \in 1..Len(anchor[Dir.live]) : anchor[Dir.live][p] \notin dropped
    /\ \A j \in 1..Len(Dir.archives) : \A i \in 1..Len(cache[Dir.archives[j]]) :
         cache[Dir.archives[j]][i] > 0 => Holds(anchor[Dir.live], cache[Dir.archives[j]][i])
Cut == Discarded /\ Apart /\ Clean /\ Applied /\ Inherited

\* What passes from each of n things to the next reaches them all.
LEMMA Upward ==
  ASSUME NEW n \in Nat, NEW T, n >= 1 => 1 \in T, \A j \in 2..n : j - 1 \in T => j \in T
  PROVE  \A j \in 1..n : j \in T
<1> SUFFICES ASSUME NEW k \in 1..n, k \notin T PROVE FALSE
  OBVIOUS
<1> DEFINE S == {d \in 0..n : n - d \in 1..n /\ n - d \notin T}
<1>1. n - k \in S
  <2>1. n - k \in 0..n /\ n - (n - k) = k
    OBVIOUS
  <2>2. QED
    BY <2>1
<1>2. PICK m \in S : \A d \in S : m >= d
  BY <1>1, BoundedMax
<1>3. PICK j \in 1..n : j = n - m /\ j \notin T
  BY <1>2
<1>4. j # 1
  BY <1>3
<1>5. j \in 2..n /\ j - 1 \in 1..n
  BY <1>4
<1>6. j - 1 \notin T
  BY <1>3, <1>5
<1>7. m + 1 \in S
  <2>1. n - (m + 1) = j - 1 /\ m + 1 \in 0..n
    BY <1>3, <1>5
  <2>2. QED
    BY <1>5, <1>6, <2>1
<1>8. m \in Int /\ m >= m + 1
  BY <1>2, <1>7
<1>9. QED
  BY <1>8

LEMMA Downward ==
  ASSUME NEW n \in Nat, NEW T, n >= 1 => n \in T, \A j \in 2..n : j \in T => j - 1 \in T
  PROVE  \A j \in 1..n : j \in T
<1> SUFFICES ASSUME NEW k \in 1..n, k \notin T PROVE FALSE
  OBVIOUS
<1> DEFINE S == {d \in 0..n : d \in 1..n /\ d \notin T}
<1>1. k \in S
  OBVIOUS
<1>2. PICK m \in S : \A d \in S : m >= d
  BY <1>1, BoundedMax
<1>3. m \in 1..n /\ m \notin T /\ m # n
  BY <1>2
<1>4. m + 1 \in 2..n /\ m + 1 - 1 = m
  BY <1>3
<1>5. m + 1 \notin T
  BY <1>3, <1>4
<1>6. m + 1 \in S
  BY <1>3, <1>4, <1>5
<1>7. m \in Int /\ m >= m + 1
  BY <1>2, <1>6
<1>8. QED
  BY <1>7

\* What an accepted journal spells is in the files the directory names, and
\* the entries of those files are in what it spells.
LEMMA JournalHolds ==
  ASSUME Base, Accepts, Segments # <<>>
  PROVE  /\ Journal \in Seq(Int)
         /\ \A p \in 1..Len(Journal) : \E f \in Files :
              Names(f, Dir) /\ \E i \in 1..Len(cache[f]) : Journal[p] = cache[f][i]
         /\ \A j \in 1..Len(Dir.archives) : \A i \in 1..Len(cache[Dir.archives[j]]) :
              cache[Dir.archives[j]][i] > 0 => Holds(Journal, cache[Dir.archives[j]][i])
         /\ Dir.live # NoFile => \A i \in 1..Len(WholeOf(cache[Dir.live])) :
                                   Holds(Journal, WholeOf(cache[Dir.live])[i])
<1>0. /\ Types /\ DirType /\ FileType /\ Placed /\ Wired /\ Shape
  BY BaseKeeps
<1>1. PICK A, n, x : A = Dir.archives /\ n = Len(Dir.archives) /\ x = Dir.live
  OBVIOUS
<1>2. /\ n \in Nat /\ (\A j \in 1..n : A[j] \in Files) /\ (n >= 1 => anchor[A[1]] = <<>>)
      /\ (n = 0 /\ x # 0 => anchor[x] = <<>>) /\ (x # 0 => x \in Files)
  BY <1>0, <1>1, DirIs, DirShape DEF Files, NoFile
<1>3. /\ \A j \in 1..n : \A i \in 1..Len(cache[A[j]]) : cache[A[j]][i] > 0 => i <= EndOf(cache[A[j]])
      /\ \A j \in 2..n : anchor[A[j]] = Chain(A[j - 1])
      /\ x # 0 /\ n >= 1 => anchor[x] = Chain(A[n])
  BY <1>0, <1>1, AcceptsGives DEF NoFile
<1>4. /\ x # 0 => Journal = Chain(x)
      /\ x = 0 => Journal = Chain(A[n])
      /\ x = 0 => n >= 1
  <2>1. x = 0 => n # 0
    BY <1>0, <1>1, JournalIs DEF NoFile
  <2>2. QED
    BY <1>0, <1>1, <1>2, <2>1, JournalIs DEF NoFile
\* One segment: its chain is its anchor and its whole cells.
<1>5. ASSUME NEW f \in Files
      PROVE  /\ Chain(f) \in Seq(Int) /\ Begins(anchor[f], Chain(f)) /\ anchor[f] \in Seq(Int)
             /\ \A p \in 1..Len(Chain(f)) : \/ p \in 1..Len(anchor[f]) /\ Chain(f)[p] = anchor[f][p]
                                            \/ \E i \in 1..Len(cache[f]) : Chain(f)[p] = cache[f][i]
             /\ \A i \in 1..EndOf(cache[f]) : Holds(Chain(f), cache[f][i])
             /\ Len(WholeOf(cache[f])) = EndOf(cache[f])
             /\ \A i \in 1..EndOf(cache[f]) : WholeOf(cache[f])[i] = cache[f][i]
  <2>1. PICK a \in Seq(Int), c \in Seq(Int) : a = anchor[f] /\ c = cache[f]
    BY <1>0, FileFacts
  <2>2. PICK w : w = WholeOf(c)
    OBVIOUS
  <2>0. PICK e : e = EndOf(c)
    OBVIOUS
  <2>3. /\ w \in Seq(Int) /\ Len(w) = e /\ e \in 0..Len(c) /\ e \in Nat /\ Len(c) \in Nat
        /\ \A i \in 1..e : w[i] = c[i]
    <3>1. /\ w \in Seq(Int) /\ Len(w) = e /\ e \in 0..Len(c) /\ \A i \in 1..e : w[i] = c[i]
      BY <2>0, <2>2, WholeFacts, EndFacts
    <3>2. QED
      BY <3>1
  <2>4. Chain(f) = a \o w
    BY <2>1, <2>2, ChainIs
  <2>5. PICK h : h = a \o w
    OBVIOUS
  <2>6. /\ h \in Seq(Int) /\ Len(h) = Len(a) + e /\ Begins(a, h) /\ Len(a) \in Nat /\ Len(c) \in Nat
        /\ \A i \in 1..Len(a) : h[i] = a[i]
        /\ \A i \in 1..e : h[Len(a) + i] = w[i]
        /\ \A i \in 1..(Len(a) + e) : i \in 1..Len(a) \/ (i - Len(a) \in 1..e /\ h[i] = w[i - Len(a)])
    <3>1. /\ h \in Seq(Int) /\ Len(h) = Len(a) + Len(w) /\ Begins(a, h)
          /\ \A i \in 1..Len(a) : h[i] = a[i]
          /\ \A i \in 1..Len(w) : h[Len(a) + i] = w[i]
          /\ \A i \in 1..(Len(a) + Len(w)) :
               i \in 1..Len(a) \/ (i - Len(a) \in 1..Len(w) /\ h[i] = w[i - Len(a)])
      BY <2>3, <2>5, ConcatFacts, BeginsConcat, Zenon
    <3>2. Len(a) \in Nat /\ Len(c) \in Nat
      OBVIOUS
    <3>3. QED
      BY <2>3, <3>1, <3>2, Zenon
  <2>7. \A i \in 1..e : i \in 1..Len(c) /\ Len(a) + i \in 1..Len(h)
    BY <2>3, <2>6
  <2>8. ASSUME NEW p \in 1..Len(h)
        PROVE  (p \in 1..Len(a) /\ h[p] = a[p]) \/ \E i \in 1..Len(c) : h[p] = c[i]
    <3>1. CASE p \in 1..Len(a)
      BY <2>6, <3>1
    <3>2. CASE p \notin 1..Len(a)
      <4>1. PICK i \in 1..e : h[p] = w[i]
        BY <2>6, <3>2
      <4>2. QED
        BY <2>3, <2>7, <4>1
    <3>3. QED
      BY <3>1, <3>2
  <2>9. ASSUME NEW i \in 1..e PROVE Holds(h, c[i])
    BY <2>3, <2>6, <2>7 DEF Holds
  <2>10. /\ h \in Seq(Int) /\ Begins(a, h) /\ a \in Seq(Int)
         /\ \A p \in 1..Len(h) : \/ p \in 1..Len(a) /\ h[p] = a[p]
                                 \/ \E i \in 1..Len(c) : h[p] = c[i]
         /\ \A i \in 1..EndOf(c) : Holds(h, c[i])
         /\ Len(WholeOf(c)) = EndOf(c)
         /\ \A i \in 1..EndOf(c) : WholeOf(c)[i] = c[i]
    BY <2>0, <2>2, <2>3, <2>6, <2>8, <2>9, Zenon
  <2>11. QED
    BY <2>1, <2>4, <2>5, <2>10
<1>6. \A j \in 1..n : Names(A[j], Dir) /\ A[j] \in Files
  BY <1>1, <1>2 DEF Names
<1>7. Names(x, Dir)
  BY <1>1 DEF Names
<1> DEFINE Kept1(h) == \A p \in 1..Len(h) : \E f \in Files :
                         Names(f, Dir) /\ \E i \in 1..Len(cache[f]) : h[p] = cache[f][i]
<1>8. ASSUME NEW f \in Files, Names(f, Dir), Kept1(anchor[f]) PROVE Kept1(Chain(f))
  <2>1. ASSUME NEW p \in 1..Len(Chain(f))
        PROVE  \E g \in Files : Names(g, Dir) /\ \E i \in 1..Len(cache[g]) : Chain(f)[p] = cache[g][i]
    <3>1. CASE p \in 1..Len(anchor[f]) /\ Chain(f)[p] = anchor[f][p]
      BY <1>8, <3>1
    <3>2. CASE \E i \in 1..Len(cache[f]) : Chain(f)[p] = cache[f][i]
      BY <1>8, <3>2
    <3>3. QED
      BY <1>5, <3>1, <3>2
  <2>2. QED
    BY <2>1
<1>9. Kept1(<<>>)
  BY NoEntries
<1> HIDE DEF Kept1
<1>10. \A j \in 1..n : Kept1(Chain(A[j]))
  <2> DEFINE T == {j \in 1..n : Kept1(Chain(A[j]))}
  <2>1. n >= 1 => 1 \in T
    BY <1>2, <1>6, <1>8, <1>9
  <2>2. ASSUME NEW j \in 2..n, j - 1 \in T PROVE j \in T
    <3>1. j \in 1..n /\ Kept1(anchor[A[j]])
      BY <1>2, <1>3, <2>2
    <3>2. QED
      BY <1>6, <1>8, <3>1
  <2> HIDE DEF T
  <2>3. \A j \in 1..n : j \in T
    BY <1>2, <2>1, <2>2, Upward
  <2>4. QED
    BY <2>3 DEF T
<1>11. Journal \in Seq(Int) /\ Kept1(Journal)
  <2>1. CASE x = 0
    <3>1. n \in 1..n
      BY <1>2, <1>4, <2>1
    <3>2. QED
      BY <1>4, <1>5, <1>6, <1>10, <2>1, <3>1
  <2>2. CASE x # 0
    <3>1. Kept1(anchor[x])
      <4>1. CASE n = 0
        BY <1>2, <1>9, <2>2, <4>1
      <4>2. CASE n # 0
        <5>1. n \in 1..n /\ n >= 1
          BY <1>2, <4>2
        <5>2. QED
          BY <1>3, <1>10, <2>2, <5>1
      <4>3. QED
        BY <4>1, <4>2
    <3>2. QED
      BY <1>2, <1>4, <1>5, <1>7, <1>8, <2>2, <3>1
  <2>3. QED
    BY <2>1, <2>2
<1>12. \A j \in 1..n : Begins(Chain(A[j]), Journal)
  <2> DEFINE T == {j \in 1..n : Begins(Chain(A[j]), Journal)}
  <2>1. n >= 1 => n \in T
    <3>1. ASSUME n >= 1 PROVE Begins(Chain(A[n]), Journal)
      <4>1. n \in 1..n
        BY <1>2, <3>1
      <4>2. CASE x = 0
        <5>1. Journal = Chain(A[n])
          BY <1>4, <4>2
        <5>2. QED
          BY <1>11, <5>1, BeginsConcat
      <4>3. CASE x # 0
        BY <1>2, <1>3, <1>4, <1>5, <3>1, <4>3
      <4>4. QED
        BY <4>2, <4>3
    <3>2. QED
      BY <1>2, <3>1
  <2>2. ASSUME NEW j \in 2..n, j \in T PROVE j - 1 \in T
    <3>1. j \in 1..n /\ j - 1 \in 1..n /\ Begins(Chain(A[j]), Journal)
      BY <1>2, <2>2
    <3>2. PICK h \in Seq(Int), g \in Seq(Int), q \in Seq(Int) :
            h = Chain(A[j - 1]) /\ g = Chain(A[j]) /\ q = Journal
      BY <1>5, <1>6, <1>11, <3>1
    <3>3. Begins(h, g) /\ Begins(g, q)
      BY <1>3, <1>5, <1>6, <2>2, <3>1, <3>2
    <3>4. Begins(h, q)
      BY <3>3, BeginsTransitive
    <3>5. QED
      BY <3>1, <3>2, <3>4
  <2> HIDE DEF T
  <2>3. \A j \in 1..n : j \in T
    BY <1>2, <2>1, <2>2, Downward
  <2>4. QED
    BY <2>3 DEF T
<1>13. ASSUME NEW j \in 1..n, NEW i \in 1..Len(cache[A[j]]), cache[A[j]][i] > 0
       PROVE  Holds(Journal, cache[A[j]][i])
  <2>1. A[j] \in Files /\ i <= EndOf(cache[A[j]]) /\ EndOf(cache[A[j]]) \in Nat
    BY <1>0, <1>2, <1>3, <1>13, FileFacts, EndFacts
  <2>2. i \in 1..EndOf(cache[A[j]])
    BY <2>1
  <2>3. Holds(Chain(A[j]), cache[A[j]][i])
    BY <1>5, <2>1, <2>2
  <2>4. PICK h \in Seq(Int), q \in Seq(Int) : h = Chain(A[j]) /\ q = Journal /\ Begins(h, q)
    BY <1>5, <1>11, <1>12, <2>1
  <2>5. \A p \in 1..Len(h) : p \in 1..Len(q) /\ q[p] = h[p]
    BY <2>4 DEF Begins
  <2>6. QED
    BY <2>3, <2>4, <2>5 DEF Holds
<1>14. ASSUME x # 0, NEW i \in 1..Len(WholeOf(cache[x])) PROVE Holds(Journal, WholeOf(cache[x])[i])
  BY <1>2, <1>4, <1>5, <1>14
<1>15. QED
  BY <1>1, <1>11, <1>13, <1>14 DEF NoFile, Kept1

LEMMA CutKeeps ==
  ASSUME Cut
  PROVE  Discarded /\ Apart /\ Clean /\ Applied /\ Inherited
BY DEF Cut

LEMMA CutInit == Init => Cut
<1> SUFFICES ASSUME Init PROVE Cut
  OBVIOUS
<1>1. dropped = {} /\ cache = <<>> /\ phase = "down"
  BY DEF Init
<1>2. Files = {}
  BY <1>1 DEF Files
<1>3. QED
  BY <1>1, <1>2 DEF Cut, Discarded, Apart, Clean, Applied, Inherited, Up

\* Renames: what the directory names stays, but for files with nothing in them.
LEMMA RenameCut ==
  ASSUME Base, Cut, anchor' = anchor, cache' = cache, wire' = wire, dropped' = dropped,
         NEW L \in Named, Turns(L), \A f \in Files : Names(f, L) => Names(f, Dir),
         \A f \in Files : Names(f, Dir) => Names(f, L) \/ cache[f] = <<>>,
         Up' => Up /\ app' = app, phase' = "synthesizing" => phase = "synthesizing" /\ L = Dir
  PROVE  Cut'
<1>0. Discarded /\ Apart /\ Clean /\ Applied /\ Inherited /\ DirType
  BY CutKeeps, BaseKeeps
<1>1. /\ Dir' = L /\ Files' = Files
      /\ \A k \in 1..Len(dirs') : dirs'[k] = L \/ \E j \in 1..Len(dirs) : dirs'[k] = dirs[j]
  BY <1>0, TurnsEffect DEF Files
<1>2. Discarded'
  BY <1>0 DEF Discarded
<1>3. ASSUME NEW k \in 1..Len(dirs'), NEW f \in Files, Names(f, dirs'[k])
      PROVE  Names(f, L) \/ cache[f] = <<>>
  <2>1. CASE dirs'[k] = L
    BY <1>3, <2>1
  <2>2. CASE dirs'[k] # L
    <3>1. PICK j \in 1..Len(dirs) : dirs'[k] = dirs[j]
      BY <1>1, <2>2
    <3>2. Names(f, Dir) \/ cache[f] = <<>>
      BY <1>0, <1>3, <3>1 DEF Apart
    <3>3. QED
      BY <3>2
  <2>3. QED
    BY <2>1, <2>2
<1>4. Apart'
  BY <1>1, <1>3 DEF Apart, Names
<1>5. Clean'
  <2>1. \A f \in Files : Names(f, L) => \A i \in 1..Len(cache[f]) : cache[f][i] \notin dropped
    BY <1>0 DEF Clean
  <2>2. QED
    BY <1>1, <2>1 DEF Clean, Names
<1>6. Applied'
  BY <1>0 DEF Applied
<1>7. Inherited'
  BY <1>0, <1>1 DEF Inherited, Holds
<1>8. QED
  BY <1>2, <1>4, <1>5, <1>6, <1>7 DEF Cut

LEMMA QuietCut ==
  ASSUME Base, Cut, anchor' = anchor, cache' = cache, wire' = wire, dropped' = dropped,
         dirs' \in {dirs, <<Dir>>}, Up' => Up /\ app' = app, phase' = "synthesizing" => phase = "synthesizing"
  PROVE  Cut'
<1>1. PICK L \in Named : L = Dir
  BY BaseKeeps
<1>2. Turns(L) /\ \A f \in Files : Names(f, L) <=> Names(f, Dir)
  BY <1>1 DEF Turns
<1>3. QED
  BY <1>1, <1>2, RenameCut

LEMMA ArchiveCut ==
  ASSUME Base, Cut, ArchiveLive
  PROVE  Cut'
<1>1. /\ anchor' = anchor /\ cache' = cache /\ wire' = wire /\ dropped' = dropped /\ app' = app /\ phase = "run"
      /\ dirs' = Append(dirs, Layout(Append(Dir.archives, Dir.live), NoFile)) /\ phase' = "archived"
  BY DEF ArchiveLive, Drained, files, history
<1>2. Dir.live \in Files
  BY <1>1, BaseKeeps DEF Running, Standing
<1>3. PICK L \in Named : /\ L = Layout(Append(Dir.archives, Dir.live), NoFile) /\ L.live = NoFile
                         /\ LastArchive(L) = Dir.live /\ Len(L.archives) = Len(Dir.archives) + 1
                         /\ \A i \in 1..Len(Dir.archives) : L.archives[i] = Dir.archives[i]
  BY <1>2, ArchivedLayout
<1>4. Turns(L)
  BY <1>1, <1>3 DEF Turns
<1>5. PICK n \in Nat : n = Len(Dir.archives)
  BY DirIs
<1>6. n + 1 \in 1..(n + 1) /\ \A i \in 1..(n + 1) : i \in 1..n \/ i = n + 1
  BY <1>5
<1>7. L.archives[n + 1] = Dir.live
  BY <1>3, <1>5 DEF LastArchive
<1>8. ASSUME NEW f \in Files PROVE Names(f, L) <=> Names(f, Dir)
  <2>1. f # 0
    BY BaseKeeps, FileFacts DEF Files
  <2>2. \A i \in 1..n : i \in 1..(n + 1)
    BY <1>5
  <2>3. QED
    BY <1>3, <1>5, <1>6, <1>7, <2>1, <2>2 DEF Names, NoFile
<1>9. QED
  BY <1>1, <1>4, <1>8, RenameCut DEF Up

LEMMA RollBackCut ==
  ASSUME Base, Cut, RollBack
  PROVE  Cut'
<1>1. /\ anchor' = anchor /\ cache' = cache /\ wire' = wire /\ dropped' = dropped /\ app' = app
      /\ phase \in {"archived", "created"} /\ phase' = "run"
  BY DEF RollBack, files, history
<1>2. Len(Dir.archives) >= 1 /\ Running /\ FileType
  BY <1>1, BaseKeeps DEF Running
<1>3. PICK L \in Named : /\ L = Layout(Front(Dir.archives), Last(Dir.archives)) /\ L.live = LastArchive(Dir)
                         /\ Len(L.archives) = Len(Dir.archives) - 1
                         /\ \A i \in 1..Len(L.archives) : L.archives[i] = Dir.archives[i]
  BY <1>2, BackLayout
<1>4. Turns(L)
  BY <1>3 DEF Turns, RollBack
<1>5. PICK n \in Nat : n = Len(Dir.archives) /\ n >= 1
  BY <1>2, DirIs
<1>6. n \in 1..n /\ (\A i \in 1..(n - 1) : i \in 1..n) /\ \A i \in 1..n : i \in 1..(n - 1) \/ i = n
  BY <1>5
<1>7. L.live = Dir.archives[n]
  BY <1>3, <1>5 DEF LastArchive
<1>8. ASSUME NEW f \in Files
      PROVE  (Names(f, L) => Names(f, Dir)) /\ (Names(f, Dir) => Names(f, L) \/ cache[f] = <<>>)
  <2>1. f = Dir.live => cache[f] = <<>>
    <3>1. f # 0
      BY <1>2, FileFacts DEF Files
    <3>2. CASE phase = "archived"
      BY <1>2, <3>1, <3>2 DEF Running, NoFile
    <3>3. CASE phase = "created"
      BY <1>2, <3>3 DEF Running, Opened
    <3>4. QED
      BY <1>1, <3>2, <3>3
  <2>2. QED
    BY <1>3, <1>5, <1>6, <1>7, <2>1 DEF Names
<1>9. QED
  BY <1>1, <1>4, <1>8, RenameCut DEF Up

\* A file is added to a directory without a live segment.
LEMMA AddCut ==
  ASSUME Base, Cut, NEW h \in Seq(Int), NEW c \in Seq(Int), NEW b \in BOOLEAN, AddFile(h, c, b),
         dirs' = Append(dirs, Layout(Dir.archives, NewFile)), Dir.live = NoFile,
         wire' \in Journals, Len(wire') >= Len(wire), \A i \in 1..Len(c) : c[i] > Len(wire),
         dropped' = dropped, Up' => Up /\ app' = app
  PROVE  /\ Discarded' /\ Apart' /\ Clean' /\ Applied'
<1>0. Discarded /\ Apart /\ Clean /\ Applied /\ Inherited /\ DirType /\ FileType /\ Shape /\ wire \in Journals
  BY CutKeeps, BaseKeeps DEF NodeType
<1>1. PICK m, g : m = Len(cache) /\ g = NewFile /\ m \in Nat
  BY <1>0, FileFacts
<1>2. /\ Len(cache') = m + 1 /\ g = m + 1 /\ cache'[g] = c
      /\ \A f \in 1..m : cache'[f] = cache[f]
  BY <1>0, <1>1, AddEffect DEF Files
<1>3. PICK L \in Named : L = Layout(Dir.archives, g) /\ L.live = g /\ L.archives = Dir.archives
  <2>1. g \in Nat /\ Dir.archives \in Seq(Nat)
    BY <1>1, <1>2, DirIs
  <2>2. QED
    BY <2>1, LayoutIs
<1>4. Turns(L)
  BY <1>1, <1>3 DEF Turns
<1>5. /\ Dir' = L
      /\ \A k \in 1..Len(dirs') : dirs'[k] = L \/ \E j \in 1..Len(dirs) : dirs'[k] = dirs[j]
  BY <1>0, <1>4, TurnsEffect
<1>6. \A f \in 1..(m + 1) : f # 0 /\ (f \in 1..m \/ f = g)
  BY <1>1, <1>2
<1>7. ASSUME NEW f \in 1..m PROVE (Names(f, L) <=> Names(f, Dir)) /\ f # g /\ f # 0
  <2>1. f # g /\ f # 0
    BY <1>1, <1>2
  <2>2. QED
    BY <1>3, <2>1 DEF Names, NoFile
<1>8. Discarded'
  <2>1. Len(wire) \in Nat /\ Len(wire') \in Nat
    BY <1>0 DEF Journals
  <2>2. 1..Len(wire) \subseteq 1..Len(wire')
    BY <2>1
  <2>3. QED
    BY <1>0, <2>2 DEF Discarded
<1>9. Apart'
  <2>1. ASSUME NEW k \in 1..Len(dirs'), NEW f \in 1..(m + 1), Names(f, dirs'[k])
        PROVE  Names(f, L) \/ cache'[f] = <<>>
    <3>1. CASE f = g
      BY <1>3, <3>1 DEF Names
    <3>2. CASE f # g
      <4>1. f \in 1..m
        BY <1>6, <3>2
      <4>2. CASE dirs'[k] = L
        BY <2>1, <4>2
      <4>3. CASE dirs'[k] # L
        <5>1. PICK j \in 1..Len(dirs) : dirs'[k] = dirs[j]
          BY <1>5, <4>3
        <5>2. Names(f, Dir) \/ cache[f] = <<>>
          BY <1>0, <1>1, <2>1, <4>1, <5>1 DEF Apart, Files
        <5>3. QED
          BY <1>2, <1>7, <4>1, <5>2
      <4>4. QED
        BY <4>2, <4>3
    <3>3. QED
      BY <3>1, <3>2
  <2>2. QED
    BY <1>2, <1>5, <2>1 DEF Apart, Names, Files
<1>10. Clean'
  <2>1. ASSUME NEW f \in 1..(m + 1), Names(f, L), NEW i \in 1..Len(cache'[f]) PROVE cache'[f][i] \notin dropped
    <3>1. CASE f = g
      <4>1. c[i] > Len(wire) /\ cache'[f][i] = c[i] /\ c[i] \in Int /\ Len(wire) \in Nat
        BY <1>0, <1>2, <2>1, <3>1 DEF Journals
      <4>2. c[i] \notin 1..Len(wire)
        BY <4>1
      <4>3. QED
        BY <1>0, <4>1, <4>2 DEF Discarded
    <3>2. CASE f # g
      <4>1. f \in 1..m
        BY <1>6, <3>2
      <4>2. QED
        BY <1>0, <1>1, <1>2, <1>7, <2>1, <4>1 DEF Clean, Files
    <3>3. QED
      BY <3>1, <3>2
  <2>2. QED
    BY <1>2, <1>5, <2>1 DEF Clean, Names, Files
<1>11. Applied'
  BY <1>0 DEF Applied
<1>12. QED
  BY <1>8, <1>9, <1>10, <1>11

LEMMA WriteGenesisCut ==
  ASSUME Base, Cut, WriteGenesis
  PROVE  Cut'
<1>0. DirType /\ wire \in Journals /\ Len(wire) \in Nat /\ Genesis \in Nat
  BY BaseKeeps, RecoveryBounds DEF NodeType
<1>1. Dir.live = NoFile /\ Len(Dir.archives) = 0 /\ Dir.archives = <<>>
  <2>1. Dir.live = NoFile /\ Len(Dir.archives) = 0
    BY <1>0, JournalIs DEF WriteGenesis, Fresh
  <2>2. QED
    BY <2>1, DirIs
<1> DEFINE ids == [i \in 1..Genesis |-> Len(wire) + i]
<1>2. ids \in Seq(Int) /\ Len(ids) = Genesis /\ \A i \in 1..Genesis : ids[i] = Len(wire) + i
  BY <1>0, Numbers
<1>3. /\ AddFile(<<>>, ids, TRUE) /\ wire' = wire \o [i \in 1..Genesis |-> i]
      /\ dirs' = Append(dirs, Layout(<<>>, NewFile)) /\ phase' = "genesis" /\ dropped' = dropped
  BY DEF WriteGenesis, history
<1>4. PICK c \in Seq(Int), h \in Seq(Int) : c = ids /\ h = <<>>
  BY <1>2, NoEntries
<1> HIDE DEF ids
<1>5. \A i \in 1..Len(c) : c[i] > Len(wire)
  BY <1>0, <1>2, <1>4
<1>6. wire' \in Journals /\ Len(wire') >= Len(wire)
  <2>1. Base'
    BY WriteGenesisBase
  <2>2. wire' \in Journals
    BY <2>1 DEF Base, Types, NodeType
  <2>3. PICK t : t = [i \in 1..Genesis |-> i] /\ wire' = wire \o t
    BY <1>3
  <2>4. wire \in Seq(Int) /\ t \in Seq(Int) /\ Len(t) \in Nat
    BY <1>0, <2>3 DEF Journals
  <2>5. Len(wire \o t) = Len(wire) + Len(t)
    BY <2>4, ConcatFacts
  <2>6. QED
    BY <1>0, <2>2, <2>3, <2>4, <2>5
<1>7. AddFile(h, c, TRUE) /\ dirs' = Append(dirs, Layout(Dir.archives, NewFile)) /\ ~Up'
  BY <1>1, <1>3, <1>4 DEF Up
<1>8. Discarded' /\ Apart' /\ Clean' /\ Applied'
  BY <1>1, <1>3, <1>5, <1>6, <1>7, AddCut
<1>9. QED
  BY <1>3, <1>8 DEF Cut, Inherited

LEMMA InstallCut ==
  ASSUME Base, Cut, phase = "archived", NEW b \in BOOLEAN, AddFile(app, <<>>, b), phase' # "synthesizing",
         dirs' = Append(dirs, Layout(Dir.archives, NewFile)), wire' = wire, app' = app, dropped' = dropped
  PROVE  Cut'
<1>0. wire \in Journals /\ Len(wire) \in Nat /\ app \in Seq(Int) /\ Dir.live = NoFile
  BY BaseKeeps DEF NodeType, Running
<1>1. PICK c \in Seq(Int), h \in Seq(Int) : c = <<>> /\ h = app
  BY <1>0, NoEntries
<1>2. AddFile(h, c, b) /\ (\A i \in 1..Len(c) : c[i] > Len(wire)) /\ Up
  BY <1>1, NoEntries DEF Up
<1>3. wire' \in Journals /\ Len(wire') >= Len(wire)
  BY <1>0
<1>4. Discarded' /\ Apart' /\ Clean' /\ Applied'
  BY <1>0, <1>2, <1>3, AddCut
<1>5. QED
  BY <1>4 DEF Cut, Inherited

LEMMA InstallPreparedCut ==
  ASSUME Base, Cut, InstallPrepared
  PROVE  Cut'
<1>1. /\ phase = "archived" /\ AddFile(app, <<>>, TRUE) /\ dirs' = Append(dirs, Layout(Dir.archives, NewFile))
      /\ phase' = "installed" /\ wire' = wire /\ app' = app /\ dropped' = dropped
  BY DEF InstallPrepared, history
<1>2. QED
  BY <1>1, InstallCut

LEMMA InstallFreshCut ==
  ASSUME Base, Cut, InstallFresh
  PROVE  Cut'
<1>1. CASE phase = "archived"
  <2>1. /\ AddFile(app, <<>>, FALSE) /\ dirs' = Append(dirs, Layout(Dir.archives, NewFile))
        /\ phase' = "created" /\ wire' = wire /\ app' = app /\ dropped' = dropped
    BY <1>1 DEF InstallFresh, history
  <2>2. QED
    BY <1>1, <2>1, InstallCut
<1>2. CASE phase # "archived"
  <2>1. /\ phase = "created" /\ phase' = "installed" /\ dirs' = dirs /\ anchor' = anchor /\ cache' = cache
        /\ wire' = wire /\ app' = app /\ dropped' = dropped
    BY <1>2 DEF InstallFresh, directory, history
  <2>2. QED
    BY <2>1, QuietCut DEF Up
<1>3. QED
  BY <1>1, <1>2

LEMMA SynthesizeCut ==
  ASSUME Base, Cut, SynthesizeLive
  PROVE  Cut'
<1>0. /\ Types /\ DirType /\ FileType /\ Clean /\ wire \in Journals /\ Len(wire) \in Nat
  BY BaseKeeps, CutKeeps DEF NodeType
<1>1. /\ AddFile(Journal, <<>>, FALSE) /\ wire' = wire /\ Accepts /\ dropped' = dropped
      /\ dirs' = Append(dirs, Layout(Dir.archives, NewFile)) /\ phase' = "synthesizing"
      /\ Dir.live = NoFile /\ Dir.archives # <<>>
  BY DEF SynthesizeLive, history
<1>2. Dir.archives \in Seq(Nat) /\ Len(Dir.archives) # 0 /\ Segments # <<>>
  <2>1. Dir.archives \in Seq(Nat) /\ Len(Dir.archives) # 0
    BY <1>1, DirIs
  <2>2. QED
    BY <1>0, <2>1, JournalIs
<1>3. /\ Journal \in Seq(Int)
      /\ \A p \in 1..Len(Journal) : \E f \in Files :
           Names(f, Dir) /\ \E i \in 1..Len(cache[f]) : Journal[p] = cache[f][i]
      /\ \A j \in 1..Len(Dir.archives) : \A i \in 1..Len(cache[Dir.archives[j]]) :
           cache[Dir.archives[j]][i] > 0 => Holds(Journal, cache[Dir.archives[j]][i])
  BY <1>1, <1>2, JournalHolds
<1>4. PICK c \in Seq(Int), h \in Seq(Int) : c = <<>> /\ h = Journal
  BY <1>3, NoEntries
<1>5. AddFile(h, c, FALSE) /\ (\A i \in 1..Len(c) : c[i] > Len(wire)) /\ ~Up'
  <2>1. AddFile(h, c, FALSE)
    BY <1>1, <1>4
  <2>2. \A i \in 1..Len(c) : c[i] > Len(wire)
    BY <1>4, NoEntries
  <2>3. QED
    BY <1>1, <2>1, <2>2 DEF Up
<1>6. Discarded' /\ Apart' /\ Clean' /\ Applied'
  <2>1. wire' \in Journals /\ Len(wire') >= Len(wire)
    BY <1>0, <1>1
  <2>2. QED
    BY <1>1, <1>5, <2>1, AddCut
<1>7. \A p \in 1..Len(h) : h[p] \notin dropped
  BY <1>0, <1>3, <1>4 DEF Clean
<1>8. PICK A, n, g : A = Dir.archives /\ n = Len(Dir.archives) /\ g = NewFile
  OBVIOUS
<1>9. /\ Dir'.live = g /\ Dir'.archives = A /\ anchor'[g] = h
  <2>1. Dir' = Layout(Dir.archives, NewFile) /\ anchor'[NewFile] = Journal
    BY SynthesizeBase
  <2>2. QED
    BY <1>4, <1>8, <2>1 DEF Layout
<1>10. \A j \in 1..n : cache'[A[j]] = cache[A[j]]
  <2>1. \A j \in 1..n : A[j] \in Files
    BY <1>8, DirIs DEF Files
  <2>2. \A f \in Files : cache'[f] = cache[f]
    BY <1>0, <1>5, AddEffect
  <2>3. QED
    BY <2>1, <2>2
<1>11. \A j \in 1..n : \A i \in 1..Len(cache'[A[j]]) : cache'[A[j]][i] > 0 => Holds(h, cache'[A[j]][i])
  BY <1>3, <1>4, <1>8, <1>10
<1>12. Inherited'
  BY <1>1, <1>7, <1>8, <1>9, <1>11 DEF Inherited, Holds
<1>13. QED
  BY <1>6, <1>12 DEF Cut

LEMMA DrainCut ==
  ASSUME Base, Cut, Drain
  PROVE  Cut'
<1>0. /\ Types /\ DirType /\ FileType /\ Discarded /\ Apart /\ Clean /\ Applied /\ wire \in Seq(Int)
      /\ Len(wire) \in Nat /\ app \in Seq(Int)
  BY BaseKeeps, CutKeeps
<1>1. dropped' = dropped /\ phase = "run" /\ phase' = "drain" /\ dirs' \in {<<Dir>>, dirs}
  BY DEF Drain, MayDrain, PollRetry
<1>2. PICK x \in Files : x = Dir.live
  BY DrainBase
<1>3. /\ Base' /\ Dir' = Dir /\ Files' = Files
      /\ \A f \in Files : f # x => cache'[f] = cache[f]
      /\ Begins(cache[x], cache'[x]) /\ Begins(app, app') /\ Begins(wire, wire')
      /\ \A i \in 1..Len(cache'[x]) : i \in 1..Len(cache[x]) \/ cache'[x][i] > Len(wire)
      /\ \A i \in 1..Len(app') : i \in 1..Len(app) \/ app'[i] > Len(wire)
  BY <1>2, DrainBase
<1>4. PICK c \in Seq(Int), d \in Seq(Int), a \in Seq(Int), w \in Seq(Int) :
        c = cache[x] /\ d = cache'[x] /\ a = app' /\ w = wire'
  <2>1. FileType' /\ NodeType'
    BY <1>3 DEF Base, Types
  <2>2. cache'[x] \in Seq(Int)
    <3>1. x \in 1..Len(cache') /\ cache' \in Seq(Journals)
      BY <1>3, <2>1 DEF FileType, Files
    <3>2. QED
      BY <3>1, ElementOfSeq DEF Journals
  <2>3. app' \in Seq(Int) /\ wire' \in Seq(Int)
    BY <2>1 DEF NodeType, Journals
  <2>4. cache[x] \in Seq(Int)
    BY <1>0, FileFacts
  <2>5. QED
    BY <2>2, <2>3, <2>4
<1>5. \A e \in Int : e > Len(wire) => e \notin dropped
  <2>1. \A e \in Int : e > Len(wire) => e \notin 1..Len(wire)
    BY <1>0
  <2>2. QED
    BY <1>0, <2>1 DEF Discarded
<1>6. Discarded'
  <2>1. Len(wire) <= Len(w) /\ Len(w) \in Nat
    BY <1>3, <1>4 DEF Begins
  <2>2. 1..Len(wire) \subseteq 1..Len(w)
    BY <1>0, <2>1
  <2>3. QED
    BY <1>0, <1>1, <1>4, <2>2 DEF Discarded
<1>7. Clean'
  <2>1. ASSUME NEW f \in Files, Names(f, Dir), NEW i \in 1..Len(cache'[f]) PROVE cache'[f][i] \notin dropped
    <3>1. CASE f # x
      BY <1>0, <1>3, <2>1, <3>1 DEF Clean
    <3>2. CASE f = x
      <4>1. i \in 1..Len(d) /\ d[i] \in Int
        BY <1>4, <2>1, <3>2
      <4>2. CASE i \in 1..Len(c)
        <5>1. d[i] = c[i] /\ c[i] \notin dropped
          BY <1>0, <1>3, <1>4, <2>1, <3>2, <4>2 DEF Begins, Clean
        <5>2. QED
          BY <1>4, <3>2, <5>1
      <4>3. CASE i \notin 1..Len(c)
        <5>1. d[i] > Len(wire)
          BY <1>3, <1>4, <4>1, <4>3
        <5>2. QED
          BY <1>4, <1>5, <3>2, <4>1, <5>1
      <4>4. QED
        BY <4>2, <4>3
    <3>3. QED
      BY <3>1, <3>2
  <2>2. QED
    BY <1>1, <1>3, <2>1 DEF Clean, Names
<1>8. Applied'
  <2>1. ASSUME NEW p \in 1..Len(a) PROVE a[p] \notin dropped
    <3>1. a[p] \in Int
      OBVIOUS
    <3>2. CASE p \in 1..Len(app)
      BY <1>0, <1>1, <1>3, <1>4, <3>2 DEF Begins, Applied, Up
    <3>3. CASE p \notin 1..Len(app)
      BY <1>3, <1>4, <1>5, <3>1, <3>3
    <3>4. QED
      BY <3>2, <3>3
  <2>2. QED
    BY <1>1, <1>4, <2>1 DEF Applied
<1>9. Apart'
  <2>1. PICK L \in Named : L = Dir
    BY BaseKeeps
  <2>2. Turns(L)
    BY <1>1, <2>1 DEF Turns
  <2>3. \A k \in 1..Len(dirs') : dirs'[k] = L \/ \E j \in 1..Len(dirs) : dirs'[k] = dirs[j]
    BY <1>0, <2>2, TurnsEffect
  <2>4. ASSUME NEW k \in 1..Len(dirs'), NEW f \in Files, Names(f, dirs'[k]) PROVE Names(f, L) \/ cache'[f] = <<>>
    <3>1. Names(f, L) \/ cache[f] = <<>>
      <4>1. CASE dirs'[k] = L
        BY <2>4, <4>1
      <4>2. CASE dirs'[k] # L
        BY <1>0, <2>1, <2>3, <2>4, <4>2 DEF Apart
      <4>3. QED
        BY <4>1, <4>2
    <3>2. CASE f = x
      BY <1>2, <2>1, <3>2 DEF Names
    <3>3. CASE f # x
      BY <1>3, <3>1, <3>3
    <3>4. QED
      BY <3>2, <3>3
  <2>5. QED
    BY <1>3, <2>1, <2>4 DEF Apart, Names
<1>10. QED
  BY <1>1, <1>6, <1>7, <1>8, <1>9 DEF Cut, Inherited

\* Serving what the journal spells discards every other entry.
LEMMA ServeCut ==
  ASSUME Base, Cut, NEW state \in Seq(Int), Spelled(state), Serve(state), dirs' = dirs, wire' = wire,
         Files' = Files,
         \A p \in 1..Len(state) : state[p] \notin dropped,
         \A f \in Files : cache[f] = <<>> => cache'[f] = <<>>,
         \A f \in Files : Names(f, Dir) => \A i \in 1..Len(cache'[f]) :
           cache'[f][i] \notin dropped /\ (cache'[f][i] \in 1..Len(wire) => Holds(state, cache'[f][i]))
  PROVE  Cut'
<1>0. Discarded /\ Apart
  BY CutKeeps
<1>1. /\ phase' = "run" /\ app' = state /\ dropped' = dropped \cup (1..Len(wire) \ Range(state))
  BY DEF Serve, Entries
<1>2. \A e : Holds(state, e) => e \in Range(state)
  BY DEF Holds, Range
<1>3. Discarded'
  BY <1>0, <1>1 DEF Discarded
<1>4. Apart'
  BY <1>0 DEF Apart, Names, Dir
<1>5. Applied'
  <2>1. ASSUME NEW p \in 1..Len(state) PROVE state[p] \notin dropped'
    <3>1. Holds(state, state[p])
      BY DEF Holds
    <3>2. QED
      BY <1>1, <1>2, <3>1
  <2>2. QED
    BY <1>1, <2>1 DEF Applied
<1>6. Clean'
  <2>1. Dir' = Dir
    BY DEF Dir
  <2>2. ASSUME NEW f \in Files, Names(f, Dir), NEW i \in 1..Len(cache'[f]) PROVE cache'[f][i] \notin dropped'
    BY <1>1, <1>2, <2>2
  <2>3. QED
    BY <2>1, <2>2 DEF Clean, Names
<1>7. QED
  BY <1>1, <1>3, <1>4, <1>5, <1>6 DEF Cut, Inherited

LEMMA RecoverCut ==
  ASSUME Base, Cut, Recover
  PROVE  Cut'
<1>0. /\ Types /\ DirType /\ FileType /\ Clean /\ Placed /\ Wired /\ Shape /\ Len(wire) \in Nat
  BY BaseKeeps, CutKeeps
<1>1. Accepts /\ Dir.live # NoFile /\ Serve(Replayed) /\ dirs' = dirs /\ wire' = wire
  BY DEF Recover, directory
<1>2. PICK x \in Files : x = Dir.live
  BY RecoverBase
<1>3. /\ Replayed = Journal /\ Journal = Chain(x) /\ Files' = Files
      /\ cache'[x] = WholeOf(cache[x]) /\ \A f \in Files : f # x => cache'[f] = cache[f]
  BY <1>2, RecoverBase
<1>4. Segments # <<>>
  BY <1>0, <1>1, JournalIs
<1>5. /\ Journal \in Seq(Int)
      /\ \A p \in 1..Len(Journal) : \E f \in Files :
           Names(f, Dir) /\ \E i \in 1..Len(cache[f]) : Journal[p] = cache[f][i]
      /\ \A j \in 1..Len(Dir.archives) : \A i \in 1..Len(cache[Dir.archives[j]]) :
           cache[Dir.archives[j]][i] > 0 => Holds(Journal, cache[Dir.archives[j]][i])
      /\ \A i \in 1..Len(WholeOf(cache[x])) : Holds(Journal, WholeOf(cache[x])[i])
  BY <1>1, <1>2, <1>4, JournalHolds
<1>6. PICK state \in Seq(Int) : state = Journal
  BY <1>5
<1>7. Spelled(state) /\ Serve(state)
  BY <1>0, <1>1, <1>3, <1>6, ChainSpelled
<1>8. \A p \in 1..Len(state) : state[p] \notin dropped
  BY <1>0, <1>5, <1>6 DEF Clean
<1>9. PICK c \in Seq(Int) : c = cache[x]
  BY <1>0, FileFacts
<1>10. /\ Len(WholeOf(c)) \in 0..Len(c) /\ Len(c) \in Nat
       /\ \A i \in 1..Len(WholeOf(c)) : WholeOf(c)[i] = c[i] /\ i \in 1..Len(c)
  <2>1. /\ Len(WholeOf(c)) = EndOf(c) /\ EndOf(c) \in 0..Len(c)
        /\ \A i \in 1..EndOf(c) : WholeOf(c)[i] = c[i]
    BY WholeFacts, EndFacts
  <2>2. Len(c) \in Nat /\ \A i \in 1..EndOf(c) : i \in 1..Len(c)
    BY <2>1
  <2>3. QED
    BY <2>1, <2>2
<1>11. ASSUME NEW f \in Files, cache[f] = <<>> PROVE cache'[f] = <<>>
  <2>1. CASE f # x
    BY <1>3, <1>11, <2>1
  <2>2. CASE f = x
    <3>1. Positive(<<>>)
      BY NoEntries DEF Positive
    <3>2. WholeOf(<<>>) = <<>>
      BY <3>1, NoEntries, EndPositive
    <3>3. QED
      BY <1>3, <1>11, <2>2, <3>2
  <2>3. QED
    BY <2>1, <2>2
<1>12. ASSUME NEW f \in Files, Names(f, Dir), NEW i \in 1..Len(cache'[f])
       PROVE  cache'[f][i] \notin dropped /\ (cache'[f][i] \in 1..Len(wire) => Holds(state, cache'[f][i]))
  <2>1. CASE f = x
    <3>1. i \in 1..Len(WholeOf(c)) /\ cache'[f][i] = WholeOf(c)[i]
      BY <1>3, <1>9, <1>12, <2>1
    <3>2. cache'[f][i] = c[i] /\ i \in 1..Len(c)
      BY <1>10, <3>1
    <3>3. QED
      BY <1>0, <1>5, <1>6, <1>9, <1>12, <2>1, <3>1, <3>2 DEF Clean
  <2>2. CASE f # x
    <3>1. cache'[f] = cache[f]
      BY <1>3, <2>2
    <3>2. PICK j \in 1..Len(Dir.archives) : f = Dir.archives[j]
      BY <1>2, <1>12, <2>2 DEF Names
    <3>3. ASSUME cache[f][i] \in 1..Len(wire) PROVE Holds(state, cache[f][i])
      <4>1. cache[f][i] > 0
        BY <1>0, <3>3
      <4>2. QED
        BY <1>5, <1>6, <1>12, <3>1, <3>2, <4>1
    <3>4. cache[f][i] \notin dropped
      BY <1>0, <1>12, <3>1 DEF Clean
    <3>5. QED
      BY <3>1, <3>3, <3>4
  <2>3. QED
    BY <2>1, <2>2
<1>13. QED
  BY <1>1, <1>3, <1>7, <1>8, <1>11, <1>12, ServeCut

LEMMA HeadSynthesizedCut ==
  ASSUME Base, Cut, HeadSynthesized
  PROVE  Cut'
<1>0. /\ FileType /\ Clean /\ Inherited /\ Placed /\ Synthesizing /\ Len(wire) \in Nat
  BY BaseKeeps, CutKeeps
<1>1. phase = "synthesizing" /\ Serve(Replayed) /\ dirs' = dirs /\ wire' = wire /\ cache' = cache
  BY DEF HeadSynthesized, directory
<1>2. PICK x \in Files : x = Dir.live /\ cache[x] = <<>>
  BY <1>0, <1>1 DEF Synthesizing
<1>3. Replayed = anchor[x] /\ anchor[x] \in Seq(Int) /\ Spelled(anchor[x]) /\ Files' = Files
  BY <1>0, <1>1, <1>2, HeadSynthesizedBase, FileFacts DEF Placed, Files
<1>4. PICK state \in Seq(Int) : state = anchor[x]
  BY <1>3
<1>5. Spelled(state) /\ Serve(state) /\ \A p \in 1..Len(state) : state[p] \notin dropped
  BY <1>0, <1>1, <1>2, <1>3, <1>4 DEF Inherited
<1>6. ASSUME NEW f \in Files, Names(f, Dir), NEW i \in 1..Len(cache'[f])
      PROVE  cache'[f][i] \notin dropped /\ (cache'[f][i] \in 1..Len(wire) => Holds(state, cache'[f][i]))
  <2>1. cache[f][i] \notin dropped
    BY <1>0, <1>1, <1>6 DEF Clean
  <2>2. CASE f = x
    BY <1>1, <1>2, <1>6, <2>2, NoEntries
  <2>3. CASE f # x
    <3>1. PICK j \in 1..Len(Dir.archives) : f = Dir.archives[j]
      BY <1>2, <1>6, <2>3 DEF Names
    <3>2. ASSUME cache[f][i] \in 1..Len(wire) PROVE Holds(state, cache[f][i])
      <4>1. cache[f][i] > 0
        BY <1>0, <3>2
      <4>2. QED
        BY <1>0, <1>1, <1>2, <1>4, <1>6, <3>1, <4>1 DEF Inherited
    <3>3. QED
      BY <1>1, <2>1, <3>2
  <2>4. QED
    BY <2>2, <2>3
<1>7. QED
  BY <1>1, <1>3, <1>5, <1>6, ServeCut

LEMMA PowerLossCut ==
  ASSUME Base, Cut, PowerLoss
  PROVE  Cut'
<1>0. Discarded /\ Apart /\ Clean /\ DirType /\ FileType /\ Len(wire) \in Nat
  BY CutKeeps, BaseKeeps
<1>1. phase' = "down" /\ wire' = wire /\ dropped' = dropped
  BY DEF PowerLoss, Forget
<1>2. PICK k \in 1..Len(dirs) : dirs' = <<dirs[k]>>
  BY DEF PowerLoss
<1>3. Files' = Files /\ \A f \in Files : Left(cache[f], disk[f], cache'[f])
  BY PowerLossEffect
<1>4. PICK L \in Named : L = dirs[k]
  BY <1>0, DirFacts
<1>5. Turns(L)
  BY <1>2, <1>4 DEF Turns
<1>6. Dir' = L /\ Len(dirs') = 1 /\ dirs'[1] = L
  BY <1>0, <1>2, <1>4, <1>5, TurnsEffect
<1>7. Apart'
  <2>1. \A j \in 1..Len(dirs') : dirs'[j] = L
    BY <1>6
  <2>2. QED
    BY <1>6, <2>1 DEF Apart, Names
<1>8. Clean'
  <2>1. ASSUME NEW f \in Files, Names(f, L), NEW i \in 1..Len(cache'[f]) PROVE cache'[f][i] \notin dropped
    <3>1. PICK c, g : c = cache[f] /\ g = cache'[f]
      OBVIOUS
    <3>2. Len(g) = Len(c) /\ \A j \in 1..Len(c) : g[j] \in {0, -1, c[j]}
      BY <1>3, <3>1 DEF Left
    <3>3. g[i] = 0 \/ g[i] = -1 \/ g[i] = c[i]
      BY <2>1, <3>1, <3>2
    <3>4. 0 \notin dropped /\ -1 \notin dropped
      <4>1. 0 \notin 1..Len(wire) /\ -1 \notin 1..Len(wire)
        BY <1>0
      <4>2. QED
        BY <1>0, <4>1 DEF Discarded
    <3>5. c[i] \notin dropped
      <4>1. Names(f, Dir) \/ c = <<>>
        BY <1>0, <1>4, <2>1, <3>1 DEF Apart
      <4>2. CASE c = <<>>
        BY <2>1, <3>1, <3>2, <4>2, NoEntries
      <4>3. CASE Names(f, Dir)
        BY <1>0, <2>1, <3>1, <3>2, <4>3 DEF Clean
      <4>4. QED
        BY <4>1, <4>2, <4>3
    <3>6. QED
      BY <3>1, <3>3, <3>4, <3>5
  <2>2. QED
    BY <1>1, <1>3, <1>6, <2>1 DEF Clean, Names
<1>9. Discarded' /\ Applied' /\ Inherited'
  BY <1>0, <1>1 DEF Discarded, Applied, Inherited, Up
<1>10. QED
  BY <1>7, <1>8, <1>9 DEF Cut

LEMMA CutStep == Base /\ Cut /\ [Next]_vars => Cut'
<1> SUFFICES ASSUME Base, Cut, [Next]_vars PROVE Cut'
  OBVIOUS
<1> DEFINE Keeps == /\ anchor' = anchor /\ cache' = cache /\ wire' = wire /\ dropped' = dropped
                    /\ dirs' \in {dirs, <<Dir>>} /\ (Up' => Up /\ app' = app)
                    /\ (phase' = "synthesizing" => phase = "synthesizing")
<1>0. Keeps => Cut'
  BY QuietCut
<1>1. CASE Shadow
  <2>1. Keeps
    BY <1>1 DEF Shadow, ShadowConsume, StartSave, SyncRotated, Publish, SyncPublished, directory, files,
                history, save, Up
  <2>2. QED
    BY <1>0, <2>1
<1>2. CASE Kill
  <2>1. Keeps
    BY <1>2 DEF Kill, Forget, directory, files, history, Up
  <2>2. QED
    BY <1>0, <2>1
<1>3. CASE Refuse \/ SyncGenesis
  <2>1. Keeps
    BY <1>3 DEF Refuse, SyncGenesis, directory, files, history, Up
  <2>2. QED
    BY <1>0, <2>1
<1>4. CASE FinishRotation
  <2>1. Keeps
    BY <1>4 DEF FinishRotation, AfterRotation, files, Up
  <2>2. QED
    BY <1>0, <2>1
<1>5. CASE Sync
  <2>1. Keeps
    BY <1>5 DEF Sync, directory, history, Up
  <2>2. QED
    BY <1>0, <2>1
<1>6. CASE UNCHANGED vars
  <2>1. Keeps
    BY <1>6 DEF vars, directory, files, history, Up
  <2>2. QED
    BY <1>0, <2>1
<1>7. QED
  BY <1>1, <1>2, <1>3, <1>4, <1>5, <1>6, WriteGenesisCut, RecoverCut, SynthesizeCut, HeadSynthesizedCut,
     DrainCut, ArchiveCut, InstallPreparedCut, InstallFreshCut, RollBackCut, PowerLossCut DEF Next, Boot, Disk

LEMMA BaseTypeOK ==
  ASSUME Base
  PROVE  TypeOK
<1>0. /\ Types /\ DirType /\ FileType /\ NodeType /\ SaveType /\ Shape /\ Placed /\ Synced /\ Wired
      /\ app \in Seq(Int) /\ acked \in Seq(Int) /\ Len(wire) \in Nat /\ Len(cache) \in Nat
  BY BaseKeeps, FileFacts
<1>1. dirs # <<>> /\ snaps # <<>>
  BY <1>0 DEF DirType, SaveType
<1>2. ASSUME NEW k \in 1..Len(dirs)
      PROVE  LET names == dirs[k].archives \o <<dirs[k].live>>
             IN  IsInjective(names) /\ Range(names) \subseteq 0..Len(cache)
  <2>1. PICK A, n, x, m : A = dirs[k].archives /\ n = Len(A) /\ x = dirs[k].live /\ m = Len(cache)
    OBVIOUS
  <2>2. /\ A \in Seq(Nat) /\ n \in Nat /\ x \in Nat /\ m \in Nat /\ x \in 0..m
        /\ \A i \in 1..n : A[i] \in 1..m /\ A[i] # x
        /\ \A i, j \in 1..n : A[i] = A[j] => i = j
    BY <1>0, <2>1, DirFacts DEF Shape, Distinct, Files
  <2>3. PICK t : t = <<x>>
    OBVIOUS
  <2>4. t \in Seq(Nat) /\ Len(t) = 1 /\ t[1] = x
    BY <2>2, <2>3
  <2>5. PICK s : s = A \o t
    OBVIOUS
  <2>6. /\ s \in Seq(Nat) /\ Len(s) = Len(A) + Len(t)
        /\ \A i \in 1..(Len(A) + Len(t)) : s[i] = IF i <= Len(A) THEN A[i] ELSE t[i - Len(A)]
    <3>1. /\ A \o t \in Seq(Nat) /\ Len(A \o t) = Len(A) + Len(t)
          /\ \A i \in 1..(Len(A) + Len(t)) : (A \o t)[i] = IF i <= Len(A) THEN A[i] ELSE t[i - Len(A)]
      BY <2>2, <2>4, ConcatProperties
    <3>2. QED
      BY <2>5, <3>1
  <2>7. /\ Len(s) = n + 1 /\ DOMAIN s = 1..(n + 1) /\ s[n + 1] = x
        /\ \A i \in 1..n : s[i] = A[i]
        /\ \A i \in 1..(n + 1) : i \in 1..n \/ i = n + 1
    <3>1. Len(s) = n + 1
      BY <2>1, <2>4, <2>6
    <3>2. DOMAIN s = 1..(n + 1)
      BY <2>6, <3>1
    <3>3. n + 1 \in 1..(n + 1) /\ ~(n + 1 <= n) /\ n + 1 - n = 1
      BY <2>2
    <3>0. \A i \in 1..(n + 1) : s[i] = IF i <= n THEN A[i] ELSE t[i - n]
      BY <2>1, <2>4, <2>6
    <3>4. s[n + 1] = x
      BY <2>2, <2>4, <3>0, <3>3
    <3>5. \A i \in 1..n : s[i] = A[i]
      <4>1. \A i \in 1..n : i \in 1..(n + 1) /\ i <= n
        BY <2>2
      <4>2. QED
        BY <3>0, <4>1
    <3>6. QED
      BY <2>2, <3>1, <3>2, <3>4, <3>5
  <2>8. \A i \in 1..(n + 1) : s[i] \in 0..m
    BY <2>2, <2>7
  <2>9. ASSUME NEW i \in 1..(n + 1), NEW j \in 1..(n + 1), s[i] = s[j] PROVE i = j
    <3>1. CASE i \in 1..n /\ j \in 1..n
      BY <2>2, <2>7, <2>9, <3>1
    <3>2. CASE i \in 1..n /\ j = n + 1
      BY <2>2, <2>7, <2>9, <3>2
    <3>3. CASE i = n + 1 /\ j \in 1..n
      BY <2>2, <2>7, <2>9, <3>3
    <3>4. QED
      BY <2>7, <3>1, <3>2, <3>3
  <2>10. IsInjective(s) /\ Range(s) \subseteq 0..m
    BY <2>7, <2>8, <2>9 DEF IsInjective, Range
  <2>11. QED
    BY <2>1, <2>3, <2>5, <2>10
<1>3. ASSUME NEW f \in 1..Len(cache)
      PROVE  /\ Range(cache[f]) \subseteq Cells /\ Range(disk[f]) \subseteq Cells
             /\ Len(cache[f]) - Len(disk[f]) \in 0..MaxUnsynced
  <2>1. PICK c \in Seq(Int), d \in Seq(Int) : c = cache[f] /\ d = disk[f]
    BY <1>0, FileFacts DEF Files
  <2>2. Begins(d, c) /\ Len(c) <= Len(d) + MaxUnsynced /\ \A i \in 1..Len(c) : c[i] \in (-1)..Len(wire)
    BY <1>0, <2>1 DEF Synced, Settled, Placed, Places, Files
  <2>3. Len(c) \in Nat /\ Len(d) \in Nat /\ Len(d) <= Len(c) /\ MaxUnsynced \in Nat
        /\ \A i \in 1..Len(d) : d[i] = c[i] /\ i \in 1..Len(c)
    BY <2>2, RecoveryBounds DEF Begins
  <2>4. \A e \in (-1)..Len(wire) : e \in Cells
    BY <1>0 DEF Cells, Zeros, Torn, Entries
  <2>5. \A i \in 1..Len(c) : c[i] \in Cells
    BY <2>2, <2>4
  <2>6. \A i \in 1..Len(d) : d[i] \in Cells
    BY <2>3, <2>5
  <2>7. Range(c) \subseteq Cells /\ Range(d) \subseteq Cells
    BY <2>5, <2>6 DEF Range
  <2>8. Len(c) - Len(d) \in 0..MaxUnsynced
    BY <2>2, <2>3
  <2>9. QED
    BY <2>1, <2>7, <2>8
<1>4. Range(app) \subseteq Entries /\ Range(acked) \subseteq Entries
  BY <1>0 DEF Wired, Spelled, Entries, Range
<1>5. phase \in Phases /\ saving \in {"no", "rotated", "ready", "published"}
  BY <1>0 DEF NodeType, SaveType
<1>6. shadow \in 0..Len(wire)
  BY <1>0 DEF SaveType, Wired
<1>7. QED
  BY <1>1, <1>2, <1>3, <1>4, <1>5, <1>6 DEF TypeOK, Phases

LEMMA BaseReplay ==
  ASSUME Base
  PROVE  ReplayIsJournal
<1> SUFFICES ASSUME phase \in {"run", "drain"} PROVE app = Journal
  BY DEF ReplayIsJournal
<1>0. DirType /\ FileType /\ Shape /\ Standing(Dir.live)
  BY BaseKeeps DEF Running
<1>1. PICK x \in Files : x = Dir.live /\ Positive(cache[x]) /\ Spells(x) = app
  BY <1>0 DEF Standing
<1>2. Journal = Chain(x) /\ Chain(x) = anchor[x] \o WholeOf(cache[x])
  BY <1>0, <1>1, DirShape, JournalIs, ChainIs
<1>3. WholeOf(cache[x]) = cache[x]
  BY <1>0, <1>1, FileFacts, EndPositive
<1>4. QED
  BY <1>1, <1>2, <1>3 DEF Spells

LEMMA BaseHolds == Spec => [](Base /\ Cut)
<1>1. Init => Base /\ Cut
  BY BaseInit, CutInit
<1>2. Base /\ Cut /\ [Next]_vars => Base' /\ Cut'
  BY BaseStep, CutStep
<1>3. QED
  BY <1>1, <1>2, PTL DEF Spec

\* Whatever kills, power losses, rotations and snapshots came before, a running
\* node has applied its journal entry for entry, and no entry that an earlier
\* recovery cut off is in it (recover_inner, open_append).
THEOREM ReplayAlwaysFaithful == Spec => []ReplayFaithful
<1>1. Base /\ Cut => ReplayFaithful
  <2>1. ASSUME Base, Cut PROVE DiscardedForGood
    <3>1. ASSUME phase \in {"run", "drain"} PROVE Range(app) \cap dropped = {}
      <4>1. app \in Seq(Int) /\ \A p \in 1..Len(app) : app[p] \notin dropped
        BY <2>1, <3>1, BaseKeeps, CutKeeps DEF Applied, Up
      <4>2. QED
        BY <4>1 DEF Range
    <3>2. QED
      BY <3>1 DEF DiscardedForGood
  <2>2. QED
    BY <2>1, BaseTypeOK, BaseReplay DEF ReplayFaithful
<1>2. QED
  BY <1>1, BaseHolds, PTL

-----------------------------------------------------------------------------
(* The durable history.  Every layout that a power loss may bring back        *)
(* without an excuse holds the acknowledged entries in segments that link up, *)
(* and so does every snapshot.                                                *)

Archived(L) ==
  /\ \A j \in 1..Len(L.archives) : headed[L.archives[j]] /\ Positive(cache[L.archives[j]])
  /\ \A j \in 2..Len(L.archives) : anchor[L.archives[j]] = Spells(L.archives[j - 1])
Ended(L) ==
  L.live # NoFile =>
    /\ Len(L.archives) >= 1 => anchor[L.live] = Spells(LastArchive(L))
    /\ \A i \in 1..Len(cache[L.live]) : i + MaxUnsynced <= Len(cache[L.live]) => cache[L.live][i] > 0
    /\ Begins(acked, Spells(L.live))
Backed(L) ==
  L.live = NoFile => IF Len(L.archives) = 0 THEN acked = <<>> ELSE Begins(acked, Spells(LastArchive(L)))
Chained(L) == Archived(L) /\ Ended(L) /\ Backed(L)

Held == \A k \in 1..Len(dirs) : ~exposed \/ k = Len(dirs) => Chained(dirs[k])
Exposure ==
  ~exposed /\ Len(dirs) > 1 => phase \notin {"run", "drain"} /\ \A f \in Files : cache[f] = disk[f]
SavedHeld ==
  /\ \A j \in 1..Len(snaps) : \A s \in snaps[j] : Begins(s.chain, acked)
  /\ \A s \in taken : Begins(s.chain, acked)
Firm == Held /\ Exposure /\ SavedHeld
Solid == ~excused => Firm

LEMMA LayoutFiles ==
  ASSUME FileType, NEW L \in Named, Distinct(L)
  PROVE  /\ Len(L.archives) \in Nat /\ L.archives \in Seq(Nat) /\ L.live \in Nat
         /\ \A j \in 1..Len(L.archives) : L.archives[j] \in Files /\ L.archives[j] # L.live
         /\ L.live # NoFile => L.live \in Files
         /\ Len(L.archives) >= 1 => LastArchive(L) \in Files /\ LastArchive(L) # L.live
<1>1. Len(L.archives) \in Nat /\ L.archives \in Seq(Nat) /\ L.live \in Nat /\ Len(cache) \in Nat
  BY DEF Named, FileType
<1>2. \A j \in 1..Len(L.archives) : L.archives[j] \in Files /\ L.archives[j] # L.live
  BY DEF Distinct
<1>3. L.live # NoFile => L.live \in Files
  BY <1>1 DEF Distinct, Files, NoFile
<1>4. Len(L.archives) >= 1 => Len(L.archives) \in 1..Len(L.archives)
  BY <1>1
<1>5. QED
  BY <1>1, <1>2, <1>3, <1>4 DEF LastArchive

\* The archives of a layout say the same as long as their files do.
LEMMA ArchivedSame ==
  ASSUME FileType, NEW L \in Named, Distinct(L), Archived(L),
         \A f \in Files : anchor'[f] = anchor[f] /\ (headed[f] => headed'[f]),
         \A f \in Files : f # L.live => cache'[f] = cache[f]
  PROVE  Archived(L)'
<1>1. PICK A, n : A = L.archives /\ n = Len(L.archives)
  OBVIOUS
<1>2. n \in Nat /\ \A j \in 1..n : A[j] \in Files /\ A[j] # L.live
  BY <1>1, LayoutFiles
<1>3. \A j \in 1..n : /\ anchor'[A[j]] = anchor[A[j]] /\ cache'[A[j]] = cache[A[j]]
                      /\ headed[A[j]] => headed'[A[j]]
  BY <1>2
<1>4. \A j \in 1..n : headed'[A[j]] /\ Positive(cache'[A[j]])
  BY <1>1, <1>3 DEF Archived
<1>5. ASSUME NEW j \in 2..n PROVE anchor'[A[j]] = anchor'[A[j - 1]] \o cache'[A[j - 1]]
  <2>1. j \in 1..n /\ j - 1 \in 1..n
    BY <1>2
  <2>2. anchor[A[j]] = anchor[A[j - 1]] \o cache[A[j - 1]]
    BY <1>1, <1>5 DEF Archived, Spells
  <2>3. QED
    BY <1>3, <2>1, <2>2
<1>6. QED
  BY <1>1, <1>4, <1>5 DEF Archived, Spells

LEMMA ChainedSame ==
  ASSUME FileType, NEW L \in Named, Distinct(L), Chained(L), acked' = acked,
         \A f \in Files : anchor'[f] = anchor[f] /\ cache'[f] = cache[f] /\ (headed[f] => headed'[f])
  PROVE  Chained(L)'
<1>1. Archived(L)'
  BY ArchivedSame DEF Chained
<1>2. /\ L.live # NoFile => L.live \in Files
      /\ Len(L.archives) >= 1 => LastArchive(L) \in Files
      /\ Len(L.archives) \in Nat
  BY LayoutFiles
<1>3. PICK x, y : x = L.live /\ y = LastArchive(L)
  OBVIOUS
<1>4. y = LastArchive(L)'
  BY <1>3 DEF LastArchive
<1>5. Ended(L)'
  <2>1. ASSUME x # NoFile
        PROVE  /\ Len(L.archives) >= 1 => anchor'[x] = anchor'[y] \o cache'[y]
               /\ \A i \in 1..Len(cache'[x]) : i + MaxUnsynced <= Len(cache'[x]) => cache'[x][i] > 0
               /\ Begins(acked', anchor'[x] \o cache'[x])
    BY <1>2, <1>3, <2>1 DEF Chained, Ended, Spells
  <2>2. QED
    BY <1>3, <1>4, <2>1 DEF Ended, Spells
<1>6. Backed(L)'
  <2>1. ASSUME x = NoFile
        PROVE  IF Len(L.archives) = 0 THEN acked' = <<>> ELSE Begins(acked', anchor'[y] \o cache'[y])
    <3>1. IF Len(L.archives) = 0 THEN acked = <<>> ELSE Begins(acked, anchor[y] \o cache[y])
      BY <1>3, <2>1 DEF Chained, Backed, Spells
    <3>2. CASE Len(L.archives) = 0
      BY <3>1, <3>2
    <3>3. CASE Len(L.archives) # 0
      <4>1. y \in Files
        BY <1>2, <1>3, <3>3
      <4>2. QED
        BY <3>1, <3>3, <4>1
    <3>4. QED
      BY <3>2, <3>3
  <2>2. QED
    BY <1>3, <1>4, <2>1 DEF Backed, Spells
<1>7. QED
  BY <1>1, <1>5, <1>6 DEF Chained

LEMMA HeldStep ==
  ASSUME Base, Held, NEW L \in Named, Turns(L), Chained(L)',
         ~exposed' /\ Len(dirs') > 1 => ~exposed /\ \A M \in Named : Distinct(M) /\ Chained(M) => Chained(M)'
  PROVE  Held'
<1>0. DirType /\ Shape
  BY BaseKeeps
<1>1. /\ DirType' /\ Dir' = L
      /\ \A k \in 1..Len(dirs') : dirs'[k] = L \/ \E j \in 1..Len(dirs) : dirs'[k] = dirs[j]
  BY <1>0, TurnsEffect
<1>2. ASSUME NEW k \in 1..Len(dirs'), ~exposed' \/ k = Len(dirs'), NEW M, M = dirs'[k] PROVE Chained(M)'
  <2>1. CASE M = L
    BY <2>1
  <2>2. CASE M # L
    <3>1. k # Len(dirs')
      BY <1>1, <1>2, <2>2 DEF Dir, Last
    <3>2. Len(dirs') > 1
      BY <1>1, <1>2, <3>1 DEF DirType
    <3>3. ~exposed' /\ ~exposed
      BY <1>2, <3>1, <3>2
    <3>4. PICK j \in 1..Len(dirs) : M = dirs[j]
      BY <1>1, <1>2, <2>2
    <3>5. M \in Named /\ Distinct(M) /\ Chained(M)
      BY <1>0, <3>3, <3>4, DirFacts DEF Held, Shape
    <3>6. QED
      BY <3>2, <3>3, <3>5
  <2>3. QED
    BY <2>1, <2>2
<1>3. QED
  BY <1>2 DEF Held, Chained, Archived, Ended, Backed, Spells, LastArchive

LEMMA FirmDir ==
  ASSUME Base, Firm
  PROVE  Held /\ Exposure /\ SavedHeld /\ Chained(Dir) /\ Archived(Dir) /\ Ended(Dir) /\ Backed(Dir)
<1>1. Held /\ Exposure /\ SavedHeld
  BY DEF Firm
<1>2. Chained(Dir)
  BY <1>1, BaseKeeps, DirFacts DEF Held
<1>3. QED
  BY <1>1, <1>2 DEF Chained

LEMMA SolidInit == Init => Solid
<1> SUFFICES ASSUME Init PROVE Firm
  BY DEF Solid
<1>1. /\ dirs = <<Layout(<<>>, NoFile)>> /\ snaps = <<{}>> /\ taken = {} /\ acked = <<>>
  BY DEF Init
<1>2. PICK L : L = Layout(<<>>, NoFile)
  OBVIOUS
<1>3. Len(dirs) = 1 /\ dirs[1] = L
  BY <1>1, <1>2
<1>4. Chained(L)
  <2>1. L.archives = <<>> /\ L.live = NoFile
    BY <1>2 DEF Layout
  <2>2. QED
    BY <1>1, <2>1, NoEntries DEF Chained, Archived, Ended, Backed
<1>5. Held /\ Exposure
  BY <1>3, <1>4 DEF Held, Exposure
<1>6. SavedHeld
  BY <1>1 DEF SavedHeld
<1>7. QED
  BY <1>5, <1>6 DEF Firm

\* A history of entries that a segment's cells begin with is in what the walk
\* reads of the segment.
LEMMA WholeHolds ==
  ASSUME NEW a \in Seq(Int), NEW c \in Seq(Int), NEW s \in Seq(Int), Begins(s, a \o c), Positive(s)
  PROVE  Begins(s, a \o WholeOf(c))
<1>1. PICK w, e : w = WholeOf(c) /\ e = EndOf(c)
  OBVIOUS
<1>2. /\ w \in Seq(Int) /\ Len(w) = e /\ e \in 0..Len(c) /\ (\A i \in 1..e : w[i] = c[i])
      /\ \A n \in 0..Len(c) : (\A i \in 1..n : c[i] > 0) => n <= e
  BY <1>1, WholeFacts, EndFacts
<1>3. PICK p \in Nat, m \in Nat, q \in Nat : p = Len(a) /\ m = Len(s) /\ q = Len(c)
  OBVIOUS
<1>4. PICK h, g : h = a \o c /\ g = a \o w
  OBVIOUS
<1>5. /\ Len(h) = p + q /\ \A i \in 1..p : h[i] = a[i]
      /\ \A i \in 1..q : h[p + i] = c[i]
  BY <1>3, <1>4, ConcatFacts
<1>6. /\ Len(g) = p + e /\ \A i \in 1..p : g[i] = a[i]
      /\ \A i \in 1..e : g[p + i] = w[i]
  <2>1. /\ Len(g) = Len(a) + Len(w) /\ \A i \in 1..Len(a) : g[i] = a[i]
        /\ \A i \in 1..Len(w) : g[Len(a) + i] = w[i]
    BY <1>2, <1>4, ConcatFacts, Zenon
  <2>2. QED
    BY <1>2, <1>3, <2>1, Zenon
<1>7. m <= p + q /\ \A i \in 1..m : s[i] = h[i] /\ s[i] > 0
  BY <1>3, <1>4, <1>5 DEF Begins, Positive
<1>8. e \in Nat
  BY <1>2, <1>3
<1>9. m <= p + e
  <2>1. CASE m <= p
    BY <1>3, <1>8, <2>1
  <2>2. CASE m > p
    <3>0. m <= p + q
      BY <1>7
    <3>1. PICK n \in Nat : n = m - p /\ n <= q
      BY <2>2, <3>0
    <3>2. ASSUME NEW i \in 1..n PROVE c[i] > 0
      <4>1. p + i \in 1..m /\ i \in 1..q
        BY <1>3, <3>1
      <4>2. QED
        BY <1>5, <1>7, <4>1
    <3>3. n \in 0..q
      BY <1>3, <3>1
    <3>4. n <= e
      BY <1>2, <1>3, <3>2, <3>3
    <3>5. QED
      BY <1>3, <1>8, <3>1, <3>4
  <2>3. QED
    BY <1>3, <2>1, <2>2
<1>10. ASSUME NEW i \in 1..m PROVE s[i] = g[i]
  <2>1. CASE i \in 1..p
    BY <1>5, <1>6, <1>7, <2>1
  <2>2. CASE i \notin 1..p
    <3>1. PICK j \in 1..e : i = p + j /\ j \in 1..q
      <4>1. i - p \in 1..e /\ i = p + (i - p) /\ i - p \in 1..q
        BY <1>2, <1>3, <1>8, <1>9, <2>2
      <4>2. QED
        BY <4>1
    <3>2. h[i] = c[j] /\ g[i] = w[j] /\ w[j] = c[j]
      BY <1>2, <1>5, <1>6, <3>1
    <3>3. QED
      BY <1>7, <3>2
  <2>3. QED
    BY <2>1, <2>2
<1>11. Begins(s, g)
  BY <1>3, <1>6, <1>9, <1>10 DEF Begins
<1>12. QED
  BY <1>1, <1>4, <1>11

LEMMA AckedInJournal ==
  ASSUME Base, Chained(Dir), Segments # <<>>
  PROVE  Begins(acked, Journal) /\ Journal \in Seq(Int)
<1>0. /\ Types /\ DirType /\ FileType /\ Wired /\ Placed /\ Dir \in Named /\ Distinct(Dir) /\ acked \in Seq(Int)
      /\ Len(acked) \in Nat /\ Len(wire) \in Nat
  BY BaseKeeps
<1>1. Positive(acked)
  <2>1. \A i \in 1..Len(acked) : acked[i] \in 1..Len(wire)
    BY <1>0 DEF Wired, Spelled
  <2>2. \A e \in 1..Len(wire) : e > 0
    BY <1>0
  <2>3. QED
    BY <2>1, <2>2 DEF Positive
<1>2. PICK f \in Files : Journal = Chain(f) /\ Begins(acked, Spells(f))
  <2>1. CASE Dir.live # NoFile
    BY <1>0, <2>1, LayoutFiles, JournalIs DEF Chained, Ended
  <2>2. CASE Dir.live = NoFile
    <3>1. Len(Dir.archives) \in Nat /\ Len(Dir.archives) # 0
      BY <1>0, <2>2, LayoutFiles, JournalIs
    <3>2. Len(Dir.archives) >= 1
      BY <3>1
    <3>3. QED
      BY <1>0, <2>2, <3>1, <3>2, LayoutFiles, JournalIs DEF Chained, Backed, LastArchive
  <2>3. QED
    BY <2>1, <2>2
<1>3. PICK a \in Seq(Int), c \in Seq(Int) : a = anchor[f] /\ c = cache[f]
  BY <1>0, FileFacts
<1>4. Begins(acked, a \o WholeOf(c))
  BY <1>0, <1>1, <1>2, <1>3, WholeHolds DEF Spells
<1>5. QED
  BY <1>0, <1>2, <1>3, <1>4, ChainIs, ChainSpelled

\* A journal that holds the durable history is accepted, once its live segment
\* has its header.
LEMMA SolidAccepts ==
  ASSUME Base, Chained(Dir), SavedHeld, Segments # <<>>, Dir.live # NoFile => headed[Dir.live]
  PROVE  Accepts
<1>0. /\ Types /\ DirType /\ FileType /\ Wired /\ Placed /\ Dir \in Named /\ Distinct(Dir) /\ Rooted(Dir)
      /\ acked \in Seq(Int) /\ Archived(Dir) /\ Ended(Dir) /\ MaxUnsynced \in Nat
  BY BaseKeeps, RecoveryBounds DEF Chained
<1>1. PICK A, n, x : A = Dir.archives /\ n = Len(Dir.archives) /\ x = Dir.live
  OBVIOUS
<1>2. /\ n \in Nat /\ (\A j \in 1..n : A[j] \in Files /\ A[j] # x) /\ (x # 0 => x \in Files)
      /\ (n >= 1 => anchor[A[1]] = <<>>) /\ (n = 0 /\ x # 0 => anchor[x] = <<>>)
  BY <1>0, <1>1, LayoutFiles DEF Rooted, NoFile
<1>3. /\ \A j \in 1..n : headed[A[j]] /\ Positive(cache[A[j]])
      /\ \A j \in 2..n : anchor[A[j]] = Spells(A[j - 1])
      /\ x # 0 /\ n >= 1 => anchor[x] = Spells(A[n])
      /\ x # 0 => /\ headed[x]
                  /\ \A i \in 1..Len(cache[x]) : i + MaxUnsynced <= Len(cache[x]) => cache[x][i] > 0
  BY <1>0, <1>1 DEF Archived, Ended, LastArchive, NoFile
<1>4. \A j \in 1..n : EndOf(cache[A[j]]) = Len(cache[A[j]]) /\ Chain(A[j]) = Spells(A[j])
  <2>1. ASSUME NEW j \in 1..n PROVE EndOf(cache[A[j]]) = Len(cache[A[j]]) /\ Chain(A[j]) = Spells(A[j])
    <3>1. cache[A[j]] \in Seq(Int) /\ Positive(cache[A[j]])
      BY <1>0, <1>2, <1>3, FileFacts
    <3>2. EndOf(cache[A[j]]) = Len(cache[A[j]]) /\ WholeOf(cache[A[j]]) = cache[A[j]]
      BY <3>1, EndPositive
    <3>3. QED
      BY <3>2, ChainIs DEF Spells
  <2>2. QED
    BY <2>1
<1>5. ASSUME NEW f \in Files PROVE InSequence(f)
  <2>1. PICK c \in Seq(Int) : c = cache[f]
    BY <1>0, FileFacts
  <2>2. ValidEnd(f) = EndOf(c) /\ EndOf(c) \in 0..Len(c) /\ \A i \in 1..EndOf(c) : c[i] > 0
    BY <2>1, EndFacts DEF ValidEnd, EndOf
  <2>3. \A i \in 1..EndOf(c) : i \in 1..Len(c)
    BY <2>2
  <2>4. \A i \in 1..Len(c) : c[i] > 0 => wire[c[i]] = Len(anchor[f]) + i
    BY <1>0, <2>1 DEF Placed, Places
  <2>5. \A i \in 1..EndOf(c) : wire[c[i]] = Len(anchor[f]) + i
    BY <2>2, <2>3, <2>4
  <2>6. QED
    BY <2>1, <2>2, <2>5 DEF InSequence
<1>6. ASSUME NEW j \in 1..n PROVE Readable(A[j], FALSE)
  <2>1. PICK c \in Seq(Int) : c = cache[A[j]]
    BY <1>0, <1>2, FileFacts
  <2>2. TailReach(A[j], FALSE) = Len(c) + 0
    BY <1>4, <2>1 DEF TailReach, ValidEnd, EndOf
  <2>3. \A i \in 1..Len(c) : ~(i > Len(c) + 0)
    <3>1. PICK m \in Nat : m = Len(c)
      OBVIOUS
    <3>2. \A i \in 1..m : ~(i > m + 0)
      BY <3>1
    <3>3. QED
      BY <3>1, <3>2
  <2>4. QED
    BY <1>2, <1>3, <1>5, <2>1, <2>2, <2>3, Zenon DEF Readable
<1>7. ASSUME x # 0 PROVE Readable(x, TRUE)
  <2>1. PICK c \in Seq(Int) : c = cache[x]
    BY <1>0, <1>2, <1>7, FileFacts
  <2>2. PICK e, m \in Nat : e = EndOf(c) /\ m = Len(c)
    <3>1. EndOf(c) \in Nat /\ Len(c) \in Nat
      BY EndFacts
    <3>2. QED
      BY <3>1
  <2>3. /\ \A i \in 1..e : c[i] > 0
        /\ \A k \in 0..m : (\A i \in 1..k : c[i] > 0) => k <= e
    BY <2>2, EndFacts
  <2>4. TailReach(x, TRUE) = e + MaxUnsynced
    BY <2>1, <2>2 DEF TailReach, ValidEnd, EndOf
  <2>5. ASSUME NEW i \in 1..m PROVE ~(i > e + MaxUnsynced)
    <3> SUFFICES ASSUME i > e + MaxUnsynced PROVE FALSE
      OBVIOUS
    <3>1. e + 1 \in 1..m /\ e + 1 + MaxUnsynced <= m
      BY <1>0, <2>2
    <3>2. c[e + 1] > 0
      BY <1>3, <1>7, <2>1, <2>2, <3>1
    <3>3. \A k \in 1..(e + 1) : k \in 1..e \/ k = e + 1
      BY <2>2
    <3>4. \A k \in 1..(e + 1) : c[k] > 0
      BY <2>3, <3>2, <3>3
    <3>5. e + 1 \in 0..m
      BY <3>1
    <3>6. e + 1 <= e
      BY <2>3, <3>4, <3>5
    <3>7. QED
      BY <2>2, <3>6
  <2>6. QED
    BY <1>2, <1>3, <1>5, <1>7, <2>1, <2>2, <2>4, <2>5, Zenon DEF Readable
<1>8. /\ \A k \in 1..Len(Segments) : (k \in 1..n /\ Segments[k] = A[k]) \/ (k = n + 1 /\ Segments[k] = x /\ x # 0)
      /\ Len(Segments) \in Nat /\ Len(Segments) >= 1
  <2>1. Segments \in Seq(Nat) /\ Len(Segments) # 0 /\ Len(Segments) \in Nat
    BY <1>0, SegmentsAre
  <2>2. CASE x = 0
    <3>1. Segments = A
      BY <1>0, <1>1, <2>2, SegmentsAre DEF NoFile
    <3>2. QED
      BY <1>1, <2>1, <3>1
  <2>3. CASE x # 0
    <3>1. /\ Len(Segments) = n + 1 /\ (\A i \in 1..n : Segments[i] = A[i]) /\ Segments[n + 1] = x
      BY <1>0, <1>1, <2>3, SegmentsAre DEF NoFile
    <3>2. \A k \in 1..(n + 1) : k \in 1..n \/ k = n + 1
      BY <1>2
    <3>3. QED
      BY <2>1, <2>3, <3>1, <3>2
  <2>4. QED
    BY <2>2, <2>3
<1>9. \A k \in 1..Len(Segments) : Readable(Segments[k], Segments[k] = Dir.live)
  <2>1. ASSUME NEW k \in 1..Len(Segments) PROVE Readable(Segments[k], Segments[k] = Dir.live)
    <3>1. CASE k \in 1..n /\ Segments[k] = A[k]
      <4>1. (Segments[k] = Dir.live) = FALSE
        BY <1>1, <1>2, <3>1
      <4>2. Readable(Segments[k], FALSE)
        BY <1>6, <3>1
      <4>3. QED
        BY <4>1, <4>2
    <3>2. CASE k = n + 1 /\ Segments[k] = x /\ x # 0
      <4>1. (Segments[k] = Dir.live) = TRUE
        BY <1>1, <3>2
      <4>2. Readable(Segments[k], TRUE)
        BY <1>7, <3>2
      <4>3. QED
        BY <4>1, <4>2
    <3>3. QED
      BY <1>8, <3>1, <3>2
  <2>2. QED
    BY <2>1
<1>10. anchor[Segments[1]] = <<>>
  <2>1. 1 \in 1..Len(Segments)
    BY <1>8
  <2>2. CASE 1 \in 1..n /\ Segments[1] = A[1]
    <3>1. n >= 1
      BY <1>2, <2>2
    <3>2. QED
      BY <1>2, <2>2, <3>1
  <2>3. CASE 1 = n + 1 /\ Segments[1] = x /\ x # 0
    <3>1. n = 0
      BY <1>2, <2>3
    <3>2. QED
      BY <1>2, <2>3, <3>1
  <2>4. QED
    BY <1>8, <2>1, <2>2, <2>3
<1>11. ASSUME NEW k \in 2..Len(Segments) PROVE anchor[Segments[k]] = Chain(Segments[k - 1])
  <2>1. k \in 1..Len(Segments) /\ k - 1 \in 1..Len(Segments) /\ k >= 2
    BY <1>8
  <2>2. k - 1 \in 1..n /\ Segments[k - 1] = A[k - 1]
    <3>1. k - 1 = n + 1 => k \notin 1..n /\ k # n + 1
      BY <1>2, <2>1
    <3>2. QED
      BY <1>8, <2>1, <3>1
  <2>3. Chain(A[k - 1]) = Spells(A[k - 1])
    BY <1>4, <2>2
  <2>4. CASE k \in 1..n /\ Segments[k] = A[k]
    <3>1. k \in 2..n
      BY <1>2, <2>1, <2>4
    <3>2. QED
      BY <1>3, <2>2, <2>3, <2>4, <3>1
  <2>5. CASE k = n + 1 /\ Segments[k] = x /\ x # 0
    <3>1. n >= 1 /\ k - 1 = n
      BY <1>2, <2>1, <2>5
    <3>2. QED
      BY <1>3, <2>2, <2>3, <2>5, <3>1
  <2>6. QED
    BY <1>8, <2>1, <2>4, <2>5
<1>12. Linked
  <2>1. ASSUME NEW s \in Snapshot PROVE 0 <= Len(s.chain)
    BY <1>0, SnapshotFacts
  <2>2. QED
    BY <1>10, <1>11, <2>1, NoEntries DEF Linked
<1>13. Anchored
  <2>1. ASSUME NEW s \in Snapshot PROVE IsPrefix(s.chain, Journal)
    <3>1. PICK h \in Seq(Int) : h = s.chain /\ Begins(h, acked)
      BY <1>0, SnapshotFacts DEF SavedHeld
    <3>2. Begins(acked, Journal) /\ Journal \in Seq(Int)
      BY AckedInJournal
    <3>3. Begins(h, Journal)
      BY <1>0, <3>1, <3>2, BeginsTransitive
    <3>4. QED
      BY <3>1, <3>2, <3>3, PrefixIsBegins
  <2>2. QED
    BY <2>1 DEF Anchored
<1>14. QED
  BY <1>9, <1>12, <1>13 DEF Accepts

\* Steps that leave the files and the acknowledged history alone.
LEMMA QuietFirm ==
  ASSUME Base, Firm, anchor' = anchor, headed' = headed, cache' = cache, disk' = disk, acked' = acked,
         exposed' = exposed, dirs' \in {dirs, <<Dir>>},
         dirs' = dirs /\ phase' \in {"run", "drain"} => phase \in {"run", "drain"}
  PROVE  Held' /\ Exposure'
<1>0. Held /\ Exposure /\ Chained(Dir) /\ FileType /\ DirType /\ Dir \in Named /\ Distinct(Dir)
  BY FirmDir, BaseKeeps
<1>1. PICK L \in Named : L = Dir
  BY <1>0
<1>2. Turns(L)
  BY <1>1 DEF Turns
<1>3. \A M \in Named : Distinct(M) /\ Chained(M) => Chained(M)'
  BY <1>0, ChainedSame
<1>4. Held'
  BY <1>0, <1>1, <1>2, <1>3, HeldStep
<1>5. Exposure'
  <2>1. CASE dirs' = dirs
    BY <1>0, <2>1 DEF Exposure, Files
  <2>2. CASE dirs' = <<Dir>>
    <3>1. Len(dirs') = 1
      BY <2>2
    <3>2. QED
      BY <3>1 DEF Exposure
  <2>3. QED
    BY <2>1, <2>2
<1>6. QED
  BY <1>4, <1>5

LEMMA ShadowFirm ==
  ASSUME Base, Firm, Shadow
  PROVE  Firm'
<1>0. /\ Types /\ SaveType /\ Saved /\ SavedHeld /\ acked \in Seq(Int)
  BY BaseKeeps, FirmDir
<1>1. /\ anchor' = anchor /\ headed' = headed /\ cache' = cache /\ disk' = disk /\ acked' = acked
      /\ exposed' = exposed /\ dirs' = dirs /\ phase' = phase
  BY DEF Shadow, ShadowConsume, StartSave, SyncRotated, Publish, SyncPublished, directory, files, history, save
<1>2. Held' /\ Exposure'
  BY <1>1, QuietFirm
<1>3. \E S \in SUBSET Saves : /\ \A s \in S : s.app = s.chain /\ Begins(s.chain, acked)
                              /\ snaps' \in {snaps, <<S>>, Append(snaps, S)}
  <2>0. /\ Snapshot \in SUBSET Saves /\ (\A s \in Snapshot : s.app = s.chain /\ Begins(s.chain, acked))
        /\ taken \in SUBSET Saves /\ (\A s \in taken : s.app = s.chain /\ Begins(s.chain, acked))
    BY <1>0, SnapshotFacts DEF Saved, SaveType, SavedHeld
  <2>1. \/ snaps' = snaps
        \/ snaps' = Append(snaps, {})
        \/ snaps' = <<Snapshot>>
        \/ snaps' = Append(snaps, taken)
    BY DEF Shadow, ShadowConsume, StartSave, SyncRotated, Publish, SyncPublished, directory
  <2>2. QED
    BY <2>0, <2>1
<1>4. \A j \in 1..Len(snaps') : \A s \in snaps'[j] : Begins(s.chain, acked)
  <2>1. PICK S \in SUBSET Saves : /\ \A s \in S : s.app = s.chain /\ Begins(s.chain, acked)
                                  /\ snaps' \in {snaps, <<S>>, Append(snaps, S)}
    BY <1>3
  <2>2. \A j \in 1..Len(snaps') : snaps'[j] = S \/ \E i \in 1..Len(snaps) : snaps'[j] = snaps[i]
    BY <1>0, <2>1, SnapsAppend
  <2>3. QED
    BY <1>0, <2>1, <2>2 DEF SavedHeld
<1>5. \A s \in taken' : Begins(s.chain, acked)
  <2>1. CASE StartSave
    <3>1. \A s \in taken' : s.chain = acked
      BY <2>1 DEF StartSave
    <3>2. QED
      BY <1>0, <3>1, BeginsConcat
  <2>2. CASE ~StartSave
    <3>1. taken' = taken \/ taken' = {}
      BY <2>2 DEF Shadow, ShadowConsume, SyncRotated, Publish, SyncPublished, save
    <3>2. QED
      BY <1>0, <3>1 DEF SavedHeld
  <2>3. QED
    BY <2>1, <2>2
<1>6. QED
  BY <1>1, <1>2, <1>4, <1>5 DEF Firm, SavedHeld

LEMMA RestFirm ==
  ASSUME Base, Firm, Kill \/ Refuse \/ SyncGenesis \/ UNCHANGED vars
  PROVE  Firm'
<1>1. /\ anchor' = anchor /\ headed' = headed /\ cache' = cache /\ disk' = disk /\ acked' = acked
      /\ exposed' = exposed /\ dirs' \in {dirs, <<Dir>>} /\ snaps' = snaps /\ taken' \in {taken, {}}
      /\ (phase' \in {"run", "drain"} => phase \in {"run", "drain"})
  BY DEF Kill, Forget, Refuse, SyncGenesis, vars, directory, files, history, follower, save
<1>2. Held' /\ Exposure'
  BY <1>1, QuietFirm
<1>3. SavedHeld'
  BY <1>1, FirmDir DEF SavedHeld
<1>4. QED
  BY <1>2, <1>3 DEF Firm

LEMMA ArchiveFirm ==
  ASSUME Base, Firm, ArchiveLive
  PROVE  Firm'
<1>0. /\ Held /\ Exposure /\ SavedHeld /\ Chained(Dir) /\ Archived(Dir) /\ Ended(Dir) /\ FileType /\ DirType
      /\ Dir \in Named /\ Distinct(Dir) /\ Running /\ Synced
  BY FirmDir, BaseKeeps
<1>1. /\ anchor' = anchor /\ headed' = headed /\ cache' = cache /\ disk' = disk /\ acked' = acked /\ phase = "run"
      /\ exposed' = exposed /\ snaps' = snaps /\ taken' = taken /\ phase' = "archived"
      /\ dirs' = Append(dirs, Layout(Append(Dir.archives, Dir.live), NoFile))
  BY DEF ArchiveLive, Drained, files, history, follower, save
<1>2. PICK x \in Files : x = Dir.live /\ Standing(x)
  BY <1>0, <1>1 DEF Running, Standing
<1>3. PICK L \in Named : /\ L = Layout(Append(Dir.archives, Dir.live), NoFile) /\ L.live = NoFile
                         /\ LastArchive(L) = Dir.live /\ Len(L.archives) = Len(Dir.archives) + 1
                         /\ \A i \in 1..Len(Dir.archives) : L.archives[i] = Dir.archives[i]
                         /\ Distinct(L)
  BY <1>2, ArchivedLayout
<1>4. Turns(L)
  BY <1>1, <1>3 DEF Turns
<1>5. PICK A, n, B : A = Dir.archives /\ n = Len(Dir.archives) /\ B = L.archives
  OBVIOUS
<1>6. /\ n \in Nat /\ Len(B) = n + 1 /\ B[n + 1] = x /\ \A i \in 1..n : B[i] = A[i]
  <2>1. Len(B) = n + 1 /\ \A i \in 1..n : B[i] = A[i]
    BY <1>3, <1>5
  <2>2. B[Len(B)] = x
    BY <1>2, <1>3, <1>5 DEF LastArchive
  <2>3. QED
    BY <1>5, <2>1, <2>2, DirIs
<1>7. Archived(L)
  <2>1. \A i \in 1..(n + 1) : i \in 1..n \/ i = n + 1
    BY <1>6
  <2>2. \A j \in 1..(n + 1) : headed[B[j]] /\ Positive(cache[B[j]])
    BY <1>0, <1>2, <1>5, <1>6, <2>1 DEF Archived, Standing
  <2>3. ASSUME NEW j \in 2..(n + 1) PROVE anchor[B[j]] = Spells(B[j - 1])
    <3>1. CASE j = n + 1
      <4>1. n \in 1..n /\ j - 1 = n /\ n >= 1
        BY <1>6, <2>3, <3>1
      <4>2. anchor[x] = Spells(A[n])
        BY <1>0, <1>2, <1>5, <4>1, LayoutFiles DEF Ended, LastArchive, Standing, Files, NoFile
      <4>3. QED
        BY <1>6, <3>1, <4>1, <4>2
    <3>2. CASE j # n + 1
      <4>1. j \in 1..n /\ j - 1 \in 1..n /\ j \in 2..n
        BY <1>6, <2>3, <3>2
      <4>2. QED
        BY <1>0, <1>5, <1>6, <4>1 DEF Archived
    <3>3. QED
      BY <3>1, <3>2
  <2>4. QED
    BY <1>5, <1>6, <2>2, <2>3 DEF Archived
<1>8. Chained(L)
  <2>1. Begins(acked, Spells(x))
    <3>1. x # NoFile
      BY <1>0, FileFacts DEF Files, NoFile
    <3>2. QED
      BY <1>0, <1>2, <3>1 DEF Ended
  <2>2. Len(L.archives) # 0 /\ LastArchive(L) = x
    BY <1>2, <1>3, <1>5, <1>6
  <2>3. QED
    BY <1>3, <1>7, <2>1, <2>2 DEF Chained, Ended, Backed
<1>9. \A M \in Named : Distinct(M) /\ Chained(M) => Chained(M)'
  BY <1>0, <1>1, ChainedSame
<1>10. Held'
  BY <1>0, <1>1, <1>3, <1>4, <1>8, <1>9, HeldStep
<1>11. Exposure'
  <2>1. \A f \in Files : cache[f] = disk[f]
    BY <1>0, <1>1, AllSynced
  <2>2. QED
    BY <1>1, <2>1 DEF Exposure, Files
<1>12. SavedHeld'
  BY <1>0, <1>1 DEF SavedHeld
<1>13. QED
  BY <1>10, <1>11, <1>12 DEF Firm

\* A new live segment that continues the last archive.
LEMMA AddFirm ==
  ASSUME Base, Firm, NEW h \in Seq(Int), NEW c \in Seq(Int), NEW b \in BOOLEAN, AddFile(h, c, b),
         dirs' = Append(dirs, Layout(Dir.archives, NewFile)), Dir.live = NoFile, Positive(c),
         Len(Dir.archives) >= 1 => h = Spells(LastArchive(Dir)), Begins(acked, h \o c),
         acked' = acked, exposed' = exposed, phase' \notin {"run", "drain"}, snaps' = snaps, taken' = taken
  PROVE  Firm'
<1>0. /\ Held /\ Exposure /\ SavedHeld /\ Chained(Dir) /\ Archived(Dir) /\ FileType /\ DirType
      /\ Dir \in Named /\ Distinct(Dir) /\ Synced
  BY FirmDir, BaseKeeps
<1>1. PICK m, g : m = Len(cache) /\ g = NewFile
  OBVIOUS
<1>2. /\ m \in Nat /\ Len(cache') = m + 1 /\ g = m + 1 /\ g # 0
      /\ anchor'[g] = h /\ cache'[g] = c /\ disk'[g] = c
      /\ \A f \in Files : /\ anchor'[f] = anchor[f] /\ headed'[f] = headed[f]
                          /\ cache'[f] = cache[f] /\ disk'[f] = disk[f]
  <2>1. /\ Len(cache') = m + 1 /\ g = m + 1 /\ m \in Nat
        /\ anchor'[g] = h /\ cache'[g] = c /\ disk'[g] = c
        /\ \A f \in Files : /\ anchor'[f] = anchor[f] /\ headed'[f] = headed[f]
                            /\ cache'[f] = cache[f] /\ disk'[f] = disk[f]
    BY <1>0, <1>1, AddEffect
  <2>2. QED
    BY <2>1
<1>3. PICK L \in Named : L = Layout(Dir.archives, g) /\ L.live = g /\ L.archives = Dir.archives
  <2>1. g \in Nat /\ Dir.archives \in Seq(Nat)
    BY <1>2, DirIs
  <2>2. QED
    BY <2>1, LayoutIs
<1>4. Turns(L)
  BY <1>1, <1>3 DEF Turns
<1>5. \A M \in Named : Distinct(M) /\ Chained(M) => Chained(M)'
  BY <1>0, <1>2, ChainedSame
<1>6. Archived(L)'
  <2>1. PICK K \in Named : K = Dir
    BY <1>0
  <2>2. Distinct(K) /\ Archived(K)
    BY <1>0, <2>1
  <2>3. Archived(K)'
    BY <1>0, <1>2, <2>2, ArchivedSame
  <2>4. QED
    BY <1>3, <2>1, <2>3 DEF Archived, Spells
<1>7. Ended(L)' /\ Backed(L)'
  <2>1. PICK y : y = LastArchive(Dir)
    OBVIOUS
  <2>2. Len(L.archives) >= 1 => h = anchor'[y] \o cache'[y]
    <3>1. ASSUME Len(Dir.archives) >= 1 PROVE h = anchor'[y] \o cache'[y]
      <4>1. y \in Files
        BY <1>0, <2>1, <3>1, LayoutFiles
      <4>2. QED
        BY <1>2, <2>1, <3>1, <4>1 DEF Spells
    <3>2. QED
      BY <1>3, <3>1
  <2>3. y = LastArchive(L)'
    BY <1>3, <2>1 DEF LastArchive
  <2>4. \A i \in 1..Len(c) : c[i] > 0
    BY DEF Positive
  <2>5. QED
    BY <1>2, <1>3, <2>2, <2>3, <2>4 DEF Ended, Backed, Spells, NoFile
<1>8. Held'
  BY <1>0, <1>3, <1>4, <1>5, <1>6, <1>7, HeldStep DEF Chained
<1>9. Exposure'
  <2>1. ASSUME NEW f \in 1..(m + 1) PROVE cache'[f] = disk'[f]
    <3>1. CASE f = g
      BY <1>2, <3>1
    <3>2. CASE f # g
      <4>1. f \in Files /\ f # Dir.live
        BY <1>1, <1>2, <3>2 DEF Files, NoFile
      <4>2. QED
        BY <1>0, <1>2, <4>1, OthersSynced
    <3>3. QED
      BY <3>1, <3>2
  <2>2. QED
    BY <1>2, <2>1 DEF Exposure, Files
<1>10. SavedHeld'
  BY <1>0 DEF SavedHeld
<1>11. QED
  BY <1>8, <1>9, <1>10 DEF Firm

LEMMA WriteGenesisFirm ==
  ASSUME Base, Firm, WriteGenesis
  PROVE  Firm'
<1>0. DirType /\ Backed(Dir) /\ Len(wire) \in Nat /\ Genesis \in Nat /\ acked \in Seq(Int)
  BY BaseKeeps, FirmDir, RecoveryBounds
<1>1. Dir.live = NoFile /\ Len(Dir.archives) = 0 /\ Dir.archives = <<>>
  <2>1. Dir.live = NoFile /\ Len(Dir.archives) = 0
    BY <1>0, JournalIs DEF WriteGenesis, Fresh
  <2>2. QED
    BY <2>1, DirIs
<1> DEFINE ids == [i \in 1..Genesis |-> Len(wire) + i]
<1>2. ids \in Seq(Int) /\ Len(ids) = Genesis /\ \A i \in 1..Genesis : ids[i] = Len(wire) + i
  BY <1>0, Numbers
<1>3. /\ AddFile(<<>>, ids, TRUE) /\ dirs' = Append(dirs, Layout(<<>>, NewFile)) /\ phase' = "genesis"
      /\ acked' = acked /\ exposed' = exposed /\ snaps' = snaps /\ taken' = taken
  BY DEF WriteGenesis, history, follower, save
<1>4. PICK c \in Seq(Int), h \in Seq(Int) : c = ids /\ h = <<>>
  BY <1>2, NoEntries
<1> HIDE DEF ids
<1>5. Positive(c)
  BY <1>0, <1>2, <1>4 DEF Positive
<1>6. Begins(acked, h \o c)
  <2>1. acked = <<>>
    BY <1>0, <1>1 DEF Backed
  <2>2. Len(h \o c) \in Nat
    BY ConcatFacts
  <2>3. QED
    BY <2>1, <2>2, NoEntries DEF Begins
<1>7. AddFile(h, c, TRUE) /\ dirs' = Append(dirs, Layout(Dir.archives, NewFile))
  BY <1>1, <1>3, <1>4
<1>8. phase' \notin {"run", "drain"} /\ ~(Len(Dir.archives) >= 1)
  BY <1>1, <1>3
<1>9. QED
  BY <1>1, <1>3, <1>5, <1>6, <1>7, <1>8, AddFirm

LEMMA InstallFirm ==
  ASSUME Base, Firm, phase = "archived", NEW b \in BOOLEAN, AddFile(app, <<>>, b),
         dirs' = Append(dirs, Layout(Dir.archives, NewFile)), acked' = acked, exposed' = exposed,
         phase' \notin {"run", "drain"}, snaps' = snaps, taken' = taken
  PROVE  Firm'
<1>0. /\ app \in Seq(Int) /\ Dir.live = NoFile /\ Standing(LastArchive(Dir)) /\ acked = app
  BY BaseKeeps DEF Running
<1>1. PICK c \in Seq(Int), h \in Seq(Int) : c = <<>> /\ h = app
  BY <1>0, NoEntries
<1>2. Positive(c)
  BY <1>1, NoEntries DEF Positive
<1>3. AddFile(h, c, b) /\ h = Spells(LastArchive(Dir))
  BY <1>0, <1>1 DEF Standing
<1>4. Begins(acked, h \o c)
  BY <1>0, <1>1, BeginsConcat
<1>5. QED
  BY <1>0, <1>2, <1>3, <1>4, AddFirm

LEMMA InstallPreparedFirm ==
  ASSUME Base, Firm, InstallPrepared
  PROVE  Firm'
<1>1. /\ phase = "archived" /\ AddFile(app, <<>>, TRUE) /\ dirs' = Append(dirs, Layout(Dir.archives, NewFile))
      /\ phase' = "installed" /\ acked' = acked /\ exposed' = exposed /\ snaps' = snaps /\ taken' = taken
  BY DEF InstallPrepared, history, follower, save
<1>2. QED
  BY <1>1, InstallFirm

LEMMA HeadSame ==
  ASSUME Base, Dir.live \in Files, headed' = [headed EXCEPT ![Dir.live] = TRUE],
         anchor' = anchor, cache' = cache, disk' = disk, wire' = wire
  PROVE  \A f \in Files : headed[f] => headed'[f]
<1>1. headed'[Dir.live] = TRUE /\ \A f \in Files : f # Dir.live => headed'[f] = headed[f]
  BY HeadEffect
<1>2. ASSUME NEW f \in Files, headed[f] PROVE headed'[f]
  <2>1. CASE f = Dir.live
    BY <1>1, <2>1
  <2>2. CASE f # Dir.live
    BY <1>1, <1>2, <2>2
  <2>3. QED
    BY <2>1, <2>2
<1>3. QED
  BY <1>2

LEMMA InstallFreshFirm ==
  ASSUME Base, Firm, InstallFresh
  PROVE  Firm'
<1>0. /\ Held /\ Exposure /\ SavedHeld /\ Chained(Dir) /\ FileType /\ DirType /\ Dir \in Named
      /\ Distinct(Dir) /\ Synced /\ Running
  BY FirmDir, BaseKeeps
<1>1. CASE phase = "archived"
  <2>1. /\ AddFile(app, <<>>, FALSE) /\ dirs' = Append(dirs, Layout(Dir.archives, NewFile))
        /\ phase' = "created" /\ acked' = acked /\ exposed' = exposed /\ snaps' = snaps /\ taken' = taken
    BY <1>1 DEF InstallFresh, history, follower, save
  <2>2. QED
    BY <1>1, <2>1, InstallFirm
<1>2. CASE phase # "archived"
  <2>1. /\ phase = "created" /\ headed' = [headed EXCEPT ![Dir.live] = TRUE] /\ phase' = "installed"
        /\ dirs' = dirs /\ snaps' = snaps /\ anchor' = anchor /\ cache' = cache /\ disk' = disk /\ wire' = wire
        /\ acked' = acked /\ exposed' = exposed /\ taken' = taken
    BY <1>2 DEF InstallFresh, directory, follower, save, history
  <2>2. Dir.live \in Files
    BY <1>0, <2>1 DEF Running, Opened
  <2>3. \A f \in Files : headed[f] => headed'[f]
    BY <2>1, <2>2, HeadSame
  <2>4. PICK L \in Named : L = Dir
    BY <1>0
  <2>5. Turns(L) /\ Distinct(L) /\ Chained(L)
    BY <1>0, <2>1, <2>4 DEF Turns
  <2>6. \A M \in Named : Distinct(M) /\ Chained(M) => Chained(M)'
    BY <1>0, <2>1, <2>3, ChainedSame
  <2>7. Held'
    BY <1>0, <2>1, <2>5, <2>6, HeldStep
  <2>8. Exposure' /\ SavedHeld'
    BY <1>0, <2>1 DEF Exposure, SavedHeld, Files
  <2>9. QED
    BY <2>7, <2>8 DEF Firm
<1>3. QED
  BY <1>1, <1>2

LEMMA SynthesizeFirm ==
  ASSUME Base, Firm, SynthesizeLive
  PROVE  Firm'
<1>0. /\ Types /\ DirType /\ FileType /\ Archived(Dir) /\ Backed(Dir) /\ Dir \in Named /\ Distinct(Dir)
  BY BaseKeeps, FirmDir
<1>1. /\ AddFile(Journal, <<>>, FALSE) /\ dirs' = Append(dirs, Layout(Dir.archives, NewFile))
      /\ phase' = "synthesizing" /\ Dir.live = NoFile /\ Dir.archives # <<>>
      /\ acked' = acked /\ exposed' = exposed /\ snaps' = snaps /\ taken' = taken
  BY DEF SynthesizeLive, history, follower, save
<1>2. Len(Dir.archives) \in Nat /\ Len(Dir.archives) # 0 /\ Len(Dir.archives) >= 1
  <2>1. Dir.archives \in Seq(Nat) /\ Len(Dir.archives) \in Nat /\ Len(Dir.archives) # 0
    BY <1>1, DirIs
  <2>2. QED
    BY <2>1
<1>3. PICK y \in Files : y = LastArchive(Dir)
  BY <1>0, <1>2, LayoutFiles
<1>4. Journal = Spells(y) /\ Begins(acked, Spells(y))
  <2>1. Len(Dir.archives) \in 1..Len(Dir.archives)
    BY <1>2
  <2>2. Positive(cache[y]) /\ cache[y] \in Seq(Int)
    BY <1>0, <1>3, <2>1, FileFacts DEF Archived, LastArchive
  <2>3. Journal = Chain(y)
    BY <1>0, <1>1, <1>3, JournalIs DEF LastArchive
  <2>4. Chain(y) = Spells(y)
    BY <2>2, ChainIs, EndPositive DEF Spells
  <2>5. Begins(acked, Spells(y))
    BY <1>0, <1>1, <1>2, <1>3 DEF Backed
  <2>6. QED
    BY <2>3, <2>4, <2>5
<1>5. Spells(y) \in Seq(Int)
  BY <1>0, FileFacts, ConcatFacts DEF Spells
<1>6. PICK c \in Seq(Int), h \in Seq(Int) : c = <<>> /\ h = Journal
  BY <1>4, <1>5, NoEntries
<1>7. AddFile(h, c, FALSE)
  BY <1>1, <1>6
<1>8. Positive(c)
  BY <1>6, NoEntries DEF Positive
<1>9. Begins(acked, h \o c)
  <2>1. h \o c = h
    BY <1>6, ConcatEmptySeq
  <2>2. QED
    BY <1>4, <1>6, <2>1
<1>10. h = Spells(LastArchive(Dir)) /\ phase' \notin {"run", "drain"}
  BY <1>1, <1>3, <1>4, <1>6
<1>11. QED
  BY <1>1, <1>7, <1>8, <1>9, <1>10, AddFirm

LEMMA FinishFirm ==
  ASSUME Base, Firm, FinishRotation
  PROVE  Firm'
<1>0. /\ Held /\ SavedHeld /\ Chained(Dir) /\ FileType /\ DirType /\ Dir \in Named /\ Distinct(Dir)
  BY FirmDir, BaseKeeps
<1>1. /\ anchor' = anchor /\ headed' = headed /\ cache' = cache /\ disk' = disk /\ acked' = acked
      /\ snaps' = snaps /\ taken' = taken
      /\ (dirs' = <<Dir>> \/ (exposed' = TRUE /\ dirs' = dirs))
  BY DEF FinishRotation, AfterRotation, files, follower, save
<1>2. PICK L \in Named : L = Dir
  BY <1>0
<1>3. Turns(L) /\ Distinct(L) /\ Chained(L)
  BY <1>0, <1>1, <1>2 DEF Turns
<1>4. Chained(L)'
  BY <1>0, <1>1, <1>3, ChainedSame
<1>5. ~(~exposed' /\ Len(dirs') > 1)
  <2>1. CASE dirs' = <<Dir>>
    <3>1. Len(dirs') = 1
      BY <2>1
    <3>2. QED
      BY <3>1
  <2>2. CASE exposed' = TRUE
    BY <2>2
  <2>3. QED
    BY <1>1, <2>1, <2>2
<1>6. Held'
  BY <1>0, <1>3, <1>4, <1>5, HeldStep
<1>7. Exposure' /\ SavedHeld'
  BY <1>0, <1>1, <1>5 DEF Exposure, SavedHeld
<1>8. QED
  BY <1>6, <1>7 DEF Firm


\* A step after which only the last layout counts.
LEMMA LoneFirm ==
  ASSUME Base, Firm, NEW L \in Named, Turns(L), Chained(L)', SavedHeld', ~(~exposed' /\ Len(dirs') > 1)
  PROVE  Firm'
<1>1. Held'
  BY FirmDir, HeldStep
<1>2. Exposure'
  BY DEF Exposure
<1>3. QED
  BY <1>1, <1>2 DEF Firm

LEMMA RollBackFirm ==
  ASSUME Base, Firm, RollBack
  PROVE  Firm'
<1>0. /\ SavedHeld /\ Archived(Dir) /\ FileType /\ DirType /\ Running /\ acked \in Seq(Int)
      /\ MaxUnsynced \in Nat
  BY FirmDir, BaseKeeps, RecoveryBounds
<1>1. /\ anchor' = anchor /\ headed' = headed /\ cache' = cache /\ acked' = acked
      /\ snaps' = snaps /\ taken' = taken /\ phase \in {"archived", "created"}
  BY DEF RollBack, files, follower, save
<1>2. Len(Dir.archives) >= 1 /\ Standing(LastArchive(Dir)) /\ acked = app
  BY <1>0, <1>1 DEF Running
<1>3. PICK L \in Named : /\ L = Layout(Front(Dir.archives), Last(Dir.archives))
                         /\ Distinct(L) /\ L.live = LastArchive(Dir) /\ L.live \in Files
                         /\ Len(L.archives) = Len(Dir.archives) - 1
                         /\ \A i \in 1..Len(L.archives) : L.archives[i] = Dir.archives[i]
  BY <1>2, BackLayout
<1>4. Turns(L)
  BY <1>3 DEF Turns, RollBack
<1>5. ~(~exposed' /\ Len(dirs') > 1)
  <2>1. CASE dirs' = <<L>>
    <3>1. Len(dirs') = 1
      BY <2>1
    <3>2. QED
      BY <3>1
  <2>2. CASE exposed' = TRUE
    BY <2>2
  <2>3. QED
    BY <1>3, <2>1, <2>2 DEF RollBack
<1>6. PICK A, n, B, x : A = Dir.archives /\ n = Len(Dir.archives) /\ B = L.archives /\ x = L.live
  OBVIOUS
<1>7. /\ n \in Nat /\ n >= 1 /\ Len(B) = n - 1 /\ x = A[n] /\ x \in Files
      /\ \A i \in 1..(n - 1) : B[i] = A[i]
  BY <1>0, <1>2, <1>3, <1>6, DirIs DEF LastArchive
<1>8. \A i \in 1..(n - 1) : i \in 1..n
  BY <1>7
<1>9. Archived(L)
  <2>1. \A j \in 1..(n - 1) : headed[B[j]] /\ Positive(cache[B[j]])
    BY <1>0, <1>6, <1>7, <1>8 DEF Archived
  <2>2. ASSUME NEW j \in 2..(n - 1) PROVE anchor[B[j]] = Spells(B[j - 1])
    <3>1. j \in 1..(n - 1) /\ j - 1 \in 1..(n - 1) /\ j \in 2..n
      BY <1>7, <2>2
    <3>2. QED
      BY <1>0, <1>6, <1>7, <3>1 DEF Archived
  <2>3. QED
    BY <1>6, <1>7, <2>1, <2>2 DEF Archived
<1>10. Ended(L)
  <2>1. ASSUME Len(B) >= 1 PROVE anchor[x] = Spells(B[Len(B)])
    <3>1. n \in 2..n /\ n - 1 \in 1..(n - 1)
      BY <1>7, <2>1
    <3>2. anchor[A[n]] = Spells(A[n - 1])
      BY <1>0, <1>6, <3>1 DEF Archived
    <3>3. QED
      BY <1>7, <3>1, <3>2
  <2>2. \A i \in 1..Len(cache[x]) : cache[x][i] > 0
    BY <1>2, <1>3, <1>6 DEF Standing, Positive
  <2>3. Begins(acked, Spells(x))
    <3>1. Spells(x) = acked
      BY <1>2, <1>3, <1>6 DEF Standing
    <3>2. QED
      BY <1>0, <3>1, BeginsConcat
  <2>4. QED
    BY <1>6, <2>1, <2>2, <2>3 DEF Ended, LastArchive
<1>11. Backed(L)
  BY <1>0, <1>3, FileFacts DEF Backed, Files, NoFile
<1>12. Chained(L)'
  BY <1>0, <1>1, <1>3, <1>9, <1>10, <1>11, ChainedSame DEF Chained
<1>13. SavedHeld'
  BY <1>0, <1>1 DEF SavedHeld
<1>14. QED
  BY <1>4, <1>5, <1>12, <1>13, LoneFirm

\* The live segment stands, and holds whatever is reported durable.
LEMMA LiveChained ==
  ASSUME Base, NEW L \in Named, L = Dir, Chained(L), NEW x \in Files, x = L.live,
         \A f \in Files : anchor'[f] = anchor[f] /\ (headed[f] => headed'[f]),
         \A f \in Files : f # x => cache'[f] = cache[f],
         Standing(x)', Begins(acked', app')
  PROVE  Chained(L)'
<1>0. FileType /\ DirType /\ Distinct(L) /\ x # NoFile
  BY BaseKeeps, FileFacts DEF Files, NoFile
<1>1. Archived(L)'
  BY <1>0, ArchivedSame DEF Chained
<1>2. PICK y : y = LastArchive(L)
  OBVIOUS
<1>3. y = LastArchive(L)'
  BY <1>2 DEF LastArchive
<1>4. ASSUME Len(L.archives) >= 1 PROVE anchor'[x] = anchor'[y] \o cache'[y]
  <2>1. y \in Files /\ y # x
    BY <1>0, <1>2, <1>4, LayoutFiles
  <2>2. anchor[x] = anchor[y] \o cache[y]
    BY <1>0, <1>2, <1>4 DEF Chained, Ended, Spells
  <2>3. QED
    BY <2>1, <2>2
<1>5. (\A i \in 1..Len(cache'[x]) : cache'[x][i] > 0) /\ Begins(acked', anchor'[x] \o cache'[x])
  BY DEF Standing, Positive, Spells
<1>6. Ended(L)'
  BY <1>3, <1>4, <1>5 DEF Ended, Spells
<1>7. Backed(L)'
  BY <1>0 DEF Backed
<1>8. QED
  BY <1>1, <1>6, <1>7 DEF Chained

LEMMA SavedGrows ==
  ASSUME Types, SavedHeld, snaps' = snaps, taken' \in {taken, {}}, acked' \in Seq(Int), Begins(acked, acked')
  PROVE  SavedHeld'
<1>0. acked \in Seq(Int) /\ taken \in SUBSET Saves
  BY DEF Types, NodeType, SaveType, Journals
<1>1. ASSUME NEW s \in Saves, Begins(s.chain, acked) PROVE Begins(s.chain, acked')
  BY <1>0, <1>1, SnapshotFacts, BeginsTransitive
<1>2. \A j \in 1..Len(snaps) : \A s \in snaps[j] : s \in Saves
  BY SnapshotFacts
<1>3. \A j \in 1..Len(snaps) : \A s \in snaps[j] : Begins(s.chain, acked')
  BY <1>1, <1>2 DEF SavedHeld
<1>4. \A s \in taken : Begins(s.chain, acked')
  BY <1>0, <1>1 DEF SavedHeld
<1>5. QED
  BY <1>3, <1>4 DEF SavedHeld

\* What a recovery reports durable extends what was reported before.
LEMMA HeadSynthesizedFirm ==
  ASSUME Base, Firm, HeadSynthesized
  PROVE  Firm' /\ Begins(acked, acked')
<1>0. /\ Types /\ SavedHeld /\ Chained(Dir) /\ FileType /\ DirType /\ Dir \in Named /\ Synthesizing
  BY FirmDir, BaseKeeps
<1>1. /\ phase = "synthesizing" /\ headed' = [headed EXCEPT ![Dir.live] = TRUE] /\ Serve(Replayed)
      /\ exposed' = TRUE /\ dirs' = dirs /\ snaps' = snaps /\ anchor' = anchor /\ cache' = cache
      /\ disk' = disk /\ wire' = wire
  BY DEF HeadSynthesized, directory
<1>2. acked' = Replayed /\ app' = Replayed /\ phase' = "run" /\ taken' = {}
  BY <1>1 DEF Serve
<1>3. PICK L \in Named, x \in Files : L = Dir /\ x = Dir.live
  BY <1>0, <1>1 DEF Synthesizing
<1>4. Base' /\ Replayed = Journal /\ Dir' = Dir
  BY HeadSynthesizedBase
<1>5. Segments # <<>>
  BY <1>0, <1>3, JournalIs, FileFacts DEF Files, NoFile
<1>6. Begins(acked, acked') /\ acked' \in Seq(Int) /\ Begins(acked', app')
  <2>1. Begins(acked, Journal) /\ Journal \in Seq(Int)
    BY <1>0, <1>5, AckedInJournal
  <2>2. QED
    BY <1>2, <1>4, <2>1 DEF Begins
<1>7. SavedHeld'
  BY <1>0, <1>1, <1>2, <1>6, SavedGrows
<1>8. Standing(x)'
  BY <1>2, <1>3, <1>4 DEF Base, Running, Standing, Spells
<1>9. \A f \in Files : headed[f] => headed'[f]
  BY <1>1, <1>3, HeadSame
<1>10. Turns(L)
  BY <1>1, <1>3 DEF Turns
<1>11. Chained(L)'
  BY <1>0, <1>1, <1>3, <1>6, <1>8, <1>9, LiveChained
<1>12. QED
  BY <1>1, <1>6, <1>7, <1>10, <1>11, LoneFirm

LEMMA RecoverFirm ==
  ASSUME Base, Firm, Recover
  PROVE  Firm' /\ Begins(acked, acked')
<1>0. /\ Types /\ SavedHeld /\ Chained(Dir) /\ FileType /\ DirType /\ Dir \in Named
  BY FirmDir, BaseKeeps
<1>1. /\ Serve(Replayed) /\ exposed' = (Len(dirs) > 1) /\ dirs' = dirs /\ snaps' = snaps
      /\ anchor' = anchor /\ headed' = headed /\ Dir.live # NoFile
  BY DEF Recover, directory
<1>2. acked' = Replayed /\ app' = Replayed /\ phase' = "run" /\ taken' = {}
  BY <1>1 DEF Serve
<1>3. /\ Base' /\ Replayed = Journal /\ Dir' = Dir /\ Dir.live \in Files
      /\ \A f \in Files : f # Dir.live => cache'[f] = cache[f]
  BY RecoverBase
<1>4. PICK L \in Named, x \in Files : L = Dir /\ x = Dir.live
  BY <1>0, <1>3
<1>5. Segments # <<>>
  BY <1>0, <1>1, JournalIs
<1>6. Begins(acked, acked') /\ acked' \in Seq(Int) /\ Begins(acked', app')
  <2>1. Begins(acked, Journal) /\ Journal \in Seq(Int)
    BY <1>0, <1>5, AckedInJournal
  <2>2. QED
    BY <1>2, <1>3, <2>1 DEF Begins
<1>7. SavedHeld'
  BY <1>0, <1>1, <1>2, <1>6, SavedGrows
<1>8. Standing(x)'
  BY <1>2, <1>3, <1>4 DEF Base, Running, Standing, Spells
<1>9. Turns(L)
  BY <1>1, <1>4 DEF Turns
<1>10. Chained(L)'
  BY <1>0, <1>1, <1>3, <1>4, <1>6, <1>8, LiveChained
<1>11. ~(~exposed' /\ Len(dirs') > 1)
  BY <1>1
<1>12. QED
  BY <1>6, <1>7, <1>9, <1>10, <1>11, LoneFirm

LEMMA DrainFirm ==
  ASSUME Base, Firm, Drain
  PROVE  Firm'
<1>0. /\ Types /\ Exposure /\ SavedHeld /\ Chained(Dir) /\ FileType /\ DirType /\ Dir \in Named
      /\ acked \in Seq(Int)
  BY FirmDir, BaseKeeps
<1>1. /\ phase = "run" /\ phase' = "drain" /\ snaps' = snaps /\ anchor' = anchor /\ headed' = headed
      /\ acked' = acked /\ taken' = taken /\ PollRetry
  BY DEF Drain, MayDrain, follower, save
<1>2. /\ Base' /\ Dir' = Dir /\ Dir.live \in Files
      /\ \A f \in Files : f # Dir.live => cache'[f] = cache[f]
  BY DrainBase
<1>3. PICK L \in Named, x \in Files : L = Dir /\ x = Dir.live
  BY <1>0, <1>2
<1>4. Standing(x)' /\ Begins(acked', app')
  <2>1. Running'
    BY <1>2 DEF Base
  <2>2. QED
    BY <1>1, <1>2, <1>3, <2>1 DEF Running, Standing, Spells, Up
<1>5. SavedHeld'
  BY <1>0, <1>1 DEF SavedHeld
<1>6. Turns(L)
  BY <1>1, <1>3 DEF Turns, PollRetry
<1>7. Chained(L)'
  BY <1>0, <1>1, <1>2, <1>3, <1>4, LiveChained
<1>8. ~(~exposed' /\ Len(dirs') > 1)
  <2>1. CASE dirs' = <<Dir>>
    <3>1. Len(dirs') = 1
      BY <2>1
    <3>2. QED
      BY <3>1
  <2>2. CASE dirs' = dirs /\ exposed' = exposed
    BY <1>0, <1>1, <2>2 DEF Exposure
  <2>3. QED
    BY <1>1, <2>1, <2>2 DEF PollRetry
<1>9. QED
  BY <1>5, <1>6, <1>7, <1>8, LoneFirm

LEMMA SyncFirm ==
  ASSUME Base, Firm, Sync
  PROVE  Firm' /\ Begins(acked, acked')
<1>0. /\ Types /\ Exposure /\ SavedHeld /\ Chained(Dir) /\ FileType /\ DirType /\ Dir \in Named
      /\ app \in Seq(Int) /\ Running
  BY FirmDir, BaseKeeps
<1>1. /\ phase = "drain" /\ phase' = "run" /\ snaps' = snaps /\ anchor' = anchor /\ headed' = headed
      /\ cache' = cache /\ app' = app /\ taken' = taken /\ dirs' = dirs /\ exposed' = exposed
  BY DEF Sync, directory, follower, save, history
<1>2. Begins(acked, acked') /\ acked' = app
  BY SyncBase
<1>3. Standing(Dir.live)
  BY <1>0, <1>1 DEF Running
<1>4. PICK L \in Named, x \in Files : L = Dir /\ x = Dir.live
  BY <1>0, <1>3 DEF Standing
<1>5. Standing(x)'
  BY <1>1, <1>3, <1>4 DEF Standing, Spells, Files
<1>6. SavedHeld'
  BY <1>0, <1>1, <1>2, SavedGrows
<1>7. Turns(L)
  BY <1>1, <1>4 DEF Turns
<1>8. Begins(acked', app')
  BY <1>0, <1>1, <1>2, BeginsConcat
<1>9. Chained(L)'
  BY <1>0, <1>1, <1>4, <1>5, <1>8, LiveChained
<1>10. ~(~exposed' /\ Len(dirs') > 1)
  BY <1>0, <1>1 DEF Exposure
<1>11. QED
  BY <1>2, <1>6, <1>7, <1>9, <1>10, LoneFirm

LEMMA BeginsAfter ==
  ASSUME NEW a \in Seq(Int), NEW d \in Seq(Int), NEW g \in Seq(Int), Begins(d, g)
  PROVE  Begins(a \o d, a \o g)
<1>1. PICK p \in Nat, m \in Nat, n \in Nat : p = Len(a) /\ m = Len(d) /\ n = Len(g)
  OBVIOUS
<1>2. PICK s, t : s = a \o d /\ t = a \o g
  OBVIOUS
<1>3. /\ Len(s) = p + m /\ \A i \in 1..p : s[i] = a[i]
      /\ \A i \in 1..(p + m) : i \in 1..p \/ (i - p \in 1..m /\ s[i] = d[i - p])
  BY <1>1, <1>2, ConcatFacts
<1>4. /\ Len(t) = p + n /\ \A i \in 1..p : t[i] = a[i]
      /\ \A i \in 1..n : t[p + i] = g[i]
  BY <1>1, <1>2, ConcatFacts
<1>5. m <= n /\ \A i \in 1..m : d[i] = g[i]
  BY <1>1 DEF Begins
<1>6. ASSUME NEW i \in 1..(p + m) PROVE s[i] = t[i]
  <2>1. CASE i \in 1..p
    BY <1>3, <1>4, <2>1
  <2>2. CASE i \notin 1..p
    <3>1. PICK j \in 1..m : j = i - p /\ s[i] = d[j]
      BY <1>3, <2>2
    <3>2. p + j = i /\ j \in 1..n
      BY <1>1, <1>5, <3>1
    <3>3. QED
      BY <1>4, <1>5, <3>1, <3>2
  <2>3. QED
    BY <2>1, <2>2
<1>7. p + m <= p + n
  BY <1>1, <1>5
<1>8. QED
  BY <1>2, <1>3, <1>4, <1>6, <1>7 DEF Begins

\* A power loss that comes without an excuse leaves the durable history: it can
\* only undo directory operations over which nothing was served, or cells that
\* were not reported.
LEMMA PowerLossFirm ==
  ASSUME Base, Firm, PowerLoss, ~excused'
  PROVE  Firm'
<1>0. /\ Types /\ Held /\ Exposure /\ SavedHeld /\ FileType /\ DirType /\ Shape /\ Synced
      /\ MaxUnsynced \in Nat /\ Dir \in Named
  BY FirmDir, BaseKeeps, RecoveryBounds
<1>1. /\ anchor' = anchor /\ headed' = headed /\ acked' = acked /\ taken' = {}
  BY DEF PowerLoss, Forget
<1>2. PICK k \in 1..Len(dirs) : dirs' = <<dirs[k]>> /\ excused' = (excused \/ (exposed /\ k < Len(dirs)))
  BY DEF PowerLoss
<1>3. /\ FileType' /\ Files' = Files
      /\ \A f \in Files : Left(cache[f], disk[f], cache'[f]) /\ (f # Dir.live => cache'[f] = cache[f])
  BY PowerLossEffect
<1>4. PICK L \in Named : L = dirs[k] /\ Distinct(L)
  BY <1>0, DirFacts DEF Shape
<1>5. Turns(L)
  BY <1>2, <1>4 DEF Turns
<1>6. Len(dirs) \in Nat /\ (~exposed \/ k = Len(dirs))
  <2>1. ~(exposed /\ k < Len(dirs))
    BY <1>2, Zenon
  <2>2. Len(dirs) \in Nat
    BY <1>0 DEF DirType
  <2>3. k < Len(dirs) \/ k = Len(dirs)
    BY <2>2
  <2>4. QED
    BY <2>1, <2>2, <2>3
<1>7. Chained(L)
  BY <1>0, <1>4, <1>6 DEF Held
<1>8. ~(~exposed' /\ Len(dirs') > 1)
  <2>1. Len(dirs') = 1
    BY <1>2
  <2>2. QED
    BY <2>1
<1>9. SavedHeld'
  <2>1. PICK j \in 1..Len(snaps) : snaps' = <<snaps[j]>>
    BY DEF PowerLoss
  <2>2. \A i \in 1..Len(snaps') : snaps'[i] = snaps[j]
    BY <2>1
  <2>3. QED
    BY <1>0, <1>1, <2>2 DEF SavedHeld
<1>10. Chained(L)'
  <2>1. CASE \A f \in Files : disk[f] = cache[f]
    <3>1. ASSUME NEW f \in Files PROVE cache'[f] = cache[f]
      <4>1. PICK c, g : c = cache[f] /\ g = cache'[f] /\ c \in Seq(Int)
        BY <1>0, FileFacts
      <4>2. g \in Seq(Int) /\ Len(g) = Len(c) /\ \A i \in 1..Len(c) : g[i] = c[i]
        BY <1>3, <2>1, <4>1 DEF Left
      <4>3. g = c
        BY <4>1, <4>2, SeqEqual
      <4>4. QED
        BY <4>1, <4>3
    <3>2. QED
      BY <1>0, <1>1, <1>4, <1>7, <3>1, ChainedSame
  <2>2. ASSUME NEW x \in Files, disk[x] # cache[x] PROVE Chained(L)'
    <3>1. /\ Begins(disk[x], cache[x]) /\ Len(cache[x]) <= Len(disk[x]) + MaxUnsynced
          /\ x = Dir.live /\ Positive(cache[x]) /\ acked = anchor[x] \o disk[x]
      BY <1>0, <2>2 DEF Synced, Settled
    <3>2. L = Dir
      <4>1. k = Len(dirs)
        <5>1. CASE ~exposed
          <6>1. ~(Len(dirs) > 1)
            BY <1>0, <2>2, <5>1 DEF Exposure
          <6>2. QED
            BY <1>2, <1>6, <6>1
        <5>2. QED
          BY <1>6, <5>1
      <4>2. QED
        BY <1>0, <1>4, <4>1, DirFacts DEF Dir, Last
    <3>3. x = L.live /\ x # NoFile
      BY <1>0, <3>1, <3>2, FileFacts DEF Files, NoFile
    <3>4. PICK a \in Seq(Int), c \in Seq(Int), d \in Seq(Int) : a = anchor[x] /\ c = cache[x] /\ d = disk[x]
      BY <1>0, FileFacts
    <3>5. PICK g \in Seq(Int) : g = cache'[x] /\ Left(c, d, g)
      BY <1>3, <3>4 DEF Left
    <3>6. PICK m \in Nat, n \in Nat : m = Len(d) /\ n = Len(c)
      OBVIOUS
    <3>7. /\ m <= n /\ n <= m + MaxUnsynced /\ (\A i \in 1..m : d[i] = c[i]) /\ (\A i \in 1..n : c[i] > 0)
          /\ Len(g) = n /\ \A i \in 1..m : g[i] = c[i]
      BY <3>1, <3>4, <3>5, <3>6 DEF Begins, Positive, Left
    <3>8. Begins(acked', a \o g)
      <4>1. Begins(d, g)
        BY <3>6, <3>7 DEF Begins
      <4>2. QED
        BY <1>1, <3>1, <3>4, <4>1, BeginsAfter
    <3>9. ASSUME NEW i \in 1..Len(g), i + MaxUnsynced <= Len(g) PROVE g[i] > 0
      <4>1. i \in 1..m /\ i \in 1..n
        BY <1>0, <3>6, <3>7, <3>9
      <4>2. QED
        BY <3>7, <4>1
    <3>10. Archived(L)'
      BY <1>0, <1>1, <1>3, <1>4, <1>7, <3>2, ArchivedSame DEF Chained
    <3>11. PICK y : y = LastArchive(L)
      OBVIOUS
    <3>12. y = LastArchive(L)'
      BY <3>11 DEF LastArchive
    <3>13. ASSUME Len(L.archives) >= 1 PROVE anchor'[x] = anchor'[y] \o cache'[y]
      <4>1. y \in Files /\ y # L.live
        BY <1>0, <1>4, <3>11, <3>13, LayoutFiles
      <4>2. anchor[x] = anchor[y] \o cache[y]
        BY <1>7, <3>3, <3>11, <3>13 DEF Chained, Ended, Spells
      <4>3. QED
        BY <1>1, <1>3, <3>2, <4>1, <4>2
    <3>14. Ended(L)'
      BY <1>1, <3>3, <3>4, <3>5, <3>8, <3>9, <3>12, <3>13 DEF Ended, Spells
    <3>15. Backed(L)'
      BY <3>3 DEF Backed
    <3>16. QED
      BY <3>10, <3>14, <3>15 DEF Chained
  <2>3. QED
    BY <2>1, <2>2
<1>11. QED
  BY <1>5, <1>8, <1>9, <1>10, LoneFirm

-----------------------------------------------------------------------------
(* Every step keeps the durable history, and only extends what is reported.  *)

LEMMA ExcusedForGood ==
  ASSUME [Next]_vars, ~excused'
  PROVE  ~excused
<1>1. CASE PowerLoss
  <2>1. PICK k \in 1..Len(dirs) : excused' = (excused \/ (exposed /\ k < Len(dirs)))
    BY <1>1 DEF PowerLoss
  <2>2. QED
    BY <2>1, Zenon
<1>2. CASE ~PowerLoss
  <2>1. excused' = excused
    BY <1>2 DEF Next, Boot, Disk, Shadow, vars, history, WriteGenesis, SyncGenesis, Recover, SynthesizeLive,
       HeadSynthesized, Serve, Refuse, Drain, Sync, ArchiveLive, InstallPrepared, InstallFresh, FinishRotation,
       RollBack, ShadowConsume, StartSave, SyncRotated, Publish, SyncPublished, Kill
  <2>2. QED
    BY <2>1
<1>3. QED
  BY <1>1, <1>2

\* The durable report moves in three steps only.
LEMMA AckedMoves ==
  ASSUME [Next]_vars
  PROVE  acked' = acked \/ Sync \/ Recover \/ HeadSynthesized
BY DEF Next, Boot, Disk, Shadow, vars, WriteGenesis, SyncGenesis, SynthesizeLive, Refuse, Drain, ArchiveLive,
   InstallPrepared, InstallFresh, FinishRotation, RollBack, ShadowConsume, StartSave, SyncRotated, Publish,
   SyncPublished, Kill, PowerLoss

LEMMA FirmStep ==
  ASSUME Base, Solid, [Next]_vars, ~excused'
  PROVE  Firm' /\ Begins(acked, acked')
<1>0. Firm /\ acked \in Seq(Int)
  BY ExcusedForGood, BaseKeeps DEF Solid
<1>1. Firm'
  <2>1. CASE Boot
    BY <1>0, <2>1, WriteGenesisFirm, RestFirm, RecoverFirm, SynthesizeFirm, HeadSynthesizedFirm DEF Boot
  <2>2. CASE Disk
    BY <1>0, <2>2, DrainFirm, SyncFirm, ArchiveFirm, InstallPreparedFirm, InstallFreshFirm, FinishFirm,
       RollBackFirm DEF Disk
  <2>3. QED
    BY <1>0, <2>1, <2>2, ShadowFirm, RestFirm, PowerLossFirm DEF Next
<1>2. Begins(acked, acked')
  <2>1. acked' = acked => Begins(acked, acked')
    BY <1>0, BeginsConcat
  <2>2. QED
    BY <1>0, <2>1, AckedMoves, SyncFirm, RecoverFirm, HeadSynthesizedFirm
<1>3. QED
  BY <1>1, <1>2

\* Refused by a journal that holds the durable history means unheaded.
LEMMA RefusedStep ==
  ASSUME Base, Solid, RefusedOnlyUnheaded, [Next]_vars
  PROVE  RefusedOnlyUnheaded'
<1>0. SUFFICES ASSUME phase' = "refused", ~excused' PROVE Dir'.live # NoFile /\ ~headed'[Dir'.live]
  BY DEF RefusedOnlyUnheaded
<1>1. ~excused /\ Firm
  BY <1>0, ExcusedForGood DEF Solid
<1>2. Refuse \/ UNCHANGED vars
  BY <1>0 DEF Next, Boot, Disk, Shadow, WriteGenesis, SyncGenesis, Recover, SynthesizeLive, HeadSynthesized,
     Serve, Drain, Sync, ArchiveLive, InstallPrepared, InstallFresh, FinishRotation, RollBack, Up,
     ShadowConsume, StartSave, SyncRotated, Publish, SyncPublished, Kill, PowerLoss, Forget
<1>3. dirs' = dirs /\ headed' = headed
  BY <1>2 DEF Refuse, vars, directory, files
<1>4. Dir.live # NoFile /\ ~headed[Dir.live]
  <2>1. CASE Refuse
    <3>1. Segments # <<>> /\ ~Accepts
      BY <2>1 DEF Refuse
    <3>2. QED
      BY <1>1, <3>1, FirmDir, SolidAccepts
  <2>2. CASE UNCHANGED vars
    <3>1. phase = "refused"
      BY <1>0, <2>2 DEF vars
    <3>2. QED
      BY <1>1, <3>1 DEF RefusedOnlyUnheaded
  <2>3. QED
    BY <1>2, <2>1, <2>2
<1>5. QED
  BY <1>3, <1>4 DEF Dir

LEMMA SolidHolds == Spec => [](Base /\ Solid /\ RefusedOnlyUnheaded)
<1>1. Init => Base /\ Solid /\ RefusedOnlyUnheaded
  <2>1. Init => RefusedOnlyUnheaded
    BY DEF Init, RefusedOnlyUnheaded
  <2>2. QED
    BY <2>1, BaseInit, SolidInit
<1>2. Base /\ Solid /\ RefusedOnlyUnheaded /\ [Next]_vars => (Base /\ Solid /\ RefusedOnlyUnheaded)'
  <2>1. Base /\ Solid /\ [Next]_vars => Solid'
    BY FirmStep DEF Solid
  <2>2. QED
    BY <2>1, BaseStep, RefusedStep
<1>3. QED
  BY <1>1, <1>2, PTL DEF Spec

\* Recovery refuses a journal in one case only: its live segment was created in
\* place and never got its header, unless power failed while the node served
\* over directory operations it had not fsynced (recover_inner, is_torn_shape).
THEOREM RefusalsOnlyUnheaded == Spec => []RefusedOnlyUnheaded
BY SolidHolds, PTL

\* No kill, power loss, failed rotation or recovery takes back an entry that was
\* reported durable, with the same exception: every report extends the one
\* before it (drain_and_sync, open_append, recover_inner, create_continuing).
THEOREM DurableAlwaysForGood == Spec => DurableForGood
<1>1. Base /\ Solid /\ Base' /\ [Next]_vars => [IsPrefix(acked, acked') \/ excused']_acked
  <2> SUFFICES ASSUME Base, Solid, Base', [Next]_vars, ~excused' PROVE IsPrefix(acked, acked')
    OBVIOUS
  <2>1. acked \in Seq(Int) /\ acked' \in Seq(Int)
    BY DEF Base, Types, NodeType, Journals
  <2>2. Begins(acked, acked')
    BY FirmStep
  <2>3. QED
    BY <2>1, <2>2, PrefixIsBegins
<1>2. QED
  BY <1>1, SolidHolds, PTL DEF Spec, DurableForGood
=============================================================================
