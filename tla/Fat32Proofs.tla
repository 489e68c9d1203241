---------------------------- MODULE Fat32Proofs ----------------------------
(***************************************************************************)
(* Theorems about Fat32, for every set of files, every size of directory   *)
(* and of sector and every card.                                           *)
(***************************************************************************)
EXTENDS Fat32, FiniteSetTheorems, SequenceTheorems, TLAPS

-----------------------------------------------------------------------------
(* Induction.  The theorems of the library on it have an operator as their  *)
(* parameter, which the provers cannot give a value; over sets it is first  *)
(* order: a set of naturals that is not empty has a least element.          *)
LEMMA LessThanIsWellFounded == IsWellFoundedOn({ss \in Nat \X Nat : ss[1] < ss[2]}, Nat)
BY NatLessThanWellFounded DEF OpToRel

\* A set of naturals that is not empty has a least element.
LEMMA LeastElement ==
  ASSUME NEW U, U \subseteq Nat, U # {}
  PROVE  \E x \in U : \A y \in U : x <= y
<1> DEFINE R == {ss \in Nat \X Nat : ss[1] < ss[2]}
<1>1. PICK x \in U : \A y \in U : <<y, x>> \notin R
  <2>1. IsWellFoundedOn(R, Nat)
    BY LessThanIsWellFounded
  <2> HIDE DEF R
  <2> QED BY <2>1, WFMin
<1>2. \A y \in U : ~ (y < x)
  BY <1>1
<1> QED BY <1>1, <1>2

\* A set that holds 0, and with each number the next, holds all of them.
LEMMA SetInduction ==
  ASSUME NEW T, 0 \in T, \A n \in Nat : n \in T => n + 1 \in T
  PROVE  \A n \in Nat : n \in T
<1> DEFINE U == Nat \ T
<1> SUFFICES ASSUME U # {} PROVE FALSE
  OBVIOUS
<1>1. PICK x \in U : \A y \in U : x <= y
  <2>1. U \subseteq Nat
    OBVIOUS
  <2> HIDE DEF U
  <2> QED BY <2>1, LeastElement
<1>2. x \in Nat /\ x # 0
  BY <1>1
<1>3. x - 1 \in Nat /\ ~ (x <= x - 1) /\ (x - 1) + 1 = x
  BY <1>2
<1>4. x - 1 \in T
  BY <1>1, <1>3
<1> QED BY <1>1, <1>3, <1>4

\* What is defined step by step, each from the one before, exists.
Follows(g, m, base, step) == g[0] = base /\ \A n \in 1 .. m : g[n] = step[n][g[n - 1]]

\* Such a function exists for every base and every steps.
LEMMA Recursion ==
  ASSUME NEW N \in Nat, NEW V, NEW base \in V, NEW step \in [1 .. N -> [V -> V]]
  PROVE  \E g \in [0 .. N -> V] : Follows(g, N, base, step)
<1> DEFINE T == {m \in Nat : m <= N => \E g \in [0 .. m -> V] : Follows(g, m, base, step)}
<1>1. 0 \in T
  <2> DEFINE g == [n \in 0 .. 0 |-> base]
  <2>1. g \in [0 .. 0 -> V] /\ Follows(g, 0, base, step)
    BY DEF Follows
  <2> HIDE DEF g
  <2> QED BY <2>1
<1>2. ASSUME NEW m \in Nat, m \in T PROVE m + 1 \in T
  <2> SUFFICES ASSUME m + 1 <= N PROVE \E g \in [0 .. m + 1 -> V] : Follows(g, m + 1, base, step)
    OBVIOUS
  <2>1. PICK h \in [0 .. m -> V] : Follows(h, m, base, step)
    BY <1>2
  <2> DEFINE g == [n \in 0 .. m + 1 |-> IF n = m + 1 THEN step[m + 1][h[m]] ELSE h[n]]
  <2>2. h[m] \in V /\ step[m + 1][h[m]] \in V
    <3>1. h[m] \in V /\ m + 1 \in 1 .. N
      BY <2>1
    <3> QED BY <3>1
  <2>3. g \in [0 .. m + 1 -> V] /\ g[0] = base
    BY <2>1, <2>2 DEF Follows
  <2>4. ASSUME NEW n \in 1 .. m + 1 PROVE g[n] = step[n][g[n - 1]]
    <3>1. CASE n = m + 1
      BY <3>1
    <3>2. CASE n \in 1 .. m
      <4>1. h[n] = step[n][h[n - 1]]
        BY <3>2, <2>1 DEF Follows
      <4>2. g[n] = h[n] /\ g[n - 1] = h[n - 1]
        BY <3>2
      <4> HIDE DEF g
      <4> QED BY <4>1, <4>2
    <3> QED BY <3>1, <3>2
  <2> HIDE DEF g
  <2>5. Follows(g, m + 1, base, step)
    BY <2>3, <2>4 DEF Follows
  <2> QED BY <2>3, <2>5
<1> HIDE DEF T
<1>3. N \in T
  BY <1>1, <1>2, SetInduction
<1> QED BY <1>3 DEF T

\* Induction up to a bound.
LEMMA BoundedInduction ==
  ASSUME NEW N \in Nat, NEW T, 0 \in T, \A n \in 1 .. N : n - 1 \in T => n \in T
  PROVE  \A n \in 0 .. N : n \in T
<1> DEFINE U == {n \in Nat : n <= N => n \in T}
<1>1. 0 \in U
  OBVIOUS
<1>2. ASSUME NEW n \in Nat, n \in U PROVE n + 1 \in U
  <2> SUFFICES ASSUME n + 1 <= N PROVE n + 1 \in T
    OBVIOUS
  <2>1. n + 1 \in 1 .. N /\ (n + 1) - 1 = n /\ n \in T
    BY <1>2
  <2> QED BY <2>1
<1> HIDE DEF U
<1>3. \A n \in Nat : n \in U
  BY <1>1, <1>2, SetInduction
<1> QED BY <1>3 DEF U

-----------------------------------------------------------------------------
(* Recursive definitions that the model uses.                               *)

LEMMA Powers == 2^0 = 1 /\ 2^2 = 4 /\ 2^4 = 16 /\ 2^5 = 32 /\ 2^6 = 64 /\ 2^7 = 128
OBVIOUS

\* The two ways of writing the rotation of a byte agree, byte by byte.
LEMMA ChecksumsAgree ==
  ASSUME NEW N \in Nat, NEW name \in [1 .. N -> 0 .. 255]
  PROVE  lfn_checksum(name) = RotatedSum(name)
<1> DEFINE Up(v, x) == ((v % 2) * 128 + (v \div 2) + x) % 256
           step == [n \in 1 .. N |-> [v \in 0 .. 255 |-> Up(v, name[n])]]
           Sum(g) == g = [n \in 0 .. N |->
                       IF n = 0 THEN 0 ELSE ((g[n - 1] % 2) * 2^7 + (g[n - 1] \div 2) + name[n]) % 256]
           Rotated(g) == g = [n \in 0 .. N |->
                       IF n = 0 THEN 0 ELSE (g[n - 1] \div 2 + 128 * (g[n - 1] % 2) + name[n]) % 256]
           c == CHOOSE g : Sum(g)
           r == CHOOSE g : Rotated(g)
<1>1. lfn_checksum(name) = c[N] /\ RotatedSum(name) = r[N]
  <2>1. Len(name) = N
    OBVIOUS
  <2> QED BY <2>1 DEF lfn_checksum, RotatedSum
<1>2. ASSUME NEW v \in 0 .. 255, NEW x \in 0 .. 255
      PROVE  /\ Up(v, x) \in 0 .. 255
             /\ Up(v, x) = ((v % 2) * 2^7 + (v \div 2) + x) % 256
  <2>1. Up(v, x) \in 0 .. 255
    OBVIOUS
  <2>2. Up(v, x) = ((v % 2) * 2^7 + (v \div 2) + x) % 256
    BY Powers
  <2> HIDE DEF Up
  <2> QED BY <2>1, <2>2, Zenon
<1>3. \A n \in 1 .. N : name[n] \in 0 .. 255
  OBVIOUS
<1>30. PICK B : B = 0 .. 255
  OBVIOUS
<1>31. 0 \in B /\ \A v, x \in B : Up(v, x) \in B
  <2>1. \A y \in Int : y % 256 \in 0 .. 255
    OBVIOUS
  <2>2. ASSUME NEW v \in 0 .. 255, NEW x \in 0 .. 255 PROVE Up(v, x) \in 0 .. 255
    <3>1. PICK y \in Int : y = (v % 2) * 128 + (v \div 2) + x
      OBVIOUS
    <3> QED BY <2>1, <3>1, Zenon
  <2>3. 0 \in 0 .. 255
    OBVIOUS
  <2> HIDE DEF Up
  <2>4. ASSUME NEW v \in B, NEW x \in B PROVE Up(v, x) \in B
    <3>1. v \in 0 .. 255 /\ x \in 0 .. 255
      BY <1>30
    <3>2. Up(v, x) \in 0 .. 255
      BY <2>2, <3>1, Zenon
    <3> QED BY <3>2, <1>30
  <2>5. 0 \in B
    BY <2>3, <1>30
  <2> QED BY <2>4, <2>5, Zenon
<1> HIDE DEF Up
<1>32. \A n \in 1 .. N : name[n] \in B
  BY <1>3, <1>30, Zenon
<1>33. PICK a \in [0 .. N -> B] : Follows(a, N, 0, step)
  <2>1. ASSUME NEW n \in 1 .. N PROVE [v \in B |-> Up(v, name[n])] \in [B -> B]
    <3>1. \A v \in B : Up(v, name[n]) \in B
      BY <1>31, <1>32, Zenon
    <3> QED BY <3>1, Zenon
  <2>2. step = [n \in 1 .. N |-> [v \in B |-> Up(v, name[n])]]
    BY <1>30, Zenon
  <2> HIDE DEF step
  <2>3. step \in [1 .. N -> [B -> B]]
    BY <2>1, <2>2, Zenon
  <2> QED BY <1>31, <2>3, Recursion
<1>4. a \in [0 .. N -> 0 .. 255] /\ Follows(a, N, 0, step)
  BY <1>30, <1>33
<1>5. a[0] = 0 /\ \A n \in 1 .. N : a[n - 1] \in 0 .. 255 /\ a[n] = Up(a[n - 1], name[n])
  <2>1. a[0] = 0 /\ \A n \in 1 .. N : a[n] = step[n][a[n - 1]]
    BY <1>4, Zenon DEF Follows
  <2>2. \A n \in 1 .. N : a[n - 1] \in 0 .. 255
    BY <1>4
  <2>3. \A n \in 1 .. N : \A v \in 0 .. 255 : step[n][v] = Up(v, name[n])
    OBVIOUS
  <2> HIDE DEF step
  <2> QED BY <2>1, <2>2, <2>3, Zenon
<1> HIDE DEF step, c, r
<1>6. ASSUME NEW n \in 1 .. N
      PROVE  a[n] = ((a[n - 1] % 2) * 2^7 + (a[n - 1] \div 2) + name[n]) % 256
  <2>1. PICK v \in 0 .. 255, x \in 0 .. 255 : v = a[n - 1] /\ x = name[n]
    BY <1>3, <1>5, Zenon
  <2>2. a[n] = Up(v, x)
    BY <2>1, <1>5, Zenon
  <2>3. Up(v, x) = ((v % 2) * 2^7 + (v \div 2) + x) % 256
    BY <1>2, ZenonT(30)
  <2> QED BY <2>1, <2>2, <2>3, Zenon
<1>7. ASSUME NEW n \in 1 .. N
      PROVE  a[n] = (a[n - 1] \div 2 + 128 * (a[n - 1] % 2) + name[n]) % 256
  <2>1. PICK v \in 0 .. 255, x \in 0 .. 255 : v = a[n - 1] /\ x = name[n]
    BY <1>3, <1>5, Zenon
  <2>2. (v % 2) * 2^7 + (v \div 2) + x = v \div 2 + 128 * (v % 2) + x
    BY Powers
  <2>3. a[n] = ((v % 2) * 2^7 + (v \div 2) + x) % 256
    BY <1>6, <2>1, Zenon
  <2> QED BY <2>1, <2>2, <2>3, Zenon
<1>8. Sum(a) /\ Rotated(a)
  <2> DEFINE C == [n \in 0 .. N |->
                     IF n = 0 THEN 0 ELSE ((a[n - 1] % 2) * 2^7 + (a[n - 1] \div 2) + name[n]) % 256]
             R == [n \in 0 .. N |->
                     IF n = 0 THEN 0 ELSE (a[n - 1] \div 2 + 128 * (a[n - 1] % 2) + name[n]) % 256]
  <2>1. \A n \in 0 .. N : n # 0 => n \in 1 .. N
    OBVIOUS
  <2>2. \A n \in 0 .. N : C[n] = a[n] /\ R[n] = a[n]
    BY <2>1, <1>5, <1>6, <1>7, ZenonT(30)
  <2>3. C = [n \in 0 .. N |-> C[n]] /\ R = [n \in 0 .. N |-> R[n]]
    BY Zenon
  <2>4. C = a /\ R = a
    <3> HIDE DEF C, R
    <3> QED BY <2>2, <2>3
  <2> QED BY <2>4, Zenon
<1>9. Sum(c) /\ Rotated(r)
  <2> HIDE DEF Sum, Rotated
  <2> QED BY <1>8 DEF c, r
<1>10. c[0] = 0 /\ r[0] = 0
  BY <1>9
<1>11. \A n \in 1 .. N : c[n] = ((c[n - 1] % 2) * 2^7 + (c[n - 1] \div 2) + name[n]) % 256
  BY <1>9
<1>12. \A n \in 1 .. N : r[n] = (r[n - 1] \div 2 + 128 * (r[n - 1] % 2) + name[n]) % 256
  BY <1>9
<1> DEFINE T == {n \in 0 .. N : c[n] = a[n] /\ r[n] = a[n]}
<1>13. \A n \in 0 .. N : n \in T
  <2> HIDE DEF Sum, Rotated
  <2>1. 0 \in T
    BY <1>5, <1>10
  <2>2. ASSUME NEW n \in 1 .. N, n - 1 \in T PROVE n \in T
    <3>1. c[n - 1] = a[n - 1] /\ r[n - 1] = a[n - 1] /\ n \in 0 .. N
      BY <2>2
    <3>2. c[n] = a[n]
      BY <3>1, <1>6, <1>11, ZenonT(30)
    <3>3. r[n] = a[n]
      <4>1. r[n] = (r[n - 1] \div 2 + 128 * (r[n - 1] % 2) + name[n]) % 256
        BY <1>12, Zenon
      <4>2. a[n] = (a[n - 1] \div 2 + 128 * (a[n - 1] % 2) + name[n]) % 256
        BY <1>7, Zenon
      <4> QED BY <3>1, <4>1, <4>2, Zenon
    <3> QED BY <3>1, <3>2, <3>3
  <2> HIDE DEF T
  <2> QED BY <2>1, <2>2, BoundedInduction
<1> QED BY <1>1, <1>13

-----------------------------------------------------------------------------
(* The entries of a file.                                                   *)

\* What the constants say of the name of a file.
LEMMA FileNamed ==
  ASSUME NEW f \in Files
  PROVE  /\ Short[f] \in [1 .. 11 -> 0 .. 255] /\ Short[f][1] \notin {0, 229}
         /\ Attr[f] \in 0 .. 255 /\ Attr[f] # 15
BY FilesAssumption, Zenon

LEMMA FirstOfName ==
  \A f \in Files : /\ Short[f][1] \in 0 .. 255 /\ Short[f][1] \notin {0, 229}
                   /\ Attr[f] \in 0 .. 255 /\ Attr[f] # 15
<1>1. \A s \in [1 .. 11 -> 0 .. 255] : s[1] \in 0 .. 255
  OBVIOUS
<1> SUFFICES ASSUME NEW f \in Files
             PROVE  /\ Short[f][1] \in 0 .. 255 /\ Short[f][1] \notin {0, 229}
                    /\ Attr[f] \in 0 .. 255 /\ Attr[f] # 15
  OBVIOUS
<1>2. Short[f] \in [1 .. 11 -> 0 .. 255]
  BY FileNamed, Zenon
<1>3. Short[f][1] \in 0 .. 255
  BY <1>1, <1>2, Zenon
<1>4. Short[f][1] \notin {0, 229} /\ Attr[f] \in 0 .. 255 /\ Attr[f] # 15
  BY FileNamed
<1> QED BY <1>3, <1>4, Zenon

LEMMA LongNamed == \A f \in Lfn : \E n \in 1 .. 255 : Long[f] \in [1 .. n -> Characters]
BY FilesAssumption

\* A long name takes up to twenty entries, and a file without one takes none.
LEMMA ChainRange ==
  ASSUME NEW f \in Files
  PROVE  Chain(f) \in 0 .. 20 /\ (f \in Lfn <=> Chain(f) > 0)
<1>1. CASE f \in Lfn
  <2>1. Len(Long[f]) \in 1 .. 255
    <3>1. PICK n \in 1 .. 255 : Long[f] \in [1 .. n -> Characters]
      BY <1>1, LongNamed, Zenon
    <3>2. \A s \in [1 .. n -> Characters] : Len(s) = n
      OBVIOUS
    <3> QED BY <3>1, <3>2
  <2>2. PICK m \in 1 .. 255 : Len(Long[f]) = m
    BY <2>1
  <2>3. Chain(f) = (m + 12) \div 13
    BY <1>1, <2>2 DEF Chain
  <2>4. (m + 12) \div 13 \in 1 .. 20
    OBVIOUS
  <2> QED BY <1>1, <2>3, <2>4
<1>2. CASE f \notin Lfn
  BY <1>2 DEF Chain
<1> QED BY <1>1, <1>2

\* Its number of entries is a number.
LEMMA ChainNat == \A f \in Files : Chain(f) \in Nat
<1> SUFFICES ASSUME NEW f \in Files PROVE Chain(f) \in Nat
  OBVIOUS
<1>1. Chain(f) \in 0 .. 20
  BY ChainRange, Zenon
<1> QED BY <1>1

\* An entry of a file's long name: its number, its checksum and its characters.
LEMMA LongEntry ==
  ASSUME NEW f \in Files, NEW n \in 1 .. Chain(f)
  PROVE  /\ Entries[f][n].first = Chain(f) + 1 - n + (IF n = 1 THEN 64 ELSE 0)
         /\ Entries[f][n].attr = FAT32_LONG_FILE_NAME
         /\ Entries[f][n].cksum = RotatedSum(Short[f])
         /\ Entries[f][n].text = LfnText(f, Chain(f) + 1 - n)
<1>1. n \in 1 .. Chain(f) + 1 /\ Chain(f) + 1 - n > 0
  BY ChainRange
<1> QED BY <1>1 DEF Entries

\* The entry behind them, which is the file's own.
LEMMA ShortEntry ==
  ASSUME NEW f \in Files
  PROVE  /\ Entries[f][Chain(f) + 1].first = Short[f][1]
         /\ Entries[f][Chain(f) + 1].attr = Attr[f]
         /\ Entries[f][Chain(f) + 1].reserved0 = (IF f \in Lower THEN 24 ELSE 0)
         /\ Entries[f][Chain(f) + 1].text = Short[f]
<1>1. Chain(f) + 1 \in 1 .. Chain(f) + 1 /\ ~ (Chain(f) + 1 - (Chain(f) + 1) > 0)
  BY ChainRange
<1> QED BY <1>1 DEF Entries

\* Neither a slot that was never used nor one that was deleted.
Freed(e) == e.first = Deleted \/ (e.first = 0 /\ e.attr # FAT32_LONG_FILE_NAME)

\* No entry of a file looks free, and only those of its long name look like ones of a long name.
LEMMA EntriesOccupied ==
  ASSUME NEW f \in Files, NEW n \in 1 .. Chain(f) + 1
  PROVE  /\ Entries[f][n].first \in 0 .. 255 /\ Entries[f][n].attr \in 0 .. 255
         /\ Entries[f][n].first \notin {0, Deleted}
         /\ Entries[f][n].attr = FAT32_LONG_FILE_NAME <=> n <= Chain(f)
<1>1. CASE n \in 1 .. Chain(f)
  <2>1. /\ Entries[f][n].first = Chain(f) + 1 - n + (IF n = 1 THEN 64 ELSE 0)
        /\ Entries[f][n].attr = FAT32_LONG_FILE_NAME
    BY <1>1, LongEntry, Zenon
  <2>2. PICK c \in 1 .. 20, k \in 1 .. 20 : c = Chain(f) /\ k = n /\ k <= c
    BY <1>1, ChainRange
  <2>3. PICK b \in {0, 64} : Entries[f][n].first = c + 1 - k + b
    BY <2>1, <2>2
  <2>4. Entries[f][n].first \in 1 .. 84 /\ Entries[f][n].attr = 15
    BY <2>1, <2>2, <2>3 DEF FAT32_LONG_FILE_NAME
  <2>5. /\ Entries[f][n].first \in 0 .. 255 /\ Entries[f][n].attr \in 0 .. 255
        /\ Entries[f][n].first \notin {0, 229}
    BY <2>4
  <2> QED BY <1>1, <2>1, <2>5 DEF Deleted
<1>2. CASE n = Chain(f) + 1
  <2>1. Short[f][1] \in 0 .. 255 /\ Short[f][1] \notin {0, 229}
        /\ Attr[f] \in 0 .. 255 /\ Attr[f] # 15
    BY FirstOfName
  <2>2. Entries[f][n].first = Short[f][1] /\ Entries[f][n].attr = Attr[f]
    BY <1>2, ShortEntry
  <2>3. ~ (n <= Chain(f))
    BY <1>2, ChainRange
  <2> QED BY <2>1, <2>2, <2>3 DEF FAT32_LONG_FILE_NAME, Deleted
<1>3. n \in 1 .. Chain(f) \/ n = Chain(f) + 1
  <2>1. Chain(f) \in Nat
    BY ChainNat, Zenon
  <2> QED BY <2>1
<1> QED BY <1>1, <1>2, <1>3, Zenon

\* The bytes that the walk looks at first are bytes, also where an entry is deleted.
LEMMA EntryBytes ==
  /\ Deleted \in 0 .. 255
  /\ \A f \in Files : \A n \in 1 .. Chain(f) + 1 :
       Entries[f][n].first \in 0 .. 255 /\ Entries[f][n].attr \in 0 .. 255
<1>1. Deleted \in 0 .. 255
  BY DEF Deleted
<1> QED BY <1>1, EntriesOccupied, Zenon

\* Such a slot is skipped by the walk, one that holds an entry of a file is not.
LEMMA FreedIsFree ==
  ASSUME NEW d, Freed(dirs[d])
  PROVE  fat32_dirent_free(d)
<1>1. lfn_is_deleted(229)
  <2>1. \A bit \in {0, 2, 5, 6, 7} : (229 \div 2^bit) % 2 = 1
    <3>1. /\ (229 \div 1) % 2 = 1 /\ (229 \div 4) % 2 = 1 /\ (229 \div 32) % 2 = 1
          /\ (229 \div 64) % 2 = 1 /\ (229 \div 128) % 2 = 1
      OBVIOUS
    <3>2. /\ (229 \div 2^0) % 2 = 1 /\ (229 \div 2^2) % 2 = 1 /\ (229 \div 2^5) % 2 = 1
          /\ (229 \div 2^6) % 2 = 1 /\ (229 \div 2^7) % 2 = 1
      BY <3>1, Powers
    <3> QED BY <3>2, ZenonT(30)
  <2> QED BY <2>1 DEF lfn_is_deleted, is_attr
<1> QED BY <1>1 DEF Freed, fat32_dirent_free, Deleted

\* A slot that holds one of them is not passed over.
LEMMA OccupiedIsNot ==
  ASSUME NEW d, NEW f \in Files, NEW n \in 1 .. Chain(f) + 1, dirs[d] = Entries[f][n]
  PROVE  /\ ~ fat32_dirent_free(d) /\ ~ Freed(dirs[d]) /\ dirs[d].first \notin {0, Deleted}
         /\ n <= Chain(f) => ~ lfn_is_deleted(dirs[d].first)
<1>1. n <= Chain(f) => ~ lfn_is_deleted(dirs[d].first)
  <2>1. SUFFICES ASSUME n <= Chain(f) PROVE (dirs[d].first \div 2^7) % 2 # 1
    BY DEF lfn_is_deleted, is_attr
  <2>2. dirs[d].first \in 1 .. 84
    BY <2>1, LongEntry, ChainRange, SMTT(30)
  <2> QED BY <2>2, Powers
<1> QED BY <1>1, EntriesOccupied DEF Freed, fat32_dirent_free

-----------------------------------------------------------------------------
(* What the directory looks like while the host works on it.                *)

\* Where f's entries are when they begin at s, and that they are there.
Run(f, s) == s .. s + Chain(f)
Laid(f, s) == s \in 1 .. Slots - Chain(f) /\ \A k \in Run(f, s) : dirs[k] = Entries[f][k - s + 1]

\* Every slot belongs to one file of the directory, or is under way, or is free.
Tiled(place, half) ==
  /\ \A f \in live : Laid(f, place[f]) /\ Run(f, place[f]) \cap half = {}
  /\ \A f, g \in live : f # g => Run(f, place[f]) \cap Run(g, place[g]) = {}
  /\ \A k \in 1 .. Slots : Freed(dirs[k]) \/ k \in half \/ \E f \in live : k \in Run(f, place[f])

\* Nothing is under way: what the host has still to do is a whole write or erase.
Creating(f) ==
  doing \in { << <<"fat", f, 0>>, <<"fat2", f, 0>>, <<"write", f, 0>> >>,
             << <<"fat2", f, 0>>, <<"write", f, 0>> >>, << <<"write", f, 0>> >> }
Deleting(f) ==
  doing \in { << <<"erase", f, 0>>, <<"fat", f, 0>>, <<"fat2", f, 0>> >>,
             << <<"fat", f, 0>>, <<"fat2", f, 0>> >>, << <<"fat2", f, 0>> >> }
Whole == doing = <<>> \/ (\E f \in Files \ live : Creating(f)) \/ (\E f \in Files : Deleting(f))

\* One sector of a run is written or erased and the next is not.
Writing(f, s) ==
  /\ doing = << <<"write_rest", f, s>> >>
  /\ \A k \in Run(f, s) : SectorOf(k) = SectorOf(s) => dirs[k] = Entries[f][k - s + 1]
Erasing(f, s) ==
  /\ doing = << <<"erase_rest", f, s>>, <<"fat", f, 0>>, <<"fat2", f, 0>> >>
  /\ \A k \in Run(f, s) : SectorOf(k) = SectorOf(s) => Freed(dirs[k])
Half(half) ==
  \E f \in Files \ live : \E s \in 1 .. Slots - Chain(f) :
    half = Run(f, s) /\ (Writing(f, s) \/ Erasing(f, s))

\* The walk is at the start of a run or at a free slot, and printed what it passed.
Passed(place) == {f \in live : place[f] < i}
Walked(place) ==
  /\ \A f \in live : i <= place[f] \/ place[f] + Chain(f) < i
  /\ Len(printed) = Cardinality(Passed(place))
  /\ \A n \in 1 .. Len(printed) :
        \E f \in Passed(place) : printed[n] = <<place[f], place[f] + Chain(f)>>
  /\ \A f \in Passed(place) :
        \E n \in 1 .. Len(printed) : printed[n] = <<place[f], place[f] + Chain(f)>>
  /\ \A n \in 2 .. Len(printed) : printed[n][1] > printed[n - 1][2]

SteadyAt(place, half) ==
  /\ place \in [Files -> 1 .. Slots] /\ half \subseteq 1 .. Slots
  /\ Tiled(place, half)
  /\ (half = {} /\ Whole) \/ Half(half)
  /\ phase \in {"walk", "done"} /\ half = {} => Walked(place)

Steady == \E place, half : SteadyAt(place, half)

\* The rest of what is needed of each variable.
Ranges ==
  /\ \A k \in 1 .. Slots : dirs[k].first \in 0 .. 255 /\ dirs[k].attr \in 0 .. 255
  /\ card \in Cards /\ IsFiniteSet(live)
  /\ fat \subseteq Files /\ fat2 \subseteq Files /\ live \subseteq Files
  /\ phase \in {"host", "mount", "walk", "done", "refused", "panic"}
  /\ i \in 1 .. Slots + 1 /\ printed \in Seq(Int \X Int)
  /\ phase \in {"host", "mount"} => i = 1 /\ printed = <<>>
  /\ phase = "done" => i = Slots + 1

IInv == Ranges /\ CardsAccepted /\ PanicsOnlyOnUnhandled /\ Steady

\* An entry that its host deletes changes only in its first byte.
LEMMA ErasedEntry ==
  ASSUME NEW f \in Files, NEW n \in 1 .. Chain(f) + 1
  PROVE  /\ [Entries[f][n] EXCEPT !.first = Deleted].first = Deleted
         /\ [Entries[f][n] EXCEPT !.first = Deleted].attr = Entries[f][n].attr
<1>1. CASE Chain(f) + 1 - n > 0
  BY <1>1 DEF Entries
<1>2. CASE ~ (Chain(f) + 1 - n > 0)
  BY <1>2 DEF Entries
<1> QED BY <1>1, <1>2

\* The slots of a run.
LEMMA RunRange ==
  ASSUME NEW f \in Files, NEW s \in 1 .. Slots - Chain(f)
  PROVE  s \in 1 .. Slots /\ \A k \in Run(f, s) : k \in 1 .. Slots /\ k - s + 1 \in 1 .. Chain(f) + 1
BY ChainRange, Fat32Assumption DEF Run

\* A slot of a file's run holds an entry of the file, which the walk stops at.
LEMMA RunOccupied ==
  ASSUME NEW f \in Files, NEW s, Laid(f, s), NEW k \in Run(f, s)
  PROVE  /\ s \in 1 .. Slots /\ k \in 1 .. Slots /\ k - s + 1 \in 1 .. Chain(f) + 1
         /\ dirs[k] = Entries[f][k - s + 1]
         /\ ~ Freed(dirs[k]) /\ dirs[k].first \notin {0, Deleted} /\ ~ fat32_dirent_free(k)
<1>1. s \in 1 .. Slots /\ k \in 1 .. Slots /\ k - s + 1 \in 1 .. Chain(f) + 1
  BY RunRange DEF Laid
<1>2. dirs[k] = Entries[f][k - s + 1]
  BY DEF Laid
<1> QED BY <1>1, <1>2, OccupiedIsNot

\* A sector that holds the first and the last slot of a run holds all of it.
LEMMA OneSector ==
  ASSUME NEW f \in Files, NEW s \in 1 .. Slots, ~ Crosses(f, s), NEW k \in Run(f, s)
  PROVE  SectorOf(k) = SectorOf(s)
<1> DEFINE e == s + Chain(f)
<1>1. e \in Nat /\ s <= k /\ k <= e /\ k \in Nat /\ s >= 1
  BY ChainRange, Fat32Assumption DEF Run
<1>2. SectorOf(e) = SectorOf(s)
  BY DEF Crosses
<1>3. \A P \in Nat \ {0} : \A x, y, z \in Nat :
        x <= y /\ y <= z /\ z \div P = x \div P => y \div P = x \div P
  OBVIOUS
<1>4. PerSector \in Nat \ {0}
  BY Fat32Assumption
<1> HIDE DEF e
<1>5. s - 1 \in Nat /\ k - 1 \in Nat /\ e - 1 \in Nat /\ s - 1 <= k - 1 /\ k - 1 <= e - 1
  BY <1>1
<1> QED BY <1>2, <1>3, <1>4, <1>5 DEF SectorOf

\* The entries of a file, wherever they are found, are those of a file that is there.
LEMMA FoundRun ==
  ASSUME live \subseteq Files, NEW place \in [Files -> 1 .. Slots], Tiled(place, {}),
         NEW f \in Files, NEW s, Laid(f, s)
  PROVE  f \in live /\ s = place[f]
<1> DEFINE e == s + Chain(f)
<1>1. e \in Run(f, s) /\ s \in Nat
  BY ChainRange, Fat32Assumption DEF Run, Laid
<1>2. e \in 1 .. Slots /\ ~ Freed(dirs[e]) /\ dirs[e] = Entries[f][Chain(f) + 1]
  <2>1. e - s + 1 = Chain(f) + 1
    BY <1>1, ChainRange
  <2> HIDE DEF e
  <2> QED BY <1>1, <2>1, RunOccupied
<1> HIDE DEF e
<1>3. PICK g \in live : e \in Run(g, place[g])
  BY <1>2 DEF Tiled
<1>4. g \in Files /\ Laid(g, place[g])
  BY <1>3 DEF Tiled
<1> DEFINE n == e - place[g] + 1
<1>5. n \in 1 .. Chain(g) + 1 /\ dirs[e] = Entries[g][n]
  BY <1>3, <1>4, RunOccupied
<1>6. dirs[e].attr = Attr[f] /\ dirs[e].text = Short[f] /\ Attr[f] # FAT32_LONG_FILE_NAME
  BY <1>2, ShortEntry, FileNamed DEF FAT32_LONG_FILE_NAME
<1>7. n = Chain(g) + 1
  BY <1>4, <1>5, <1>6, LongEntry, ChainRange
<1>8. f = g
  <2>1. Short[g] = Short[f]
    BY <1>4, <1>5, <1>6, <1>7, ShortEntry
  <2> QED BY <2>1, <1>4, FilesAssumption, Zenon
<1>9. s = place[f]
  BY <1>1, <1>7, <1>8, ChainRange DEF e
<1> QED BY <1>8, <1>9

\* A step that leaves the runs of the files alone keeps the directory tiled.
LEMMA TiledNext ==
  ASSUME NEW place, NEW half, NEW rest, Tiled(place, half),
         \A f \in live' : f \in live /\ \A k \in Run(f, place[f]) : k \notin rest /\ dirs'[k] = dirs[k],
         \A k \in 1 .. Slots : \/ Freed(dirs'[k]) \/ k \in rest
                              \/ \E f \in live' : k \in Run(f, place[f])
  PROVE  Tiled(place, rest)'
<1>1. ASSUME NEW f \in live' PROVE Laid(f, place[f])' /\ Run(f, place[f]) \cap rest = {}
  BY <1>1 DEF Tiled, Laid
<1>2. \A f, g \in live' : f # g => Run(f, place[f]) \cap Run(g, place[g]) = {}
  BY DEF Tiled
<1> QED BY <1>1, <1>2 DEF Tiled

\* So does one that adds the run of a new file.
LEMMA TiledAdd ==
  ASSUME live \subseteq Files, NEW place \in [Files -> 1 .. Slots],
         NEW f \in Files \ live, NEW s \in 1 .. Slots - Chain(f),
         NEW half \in SUBSET Run(f, s), Tiled(place, half),
         \A g \in live : Run(g, place[g]) \cap Run(f, s) = {},
         live' = live \cup {f},
         \A k \in 1 .. Slots : dirs'[k] = (IF k \in Run(f, s) THEN Entries[f][k - s + 1] ELSE dirs[k])
  PROVE  /\ [place EXCEPT ![f] = s] \in [Files -> 1 .. Slots]
         /\ Tiled([place EXCEPT ![f] = s], {})'
<1> DEFINE to == [place EXCEPT ![f] = s]
<1>1. s \in 1 .. Slots /\ \A k \in Run(f, s) : k \in 1 .. Slots
  BY ChainRange, Fat32Assumption DEF Run
<1>2. to \in [Files -> 1 .. Slots] /\ to[f] = s /\ \A g \in live : to[g] = place[g]
  BY <1>1
<1> HIDE DEF to
<1>3. ASSUME NEW g \in live' PROVE Laid(g, to[g])'
  <2>1. CASE g = f
    BY <2>1, <1>1, <1>2 DEF Laid
  <2>2. CASE g # f
    <3>1. g \in live /\ Laid(g, place[g]) /\ g \in Files
      BY <2>2, <1>3 DEF Tiled
    <3>2. \A k \in Run(g, place[g]) : k \in 1 .. Slots /\ k \notin Run(f, s)
      BY <3>1, RunOccupied
    <3>3. \A k \in Run(g, place[g]) : dirs'[k] = dirs[k]
      BY <3>2
    <3> QED BY <3>1, <3>3, <1>2 DEF Laid
  <2> QED BY <2>1, <2>2
<1>4. ASSUME NEW g \in live', NEW h \in live', g # h
      PROVE  Run(g, to[g]) \cap Run(h, to[h]) = {}
  BY <1>2, <1>4 DEF Tiled
<1>5. ASSUME NEW k \in 1 .. Slots PROVE Freed(dirs'[k]) \/ \E g \in live' : k \in Run(g, to[g])
  <2>1. CASE k \in Run(f, s)
    BY <2>1, <1>2
  <2>2. CASE k \notin Run(f, s)
    <3>1. dirs'[k] = dirs[k] /\ k \notin half
      BY <2>2
    <3> QED BY <3>1, <1>2 DEF Tiled
  <2> QED BY <2>1, <2>2
<1>6. Tiled(to, {})'
  BY <1>3, <1>4, <1>5 DEF Tiled
<1> QED BY <1>2, <1>6 DEF to

-----------------------------------------------------------------------------
(* The invariant holds at first and after every step of the host.           *)

\* A slot that was never used.
LEMMA NeverFreed == Freed(Never) /\ Never.first = 0 /\ Never.attr = 0
BY DEF Freed, Never, FAT32_LONG_FILE_NAME

\* The invariant holds of an empty directory.
LEMMA InitInv == Init => IInv
<1> SUFFICES ASSUME Init PROVE IInv
  OBVIOUS
<1> USE DEF Init
<1>1. Ranges
  <2>1. IsFiniteSet(live) /\ printed \in Seq(Int \X Int)
    BY FS_EmptySet
  <2> QED BY <2>1, NeverFreed, Fat32Assumption DEF Ranges
<1>2. Steady
  <2> DEFINE place == [f \in Files |-> 1]
  <2>1. place \in [Files -> 1 .. Slots]
    BY Fat32Assumption
  <2> HIDE DEF place
  <2>2. Tiled(place, {})
    BY NeverFreed DEF Tiled
  <2>3. SteadyAt(place, {})
    BY <2>1, <2>2 DEF SteadyAt, Whole
  <2> QED BY <2>3 DEF Steady
<1> QED BY <1>1, <1>2 DEF IInv, CardsAccepted, PanicsOnlyOnUnhandled

\* A step of the host that writes nothing into the directory.
LEMMA SameDirectory ==
  ASSUME IInv, NEW place, NEW half, SteadyAt(place, half), phase = "host",
         (half = {} /\ Whole') \/ doing' = doing,
         fat' \subseteq Files, fat2' \subseteq Files, phase' \in {"host", "mount"},
         UNCHANGED <<card, dirs, live, i, printed>>
  PROVE  IInv'
<1>1. Ranges'
  BY DEF IInv, Ranges
<1>2. Tiled(place, half)'
  BY DEF SteadyAt, Tiled, Laid
<1>3. (half = {} /\ Whole') \/ Half(half)'
  <2>1. CASE doing' = doing
    BY <2>1 DEF SteadyAt, Whole, Creating, Deleting, Half, Writing, Erasing
  <2> QED BY <2>1
<1>4. SteadyAt(place, half)'
  BY <1>2, <1>3 DEF SteadyAt
<1> QED BY <1>1, <1>4 DEF IInv, Steady, CardsAccepted, PanicsOnlyOnUnhandled

\* What is under way, by the first thing the host has to do.
LEMMA DoingNow ==
  ASSUME NEW place, NEW half, SteadyAt(place, half)
  PROVE  /\ doing = <<>> => half = {} /\ Whole
         /\ doing # <<>> /\ Head(doing)[1] \in {"fat", "fat2", "write", "erase"} => half = {} /\ Whole
         /\ doing # <<>> /\ Head(doing)[1] \in {"write_rest", "erase_rest"} => Half(half)
         /\ Whole => ~ Torn
         /\ Half(half) => Torn
<1>1. Whole => doing = <<>> \/ Head(doing)[1] \in {"fat", "fat2", "write", "erase"}
  BY DEF Whole, Creating, Deleting
<1>2. Half(half) => doing # <<>> /\ Head(doing)[1] \in {"write_rest", "erase_rest"}
  <2> SUFFICES ASSUME Half(half) PROVE doing # <<>> /\ Head(doing)[1] \in {"write_rest", "erase_rest"}
    OBVIOUS
  <2>1. PICK f, s : Writing(f, s) \/ Erasing(f, s)
    BY DEF Half
  <2>2. CASE Writing(f, s)
    <3>1. Head(doing) = <<"write_rest", f, s>> /\ Len(doing) = 1
      BY <2>2 DEF Writing
    <3> QED BY <3>1
  <2>3. CASE Erasing(f, s)
    <3>1. Head(doing) = <<"erase_rest", f, s>> /\ Len(doing) = 3
      BY <2>3 DEF Erasing
    <3> QED BY <3>1
  <2> QED BY <2>1, <2>2, <2>3
<1>3. (half = {} /\ Whole) \/ Half(half)
  BY DEF SteadyAt
<1> QED BY <1>1, <1>2, <1>3 DEF Torn
\* The host begins a file: nothing on the card changes yet.
LEMMA CreateInv == ASSUME IInv, NEW f \in Files, Create(f) PROVE IInv'
<1>1. PICK place, half : SteadyAt(place, half)
  BY DEF IInv, Steady
<1>2. half = {} /\ Whole'
  BY <1>1, DoingNow DEF Create, Whole, Creating
<1> QED BY <1>1, <1>2, SameDirectory DEF Create, IInv, Ranges

\* The host begins to delete a file.
LEMMA DeleteInv == ASSUME IInv, NEW f \in Files, Delete(f) PROVE IInv'
<1>1. PICK place, half : SteadyAt(place, half)
  BY DEF IInv, Steady
<1>2. half = {} /\ Whole'
  BY <1>1, DoingNow DEF Delete, Whole, Deleting
<1> QED BY <1>1, <1>2, SameDirectory DEF Delete, IInv, Ranges

\* The host writes one FAT.
LEMMA HostFatInv == ASSUME IInv, HostFat PROVE IInv'
<1>1. PICK place, half : SteadyAt(place, half)
  BY DEF IInv, Steady
<1>2. /\ phase = "host" /\ doing # <<>> /\ Head(doing)[1] \in {"fat", "fat2"} /\ doing' = Tail(doing)
      /\ UNCHANGED <<card, dirs, live, phase, i, printed>>
  BY DEF HostFat, Doing, Written
<1>3. half = {} /\ Whole
  BY <1>1, <1>2, DoingNow
<1>4. Whole'
  <2>1. CASE \E f \in Files \ live : Creating(f)
    <3>1. PICK f \in Files \ live : Creating(f)
      BY <2>1
    <3>2. CASE doing = << <<"fat", f, 0>>, <<"fat2", f, 0>>, <<"write", f, 0>> >>
      <4>1. doing' = << <<"fat2", f, 0>>, <<"write", f, 0>> >>
        BY <3>2, <1>2
      <4> QED BY <4>1, <1>2 DEF Whole, Creating
    <3>3. CASE doing = << <<"fat2", f, 0>>, <<"write", f, 0>> >>
      <4>1. doing' = << <<"write", f, 0>> >>
        BY <3>3, <1>2
      <4> QED BY <4>1, <1>2 DEF Whole, Creating
    <3>4. doing # << <<"write", f, 0>> >>
      BY <1>2
    <3> QED BY <3>1, <3>2, <3>3, <3>4 DEF Creating
  <2>2. CASE \E f \in Files : Deleting(f)
    <3>1. PICK f \in Files : Deleting(f)
      BY <2>2
    <3>2. CASE doing = << <<"fat", f, 0>>, <<"fat2", f, 0>> >>
      <4>1. doing' = << <<"fat2", f, 0>> >>
        BY <3>2, <1>2
      <4> QED BY <4>1, <1>2 DEF Whole, Deleting
    <3>3. CASE doing = << <<"fat2", f, 0>> >>
      <4>1. doing' = <<>>
        BY <3>3, <1>2
      <4> QED BY <4>1 DEF Whole
    <3>4. doing # << <<"erase", f, 0>>, <<"fat", f, 0>>, <<"fat2", f, 0>> >>
      BY <1>2
    <3> QED BY <3>1, <3>2, <3>3, <3>4 DEF Deleting
  <2> QED BY <1>2, <1>3, <2>1, <2>2 DEF Whole
<1>5. fat' \subseteq Files /\ fat2' \subseteq Files
  <2>1. Head(doing)[2] \in Files
    BY <1>2, <1>3 DEF Whole, Creating, Deleting
  <2> QED BY <2>1 DEF HostFat, IInv, Ranges
<1> QED BY <1>1, <1>2, <1>3, <1>4, <1>5, SameDirectory

\* The card is pulled, half written or not.
LEMMA PullInv == ASSUME IInv, Pull PROVE IInv'
<1>1. PICK place, half : SteadyAt(place, half)
  BY DEF IInv, Steady
<1> QED BY <1>1, SameDirectory DEF Pull, IInv, Ranges

\* A step of the host that writes slots of the directory.
LEMMA NewDirectory ==
  ASSUME IInv, phase = "host", UNCHANGED <<card, fat, fat2, phase, i, printed>>,
         live' \subseteq Files, IsFiniteSet(live'),
         \A k \in 1 .. Slots : dirs'[k].first \in 0 .. 255 /\ dirs'[k].attr \in 0 .. 255,
         NEW place \in [Files -> 1 .. Slots], NEW half \in SUBSET (1 .. Slots), Tiled(place, half)',
         (half = {} /\ Whole') \/ Half(half)'
  PROVE  IInv'
<1>1. Ranges'
  BY DEF IInv, Ranges
<1>2. SteadyAt(place, half)'
  BY DEF SteadyAt
<1> QED BY <1>1, <1>2 DEF IInv, Steady, CardsAccepted, PanicsOnlyOnUnhandled
\* The entries that Put() writes are those of the file.
LEMMA HostWriteInv == ASSUME IInv, HostWrite PROVE IInv'
<1>1. PICK place, half : SteadyAt(place, half)
  BY DEF IInv, Steady
<1>2. phase = "host" /\ doing # <<>> /\ Head(doing)[1] = "write"
  BY DEF HostWrite, Doing
<1>3. half = {} /\ \E g \in Files \ live : g = Head(doing)[2]
  <2>1. half = {} /\ Whole
    BY <1>1, <1>2, DoingNow
  <2>2. PICK g \in Files \ live : Creating(g)
    BY <2>1, <1>2 DEF Whole, Deleting
  <2> QED BY <2>1, <2>2, <1>2 DEF Creating
<1> PICK f \in Files \ live : f = Head(doing)[2]
  BY <1>3
<1>4. PICK s \in 1 .. Slots - Chain(f) :
        /\ \A k \in Run(f, s) : dirs[k].first \in {0, Deleted}
        /\ dirs' = [k \in 1 .. Slots |-> IF k \in Run(f, s) /\ SectorOf(k) = SectorOf(s)
                                        THEN Entries[f][k - s + 1] ELSE dirs[k]]
        /\ IF Crosses(f, s) THEN doing' = << <<"write_rest", f, s>> >> /\ live' = live
           ELSE doing' = <<>> /\ live' = live \cup {f}
  BY DEF HostWrite, Put, Run
<1>5. /\ live \subseteq Files /\ IsFiniteSet(live) /\ place \in [Files -> 1 .. Slots]
      /\ Tiled(place, {}) /\ UNCHANGED <<card, fat, fat2, phase, i, printed>>
  BY <1>1, <1>3 DEF HostWrite, IInv, Ranges, SteadyAt
<1>6. s \in 1 .. Slots /\ \A k \in Run(f, s) : k \in 1 .. Slots /\ k - s + 1 \in 1 .. Chain(f) + 1
  BY RunRange
<1>7. \A g \in live : Run(g, place[g]) \cap Run(f, s) = {}
  <2> SUFFICES ASSUME NEW g \in live, NEW k \in Run(g, place[g]), k \in Run(f, s) PROVE FALSE
    OBVIOUS
  <2>1. g \in Files /\ Laid(g, place[g])
    BY <1>5 DEF Tiled
  <2> QED BY <2>1, <1>4, RunOccupied
<1>8. \A k \in 1 .. Slots : dirs'[k].first \in 0 .. 255 /\ dirs'[k].attr \in 0 .. 255
  <2> SUFFICES ASSUME NEW k \in 1 .. Slots PROVE dirs'[k].first \in 0 .. 255 /\ dirs'[k].attr \in 0 .. 255
    OBVIOUS
  <2>1. dirs[k].first \in 0 .. 255 /\ dirs[k].attr \in 0 .. 255
    BY Zenon DEF IInv, Ranges
  <2>2. k \in Run(f, s) => k - s + 1 \in 1 .. Chain(f) + 1
    BY <1>6, Zenon
  <2>3. CASE k \in Run(f, s) /\ SectorOf(k) = SectorOf(s)
    <3>1. dirs'[k] = Entries[f][k - s + 1]
      BY <1>4, <2>3, Zenon
    <3>2. f \in Files /\ k - s + 1 \in 1 .. Chain(f) + 1
      BY <2>2, <2>3, Zenon
    <3>3. Entries[f][k - s + 1].first \in 0 .. 255 /\ Entries[f][k - s + 1].attr \in 0 .. 255
      BY <3>2, EntryBytes, Zenon
    <3> QED BY <3>1, <3>3, Zenon
  <2>4. CASE ~ (k \in Run(f, s) /\ SectorOf(k) = SectorOf(s))
    <3>1. dirs'[k] = dirs[k]
      BY <1>4, <2>4, Zenon
    <3> QED BY <2>1, <3>1, Zenon
  <2> QED BY <2>3, <2>4, Zenon
<1>9. CASE Crosses(f, s)
  <2>1. doing' = << <<"write_rest", f, s>> >> /\ live' = live
    BY <1>9, <1>4
  <2>2. Half(Run(f, s))'
    <3>1. \A k \in Run(f, s) : SectorOf(k) = SectorOf(s) => dirs'[k] = Entries[f][k - s + 1]
      BY <1>4, <1>6
    <3>2. Writing(f, s)'
      BY <3>1, <2>1 DEF Writing
    <3> QED BY <3>2, <2>1, <1>3, <1>4 DEF Half
  <2>3. Tiled(place, Run(f, s))'
    <3>1. \A g \in live : \A k \in Run(g, place[g]) : k \notin Run(f, s) /\ k \in 1 .. Slots
      BY <1>5, <1>7, RunOccupied DEF Tiled
    <3>2. \A g \in live' : g \in live /\ \A k \in Run(g, place[g]) : k \notin Run(f, s) /\ dirs'[k] = dirs[k]
      BY <3>1, <2>1, <1>4
    <3>3. \A k \in 1 .. Slots : \/ Freed(dirs'[k]) \/ k \in Run(f, s)
                               \/ \E g \in live' : k \in Run(g, place[g])
      BY <1>4, <1>5, <2>1 DEF Tiled
    <3> QED BY <3>2, <3>3, <1>5, TiledNext
  <2>4. Run(f, s) \in SUBSET (1 .. Slots)
    BY <1>6
  <2> QED BY <2>1, <2>2, <2>3, <2>4, <1>2, <1>5, <1>8, NewDirectory
<1>10. CASE ~ Crosses(f, s)
  <2>1. doing' = <<>> /\ live' = live \cup {f}
    BY <1>10, <1>4
  <2>2. \A k \in 1 .. Slots : dirs'[k] = (IF k \in Run(f, s) THEN Entries[f][k - s + 1] ELSE dirs[k])
    <3>1. \A k \in Run(f, s) : SectorOf(k) = SectorOf(s)
      BY <1>3, <1>6, <1>10, OneSector
    <3> QED BY <3>1, <1>4
  <2>3. /\ [place EXCEPT ![f] = s] \in [Files -> 1 .. Slots]
        /\ Tiled([place EXCEPT ![f] = s], {})'
    <3>1. {} \in SUBSET Run(f, s)
      OBVIOUS
    <3> QED BY <3>1, <2>1, <2>2, <1>3, <1>4, <1>5, <1>7, TiledAdd
  <2>4. Whole' /\ live' \subseteq Files /\ IsFiniteSet(live')
    BY <2>1, <1>3, <1>5, FS_AddElement DEF Whole
  <2> QED BY <2>3, <2>4, <1>2, <1>5, <1>8, NewDirectory
<1> QED BY <1>9, <1>10
\* The host writes what of the run lies in the next sector, and the file is there.
LEMMA HostWriteRestInv == ASSUME IInv, HostWriteRest PROVE IInv'
<1>1. PICK place, half : SteadyAt(place, half)
  BY DEF IInv, Steady
<1>2. phase = "host" /\ doing # <<>> /\ Head(doing)[1] = "write_rest"
  BY DEF HostWriteRest, Doing
<1>a. PICK f \in Files \ live : \E s \in 1 .. Slots - Chain(f) :
        half = Run(f, s) /\ (Writing(f, s) \/ Erasing(f, s))
  BY <1>1, <1>2, DoingNow DEF Half
<1>3. PICK s \in 1 .. Slots - Chain(f) : half = Run(f, s) /\ (Writing(f, s) \/ Erasing(f, s))
  BY <1>a
<1>4. Writing(f, s) /\ Head(doing)[2] = f /\ Head(doing)[3] = s /\ Tail(doing) = <<>>
  <2>1. doing = << <<"write_rest", f, s>> >> /\ Writing(f, s)
    BY <1>2, <1>3 DEF Writing, Erasing
  <2>2. Head(doing) = <<"write_rest", f, s>> /\ Tail(doing) = <<>>
    BY <2>1
  <2> QED BY <2>1, <2>2
<1>5. /\ dirs' = [k \in 1 .. Slots |-> IF k \in Run(f, s) /\ SectorOf(k) # SectorOf(s)
                                      THEN Entries[f][k - s + 1] ELSE dirs[k]]
      /\ doing' = <<>> /\ live' = live \cup {f}
      /\ UNCHANGED <<card, fat, fat2, phase, i, printed>>
  BY <1>4 DEF HostWriteRest, Put, Run, Written
<1>6. s \in 1 .. Slots /\ \A k \in Run(f, s) : k \in 1 .. Slots /\ k - s + 1 \in 1 .. Chain(f) + 1
  BY RunRange
<1>7. \A k \in 1 .. Slots : dirs'[k] = (IF k \in Run(f, s) THEN Entries[f][k - s + 1] ELSE dirs[k])
  BY <1>4, <1>5 DEF Writing
<1>8. \A k \in 1 .. Slots : dirs'[k].first \in 0 .. 255 /\ dirs'[k].attr \in 0 .. 255
  <2> SUFFICES ASSUME NEW k \in 1 .. Slots PROVE dirs'[k].first \in 0 .. 255 /\ dirs'[k].attr \in 0 .. 255
    OBVIOUS
  <2>1. CASE k \in Run(f, s)
    <3>1. dirs'[k] = Entries[f][k - s + 1] /\ k - s + 1 \in 1 .. Chain(f) + 1
      BY <2>1, <1>6, <1>7
    <3>2. f \in Files /\ k - s + 1 \in 1 .. Chain(f) + 1
      BY <3>1, Zenon
    <3>3. Entries[f][k - s + 1].first \in 0 .. 255 /\ Entries[f][k - s + 1].attr \in 0 .. 255
      BY <3>2, EntryBytes, Zenon
    <3> QED BY <3>1, <3>3, Zenon
  <2>2. CASE k \notin Run(f, s)
    BY <2>2, <1>7 DEF IInv, Ranges
  <2> QED BY <2>1, <2>2
<1>9. /\ live \subseteq Files /\ IsFiniteSet(live) /\ place \in [Files -> 1 .. Slots]
      /\ Tiled(place, half) /\ half \in SUBSET Run(f, s)
  BY <1>1, <1>3 DEF IInv, Ranges, SteadyAt
<1>10. \A g \in live : Run(g, place[g]) \cap Run(f, s) = {}
  BY <1>3, <1>9 DEF Tiled
<1>11. /\ [place EXCEPT ![f] = s] \in [Files -> 1 .. Slots]
       /\ Tiled([place EXCEPT ![f] = s], {})'
  BY <1>5, <1>7, <1>9, <1>10, TiledAdd
<1>12. Whole' /\ live' \subseteq Files /\ IsFiniteSet(live')
  BY <1>5, <1>9, FS_AddElement DEF Whole
<1> QED BY <1>2, <1>5, <1>8, <1>11, <1>12, NewDirectory

\* The jobs of a delete that was interrupted by a sector.
LEMMA OneAndTwo == \A a, b, c : <<a>> \o <<b, c>> = <<a, b, c>>
<1> SUFFICES ASSUME NEW a, NEW b, NEW c PROVE <<a>> \o <<b, c>> = <<a, b, c>>
  OBVIOUS
<1> DEFINE S == {a, b, c}
<1>1. /\ <<a>> \in Seq(S) /\ <<b, c>> \in Seq(S) /\ <<a, b, c>> \in Seq(S)
      /\ Len(<<a>>) = 1 /\ Len(<<b, c>>) = 2 /\ Len(<<a, b, c>>) = 3
  OBVIOUS
<1> HIDE DEF S
<1>2. /\ <<a>> \o <<b, c>> \in Seq(S) /\ Len(<<a>> \o <<b, c>>) = 3
      /\ \A k \in 1 .. 3 : (<<a>> \o <<b, c>>)[k] = (IF k <= 1 THEN <<a>>[k] ELSE <<b, c>>[k - 1])
  BY <1>1, ConcatProperties
<1>3. \A k \in 1 .. 3 : (<<a>> \o <<b, c>>)[k] = <<a, b, c>>[k]
  BY <1>2
<1> QED BY <1>1, <1>2, <1>3, SeqEqual

\* The host erases a run, or what of it lies in its first sector.
LEMMA HostEraseInv == ASSUME IInv, HostErase PROVE IInv'
<1>1. PICK place, half : SteadyAt(place, half)
  BY DEF IInv, Steady
<1>2. phase = "host" /\ doing # <<>> /\ Head(doing)[1] = "erase"
  BY DEF HostErase, Doing
<1>3. half = {} /\ \E g \in Files : doing = << <<"erase", g, 0>>, <<"fat", g, 0>>, <<"fat2", g, 0>> >>
  <2>1. half = {} /\ Whole
    BY <1>1, <1>2, DoingNow
  <2>2. PICK g \in Files : Deleting(g)
    BY <2>1, <1>2 DEF Whole, Creating
  <2> QED BY <2>1, <2>2, <1>2 DEF Deleting
<1>4. PICK f \in Files : doing = << <<"erase", f, 0>>, <<"fat", f, 0>>, <<"fat2", f, 0>> >>
  BY <1>3
<1>5. Head(doing)[2] = f /\ Tail(doing) = << <<"fat", f, 0>>, <<"fat2", f, 0>> >>
  BY <1>4
<1>6. PICK s \in 1 .. Slots - Chain(f) :
        /\ \A k \in Run(f, s) : dirs[k] = Entries[f][k - s + 1]
        /\ dirs' = [k \in 1 .. Slots |-> IF k \in Run(f, s) /\ SectorOf(k) = SectorOf(s)
                                        THEN [Entries[f][k - s + 1] EXCEPT !.first = Deleted] ELSE dirs[k]]
        /\ doing' = (IF Crosses(f, s) THEN << <<"erase_rest", f, s>> >> ELSE <<>>) \o Tail(doing)
        /\ live' = live \ {f}
  BY <1>5 DEF HostErase, Put, Run
<1>7. /\ live \subseteq Files /\ IsFiniteSet(live) /\ place \in [Files -> 1 .. Slots]
      /\ Tiled(place, {}) /\ UNCHANGED <<card, fat, fat2, phase, i, printed>>
  BY <1>1, <1>3 DEF HostErase, IInv, Ranges, SteadyAt
<1>8. s \in 1 .. Slots /\ \A k \in Run(f, s) : k \in 1 .. Slots /\ k - s + 1 \in 1 .. Chain(f) + 1
  BY RunRange
<1>9. f \in live /\ s = place[f]
  <2>1. Laid(f, s)
    BY <1>6 DEF Laid
  <2> QED BY <2>1, <1>7, FoundRun
<1>10. \A k \in Run(f, s) : SectorOf(k) = SectorOf(s) =>
          /\ Freed(dirs'[k]) /\ dirs'[k].first = Deleted
          /\ dirs'[k].attr = Entries[f][k - s + 1].attr
  BY <1>6, <1>8, ErasedEntry DEF Freed
<1>11. \A k \in 1 .. Slots : dirs'[k].first \in 0 .. 255 /\ dirs'[k].attr \in 0 .. 255
  <2> SUFFICES ASSUME NEW k \in 1 .. Slots PROVE dirs'[k].first \in 0 .. 255 /\ dirs'[k].attr \in 0 .. 255
    OBVIOUS
  <2>1. CASE k \in Run(f, s) /\ SectorOf(k) = SectorOf(s)
    <3>1. k - s + 1 \in 1 .. Chain(f) + 1 /\ dirs'[k].attr = Entries[f][k - s + 1].attr
          /\ dirs'[k].first = Deleted
      BY <2>1, <1>8, <1>10
    <3>2. Entries[f][k - s + 1].attr \in 0 .. 255
      BY <3>1, EntryBytes, Zenon
    <3> QED BY <3>1, <3>2, EntryBytes, Zenon
  <2>2. CASE ~ (k \in Run(f, s) /\ SectorOf(k) = SectorOf(s))
    <3>1. dirs'[k] = dirs[k]
      BY <2>2, <1>6
    <3> QED BY <3>1 DEF IInv, Ranges
  <2> QED BY <2>1, <2>2
<1>12. \A k \in 1 .. Slots : k \notin Run(f, s) => dirs'[k] = dirs[k]
  BY <1>6
<1>13. \A g \in live' : g \in live /\ \A k \in Run(g, place[g]) : k \notin Run(f, s) /\ dirs'[k] = dirs[k]
  <2> SUFFICES ASSUME NEW g \in live', NEW k \in Run(g, place[g])
               PROVE  k \notin Run(f, s) /\ dirs'[k] = dirs[k]
    BY <1>6
  <2>1. g \in live /\ g # f /\ k \notin Run(f, s)
    BY <1>6, <1>7, <1>9 DEF Tiled
  <2>2. k \in 1 .. Slots
    BY <2>1, <1>7, RunOccupied DEF Tiled
  <2> QED BY <2>1, <2>2, <1>12
<1>14. \A k \in 1 .. Slots : k \notin Run(f, s) =>
          Freed(dirs'[k]) \/ \E g \in live' : k \in Run(g, place[g])
  BY <1>6, <1>7, <1>9, <1>12 DEF Tiled
<1>15. IsFiniteSet(live')
  BY <1>6, <1>7, FS_Subset
<1>16. CASE Crosses(f, s)
  <2>1. doing' = << <<"erase_rest", f, s>>, <<"fat", f, 0>>, <<"fat2", f, 0>> >>
    <3>1. doing' = << <<"erase_rest", f, s>> >> \o << <<"fat", f, 0>>, <<"fat2", f, 0>> >>
      BY <1>5, <1>6, <1>16
    <3> QED BY <3>1, OneAndTwo, Zenon
  <2>2. Half(Run(f, s))'
    <3>1. Erasing(f, s)'
      BY <2>1, <1>10 DEF Erasing
    <3> QED BY <3>1, <1>6 DEF Half
  <2>3. Tiled(place, Run(f, s))'
    BY <1>7, <1>13, <1>14, TiledNext
  <2>4. Run(f, s) \in SUBSET (1 .. Slots)
    BY <1>8
  <2> QED BY <2>2, <2>3, <2>4, <1>2, <1>6, <1>7, <1>11, <1>15, NewDirectory
<1>17. CASE ~ Crosses(f, s)
  <2>1. doing' = << <<"fat", f, 0>>, <<"fat2", f, 0>> >>
    BY <1>5, <1>6, <1>17
  <2>2. Whole'
    BY <2>1 DEF Whole, Deleting
  <2>3. Tiled(place, {})'
    <3>1. \A k \in Run(f, s) : Freed(dirs'[k])
      BY <1>8, <1>10, <1>17, OneSector
    <3>2. \A k \in 1 .. Slots : Freed(dirs'[k]) \/ \E g \in live' : k \in Run(g, place[g])
      BY <3>1, <1>14
    <3> QED BY <3>2, <1>7, <1>13, TiledNext
  <2> QED BY <2>2, <2>3, <1>2, <1>6, <1>7, <1>11, <1>15, NewDirectory
<1> QED BY <1>16, <1>17

\* The host erases the rest of a run.
LEMMA HostEraseRestInv == ASSUME IInv, HostEraseRest PROVE IInv'
<1>1. PICK place, half : SteadyAt(place, half)
  BY DEF IInv, Steady
<1>2. phase = "host" /\ doing # <<>> /\ Head(doing)[1] = "erase_rest"
  BY DEF HostEraseRest, Doing
<1>a. PICK f \in Files \ live : \E s \in 1 .. Slots - Chain(f) :
        half = Run(f, s) /\ (Writing(f, s) \/ Erasing(f, s))
  BY <1>1, <1>2, DoingNow DEF Half
<1>3. PICK s \in 1 .. Slots - Chain(f) : half = Run(f, s) /\ (Writing(f, s) \/ Erasing(f, s))
  BY <1>a
<1>4. doing = << <<"erase_rest", f, s>>, <<"fat", f, 0>>, <<"fat2", f, 0>> >> /\ Erasing(f, s)
  BY <1>2, <1>3 DEF Writing, Erasing
<1>5. Head(doing)[2] = f /\ Head(doing)[3] = s /\ Tail(doing) = << <<"fat", f, 0>>, <<"fat2", f, 0>> >>
  <2>1. Head(doing) = <<"erase_rest", f, s>> /\ Tail(doing) = << <<"fat", f, 0>>, <<"fat2", f, 0>> >>
    BY <1>4
  <2> QED BY <2>1
<1>6. /\ dirs' = [k \in 1 .. Slots |-> IF k \in Run(f, s) /\ SectorOf(k) # SectorOf(s)
                                      THEN [Entries[f][k - s + 1] EXCEPT !.first = Deleted] ELSE dirs[k]]
      /\ doing' = Tail(doing) /\ UNCHANGED <<card, fat, fat2, live, phase, i, printed>>
  BY <1>5 DEF HostEraseRest, Put, Run, Written
<1>7. s \in 1 .. Slots /\ \A k \in Run(f, s) : k \in 1 .. Slots /\ k - s + 1 \in 1 .. Chain(f) + 1
  BY RunRange
<1>8. /\ live \subseteq Files /\ IsFiniteSet(live) /\ place \in [Files -> 1 .. Slots]
      /\ Tiled(place, Run(f, s))
  BY <1>1, <1>3 DEF IInv, Ranges, SteadyAt
<1>9. \A k \in Run(f, s) : Freed(dirs'[k])
  <2> SUFFICES ASSUME NEW k \in Run(f, s) PROVE Freed(dirs'[k])
    OBVIOUS
  <2>1. CASE SectorOf(k) = SectorOf(s)
    BY <2>1, <1>4, <1>6, <1>7 DEF Erasing
  <2>2. CASE SectorOf(k) # SectorOf(s)
    BY <2>2, <1>6, <1>7, ErasedEntry DEF Freed
  <2> QED BY <2>1, <2>2
<1>10. \A k \in 1 .. Slots : dirs'[k].first \in 0 .. 255 /\ dirs'[k].attr \in 0 .. 255
  <2> SUFFICES ASSUME NEW k \in 1 .. Slots PROVE dirs'[k].first \in 0 .. 255 /\ dirs'[k].attr \in 0 .. 255
    OBVIOUS
  <2>1. CASE k \in Run(f, s) /\ SectorOf(k) # SectorOf(s)
    <3>1. k - s + 1 \in 1 .. Chain(f) + 1
          /\ dirs'[k] = [Entries[f][k - s + 1] EXCEPT !.first = Deleted]
      BY <2>1, <1>6, <1>7
    <3>2. dirs'[k].attr = Entries[f][k - s + 1].attr /\ dirs'[k].first = Deleted
      BY <3>1, ErasedEntry
    <3>3. Entries[f][k - s + 1].attr \in 0 .. 255
      BY <3>1, EntryBytes, Zenon
    <3> QED BY <3>2, <3>3, EntryBytes, Zenon
  <2>2. CASE ~ (k \in Run(f, s) /\ SectorOf(k) # SectorOf(s))
    <3>1. dirs'[k] = dirs[k]
      BY <2>2, <1>6
    <3> QED BY <3>1 DEF IInv, Ranges
  <2> QED BY <2>1, <2>2
<1>11. \A k \in 1 .. Slots : k \notin Run(f, s) => dirs'[k] = dirs[k]
  BY <1>6
<1>12. \A g \in live' : g \in live /\ \A k \in Run(g, place[g]) : k \notin {} /\ dirs'[k] = dirs[k]
  <2> SUFFICES ASSUME NEW g \in live, NEW k \in Run(g, place[g]) PROVE dirs'[k] = dirs[k]
    BY <1>6
  <2>1. k \notin Run(f, s)
    BY <1>8 DEF Tiled
  <2>2. k \in 1 .. Slots
    BY <1>8, RunOccupied DEF Tiled
  <2> QED BY <2>1, <2>2, <1>11
<1>13. \A k \in 1 .. Slots : \/ Freed(dirs'[k]) \/ k \in {} \/ \E g \in live' : k \in Run(g, place[g])
  BY <1>6, <1>8, <1>9, <1>11 DEF Tiled
<1>14. Tiled(place, {})'
  BY <1>8, <1>12, <1>13, TiledNext
<1>15. Whole'
  BY <1>5, <1>6 DEF Whole, Deleting
<1> QED BY <1>2, <1>6, <1>8, <1>10, <1>14, <1>15, NewDirectory

-----------------------------------------------------------------------------
(* Layouts: every field follows the one before it.                          *)

\* A sequence of m elements; two of them, one after the other.
OfLength(s, m) == s = [k \in 1 .. m |-> s[k]]
Joined(s, m, t, n) == [k \in 1 .. m + n |-> IF k <= m THEN s[k] ELSE t[k - m]]

\* Both are the sequences that the model means.
LEMMA Concatenated ==
  ASSUME NEW m \in Nat, NEW n \in Nat, NEW s, NEW t, OfLength(s, m), OfLength(t, n)
  PROVE  s \o t = Joined(s, m, t, n)
<1> DEFINE S == {s[k] : k \in 1 .. m} \cup {t[k] : k \in 1 .. n}
<1>1. s \in [1 .. m -> S] /\ t \in [1 .. n -> S]
  BY DEF OfLength
<1> HIDE DEF S
<1>2. \A k \in Nat : \A x \in [1 .. k -> S] : x \in Seq(S) /\ Len(x) = k
  OBVIOUS
<1>3. s \in Seq(S) /\ t \in Seq(S) /\ Len(s) = m /\ Len(t) = n
  BY <1>1, <1>2
<1> DEFINE u == s \o t
           v == [k \in 1 .. m + n |-> IF k <= m THEN s[k] ELSE t[k - m]]
<1>4. /\ u \in Seq(S) /\ Len(u) = m + n
      /\ \A k \in 1 .. m + n : u[k] = IF k <= m THEN s[k] ELSE t[k - m]
  BY <1>3, ConcatProperties
<1>5. /\ v = [k \in 1 .. m + n |-> v[k]]
      /\ \A k \in 1 .. m + n : v[k] = IF k <= m THEN s[k] ELSE t[k - m]
  OBVIOUS
<1> HIDE DEF u, v
<1>6. u = [k \in 1 .. m + n |-> u[k]]
  <2>1. \A x \in Seq(S) : x = [k \in 1 .. Len(x) |-> x[k]]
    OBVIOUS
  <2> QED BY <2>1, <1>4
<1>7. u = v
  BY <1>4, <1>5, <1>6
<1> QED BY <1>7 DEF u, v, Joined

\* What the fields of a layout end at, each from the one before.
Ending(ends, N, layout) ==
  /\ \A n \in 1 .. N : ends[n] \in Nat /\ layout[n][2] \in Nat
  /\ \A n \in 1 .. N : ends[n] = (IF n = 1 THEN 0 ELSE ends[n - 1]) + layout[n][2]

\* The width of a layout is where its last field ends.
LEMMA WidthIsEnd ==
  ASSUME NEW N \in Nat \ {0}, NEW layout, Len(layout) = N, NEW ends, Ending(ends, N, layout)
  PROVE  Width(layout) = ends[N]
<1> DEFINE Up(h) == h = [n \in 0 .. N |-> IF n = 0 THEN 0 ELSE h[n - 1] + layout[n][2]]
           u == CHOOSE h : Up(h)
           g == [n \in 0 .. N |-> IF n = 0 THEN 0 ELSE ends[n]]
           T == {n \in 0 .. N : u[n] = g[n]}
<1>1. Width(layout) = u[N]
  BY DEF Width
<1>2. g[0] = 0 /\ \A n \in 1 .. N : g[n] = g[n - 1] + layout[n][2]
  BY DEF Ending
<1>3. Up(g)
  <2> DEFINE h == [n \in 0 .. N |-> IF n = 0 THEN 0 ELSE g[n - 1] + layout[n][2]]
  <2>1. \A n \in 0 .. N : n # 0 => n \in 1 .. N
    OBVIOUS
  <2>2. g = [n \in 0 .. N |-> g[n]]
    OBVIOUS
  <2> HIDE DEF g
  <2>3. \A n \in 0 .. N : h[n] = g[n]
    BY <1>2, <2>1, Zenon
  <2>4. h = [n \in 0 .. N |-> h[n]]
    OBVIOUS
  <2> HIDE DEF h
  <2>5. h = g
    BY <2>2, <2>3, <2>4
  <2> QED BY <2>5, Zenon DEF h
<1> HIDE DEF g
<1>4. Up(u)
  <2> HIDE DEF Up
  <2> QED BY <1>3 DEF u
<1> HIDE DEF u
<1>5. u[0] = 0 /\ \A n \in 1 .. N : u[n] = u[n - 1] + layout[n][2]
  BY <1>4
<1>6. \A n \in 0 .. N : n \in T
  <2> HIDE DEF Up
  <2>1. 0 \in T
    BY <1>2, <1>5
  <2>2. ASSUME NEW n \in 1 .. N, n - 1 \in T PROVE n \in T
    <3>1. u[n - 1] = g[n - 1] /\ n \in 0 .. N
      BY <2>2
    <3>2. u[n] = g[n]
      BY <3>1, <1>2, <1>5, Zenon
    <3> QED BY <3>1, <3>2
  <2> HIDE DEF T
  <2> QED BY <2>1, <2>2, BoundedInduction
<1> QED BY <1>1, <1>6 DEF g

\* So is the place of every field where the one before it ends.
LEMMA PlacesFollow ==
  ASSUME NEW N \in Nat \ {0}, NEW layout, OfLength(layout, N), NEW ends, Ending(ends, N, layout)
  PROVE  /\ Width(layout) = ends[N]
         /\ \A n \in 1 .. N : \A x, w :
              layout[n] = <<x, w>> => <<x, ends[n] - w, w>> \in Places(layout)
<1>1. Len(layout) = N /\ DOMAIN layout = 1 .. N
  <2>1. \A s : s = [n \in 1 .. N |-> s[n]] => Len(s) = N /\ DOMAIN s = 1 .. N
    OBVIOUS
  <2> QED BY <2>1 DEF OfLength
<1>2. ASSUME NEW n \in 1 .. N PROVE Offset(layout, n) = ends[n] - layout[n][2]
  <2> DEFINE part == SubSeq(layout, 1, n - 1)
  <2>1. /\ Len(part) = n - 1
        /\ \A k \in 1 .. n - 1 : part[k] = layout[k]
    <3> DEFINE S == {layout[k] : k \in 1 .. n - 1}
    <3>1. PICK e \in Int : e = n - 1
      OBVIOUS
    <3>2. \A k \in 1 .. e : layout[k] \in S
      BY <3>1
    <3> HIDE DEF S
    <3>3. /\ Len(SubSeq(layout, 1, e)) = IF 1 <= e THEN e - 1 + 1 ELSE 0
          /\ \A k \in 1 .. e - 1 + 1 : SubSeq(layout, 1, e)[k] = layout[1 + k - 1]
      BY <3>2, SubSeqProperties
    <3>4. part = SubSeq(layout, 1, e)
      BY <3>1, Zenon
    <3>5. e >= 0 /\ e - 1 + 1 = e /\ \A k \in 1 .. e : 1 + k - 1 = k
      BY <3>1
    <3> HIDE DEF part
    <3>6. Len(part) = e /\ \A k \in 1 .. e : part[k] = layout[k]
      BY <3>3, <3>4, <3>5
    <3> QED BY <3>1, <3>6
  <2> HIDE DEF part
  <2>2. CASE n = 1
    <3>1. Width(part) = 0
      <4>1. Len(part) = 0
        BY <2>1, <2>2
      <4> DEFINE Up(h) == h = [k \in 0 .. 0 |-> IF k = 0 THEN 0 ELSE h[k - 1] + part[k][2]]
                 u == CHOOSE h : Up(h)
      <4>2. Width(part) = u[0]
        BY <4>1 DEF Width
      <4>3. Up([k \in 0 .. 0 |-> 0])
        OBVIOUS
      <4>4. Up(u)
        <5> HIDE DEF Up
        <5> QED BY <4>3 DEF u
      <4> HIDE DEF u
      <4> QED BY <4>2, <4>4
    <3> QED BY <2>2, <3>1 DEF Offset, part, Ending
  <2>3. CASE n # 1
    <3>1. n - 1 \in Nat \ {0} /\ n - 1 \in 1 .. N
      BY <2>3
    <3>2. Ending(ends, n - 1, part)
      <4>1. \A k \in 1 .. n - 1 : k \in 1 .. N /\ (k # 1 => k - 1 \in 1 .. n - 1)
        BY <3>1
      <4>2. \A k \in 1 .. n - 1 : ends[k] \in Nat /\ part[k][2] \in Nat
        BY <2>1, <4>1 DEF Ending
      <4>3. \A k \in 1 .. n - 1 : ends[k] = (IF k = 1 THEN 0 ELSE ends[k - 1]) + part[k][2]
        BY <2>1, <4>1, Zenon DEF Ending
      <4> QED BY <4>2, <4>3, Zenon DEF Ending
    <3>3. Width(part) = ends[n - 1]
      BY <2>1, <3>1, <3>2, WidthIsEnd
    <3>4. ends[n] = ends[n - 1] + layout[n][2] /\ ends[n - 1] \in Nat /\ layout[n][2] \in Nat
      BY <2>3, <3>1 DEF Ending
    <3> QED BY <3>3, <3>4 DEF Offset, part
  <2> QED BY <2>2, <2>3
<1>3. \A n \in 1 .. N : <<layout[n][1], Offset(layout, n), layout[n][2]>> \in Places(layout)
  BY <1>1 DEF Places
<1>4. ASSUME NEW n \in 1 .. N, NEW x, NEW w, layout[n] = <<x, w>>
      PROVE  <<x, ends[n] - w, w>> \in Places(layout)
  <2>1. x = layout[n][1] /\ w = layout[n][2]
    BY <1>4
  <2>2. <<layout[n][1], ends[n] - layout[n][2], layout[n][2]>> \in Places(layout)
    BY <1>2, <1>3
  <2> QED BY <2>1, <2>2, Zenon
<1>5. Width(layout) = ends[N]
  BY <1>1, WidthIsEnd
<1> QED BY <1>4, <1>5, Zenon

\* The fields of the boot sector, and where they end.
LEMMA BootSector ==
  /\ OfLength(fat32_boot_sec, 29)
  /\ fat32_boot_sec[1] = <<"asm_code", 3>>
  /\ fat32_boot_sec[2] = <<"oem", 8>>
  /\ fat32_boot_sec[3] = <<"bytes_per_sec", 2>>
  /\ fat32_boot_sec[4] = <<"sec_per_cluster", 1>>
  /\ fat32_boot_sec[5] = <<"reserved_area_nsec", 2>>
  /\ fat32_boot_sec[6] = <<"nfats", 1>>
  /\ fat32_boot_sec[7] = <<"max_files", 2>>
  /\ fat32_boot_sec[8] = <<"fs_nsec", 2>>
  /\ fat32_boot_sec[9] = <<"media_type", 1>>
  /\ fat32_boot_sec[10] = <<"zero", 2>>
  /\ fat32_boot_sec[11] = <<"sec_per_track", 2>>
  /\ fat32_boot_sec[12] = <<"n_heads", 2>>
  /\ fat32_boot_sec[13] = <<"hidden_secs", 4>>
  /\ fat32_boot_sec[14] = <<"nsec_in_fs", 4>>
  /\ fat32_boot_sec[15] = <<"nsec_per_fat", 4>>
  /\ fat32_boot_sec[16] = <<"mirror_flags", 2>>
  /\ fat32_boot_sec[17] = <<"version", 2>>
  /\ fat32_boot_sec[18] = <<"first_cluster", 4>>
  /\ fat32_boot_sec[19] = <<"info_sec_num", 2>>
  /\ fat32_boot_sec[20] = <<"backup_boot_loc", 2>>
  /\ fat32_boot_sec[21] = <<"reserved", 12>>
  /\ fat32_boot_sec[22] = <<"logical_drive_num", 1>>
  /\ fat32_boot_sec[23] = <<"reserved1", 1>>
  /\ fat32_boot_sec[24] = <<"extended_sig", 1>>
  /\ fat32_boot_sec[25] = <<"serial_num", 4>>
  /\ fat32_boot_sec[26] = <<"volume_label", 11>>
  /\ fat32_boot_sec[27] = <<"fs_type", 8>>
  /\ fat32_boot_sec[28] = <<"ignore", 420>>
  /\ fat32_boot_sec[29] = <<"sig", 2>>
<1> DEFINE s == << <<"zero", 2>> >>
           half == BootStart \o s
<1>1. /\ OfLength(BootStart, 9)
      /\ BootStart[1] = <<"asm_code", 3>>
      /\ BootStart[2] = <<"oem", 8>>
      /\ BootStart[3] = <<"bytes_per_sec", 2>>
      /\ BootStart[4] = <<"sec_per_cluster", 1>>
      /\ BootStart[5] = <<"reserved_area_nsec", 2>>
      /\ BootStart[6] = <<"nfats", 1>>
      /\ BootStart[7] = <<"max_files", 2>>
      /\ BootStart[8] = <<"fs_nsec", 2>>
      /\ BootStart[9] = <<"media_type", 1>>
  BY DEF BootStart, OfLength
<1>2. /\ OfLength(BootRest, 19)
      /\ BootRest[1] = <<"sec_per_track", 2>>
      /\ BootRest[2] = <<"n_heads", 2>>
      /\ BootRest[3] = <<"hidden_secs", 4>>
      /\ BootRest[4] = <<"nsec_in_fs", 4>>
      /\ BootRest[5] = <<"nsec_per_fat", 4>>
      /\ BootRest[6] = <<"mirror_flags", 2>>
      /\ BootRest[7] = <<"version", 2>>
      /\ BootRest[8] = <<"first_cluster", 4>>
      /\ BootRest[9] = <<"info_sec_num", 2>>
      /\ BootRest[10] = <<"backup_boot_loc", 2>>
      /\ BootRest[11] = <<"reserved", 12>>
      /\ BootRest[12] = <<"logical_drive_num", 1>>
      /\ BootRest[13] = <<"reserved1", 1>>
      /\ BootRest[14] = <<"extended_sig", 1>>
      /\ BootRest[15] = <<"serial_num", 4>>
      /\ BootRest[16] = <<"volume_label", 11>>
      /\ BootRest[17] = <<"fs_type", 8>>
      /\ BootRest[18] = <<"ignore", 420>>
      /\ BootRest[19] = <<"sig", 2>>
  BY DEF BootRest, OfLength
<1>3. OfLength(s, 1) /\ s[1] = <<"zero", 2>>
  BY DEF OfLength
<1> HIDE DEF s
<1>4. half = Joined(BootStart, 9, s, 1)
  <2>1. 9 \in Nat /\ 1 \in Nat /\ OfLength(BootStart, 9)
    BY <1>1, Zenon
  <2> QED BY <1>3, <2>1, Concatenated, Zenon
<1> HIDE DEF half
<1>5. half = [n \in 1 .. 10 |-> IF n <= 9 THEN BootStart[n] ELSE s[n - 9]]
  BY <1>4 DEF Joined
<1>6. OfLength(half, 10) /\ half[10] = <<"zero", 2>> /\ \A n \in 1 .. 9 : half[n] = BootStart[n]
  BY <1>3, <1>5 DEF OfLength
<1>7. fat32_boot_sec = Joined(half, 10, BootRest, 19)
  <2>1. 10 \in Nat /\ 19 \in Nat /\ OfLength(BootRest, 19) /\ OfLength(half, 10)
    BY <1>2, <1>6
  <2>2. half \o BootRest = Joined(half, 10, BootRest, 19)
    BY <2>1, Concatenated, Zenon
  <2> QED BY <2>2 DEF fat32_boot_sec, half, s
<1>8. fat32_boot_sec = [n \in 1 .. 29 |-> IF n <= 10 THEN half[n] ELSE BootRest[n - 10]]
  BY <1>7 DEF Joined
<1>9. OfLength(fat32_boot_sec, 29) /\ fat32_boot_sec[10] = <<"zero", 2>>
  BY <1>6, <1>8 DEF OfLength
<1>10. /\ \A n \in 1 .. 9 : fat32_boot_sec[n] = BootStart[n]
       /\ \A n \in 1 .. 19 : fat32_boot_sec[n + 10] = BootRest[n]
  BY <1>6, <1>8
<1>11. /\ fat32_boot_sec[1] = <<"asm_code", 3>>
       /\ fat32_boot_sec[2] = <<"oem", 8>>
       /\ fat32_boot_sec[3] = <<"bytes_per_sec", 2>>
       /\ fat32_boot_sec[4] = <<"sec_per_cluster", 1>>
       /\ fat32_boot_sec[5] = <<"reserved_area_nsec", 2>>
       /\ fat32_boot_sec[6] = <<"nfats", 1>>
       /\ fat32_boot_sec[7] = <<"max_files", 2>>
       /\ fat32_boot_sec[8] = <<"fs_nsec", 2>>
       /\ fat32_boot_sec[9] = <<"media_type", 1>>
  BY <1>1, <1>10
<1>12. /\ fat32_boot_sec[11] = <<"sec_per_track", 2>>
       /\ fat32_boot_sec[12] = <<"n_heads", 2>>
       /\ fat32_boot_sec[13] = <<"hidden_secs", 4>>
       /\ fat32_boot_sec[14] = <<"nsec_in_fs", 4>>
       /\ fat32_boot_sec[15] = <<"nsec_per_fat", 4>>
       /\ fat32_boot_sec[16] = <<"mirror_flags", 2>>
       /\ fat32_boot_sec[17] = <<"version", 2>>
       /\ fat32_boot_sec[18] = <<"first_cluster", 4>>
       /\ fat32_boot_sec[19] = <<"info_sec_num", 2>>
       /\ fat32_boot_sec[20] = <<"backup_boot_loc", 2>>
       /\ fat32_boot_sec[21] = <<"reserved", 12>>
       /\ fat32_boot_sec[22] = <<"logical_drive_num", 1>>
       /\ fat32_boot_sec[23] = <<"reserved1", 1>>
       /\ fat32_boot_sec[24] = <<"extended_sig", 1>>
       /\ fat32_boot_sec[25] = <<"serial_num", 4>>
       /\ fat32_boot_sec[26] = <<"volume_label", 11>>
       /\ fat32_boot_sec[27] = <<"fs_type", 8>>
       /\ fat32_boot_sec[28] = <<"ignore", 420>>
       /\ fat32_boot_sec[29] = <<"sig", 2>>
  BY <1>2, <1>10
<1> QED BY <1>9, <1>11, <1>12

\* Where the fields of fat32_boot_sec end.
BootEnds ==
  << 3, 11, 13, 14, 16, 17, 19, 21, 22, 24, 26, 28, 32, 36, 40, 42, 44, 48, 50,
     52, 64, 65, 66, 67, 71, 82, 90, 510, 512 >>

\* So they lie where fat32.c reads them.
LEMMA BootSectorPlaces ==
  /\ Width(fat32_boot_sec) = 512
  /\ <<"oem", 3, 8>> \in Places(fat32_boot_sec)
  /\ <<"bytes_per_sec", 11, 2>> \in Places(fat32_boot_sec)
  /\ <<"sec_per_cluster", 13, 1>> \in Places(fat32_boot_sec)
  /\ <<"reserved_area_nsec", 14, 2>> \in Places(fat32_boot_sec)
  /\ <<"nfats", 16, 1>> \in Places(fat32_boot_sec)
  /\ <<"max_files", 17, 2>> \in Places(fat32_boot_sec)
  /\ <<"fs_nsec", 19, 2>> \in Places(fat32_boot_sec)
  /\ <<"media_type", 21, 1>> \in Places(fat32_boot_sec)
  /\ <<"sec_per_track", 24, 2>> \in Places(fat32_boot_sec)
  /\ <<"n_heads", 26, 2>> \in Places(fat32_boot_sec)
  /\ <<"hidden_secs", 28, 4>> \in Places(fat32_boot_sec)
  /\ <<"nsec_in_fs", 32, 4>> \in Places(fat32_boot_sec)
  /\ <<"nsec_per_fat", 36, 4>> \in Places(fat32_boot_sec)
  /\ <<"mirror_flags", 40, 2>> \in Places(fat32_boot_sec)
  /\ <<"version", 42, 2>> \in Places(fat32_boot_sec)
  /\ <<"first_cluster", 44, 4>> \in Places(fat32_boot_sec)
  /\ <<"info_sec_num", 48, 2>> \in Places(fat32_boot_sec)
  /\ <<"backup_boot_loc", 50, 2>> \in Places(fat32_boot_sec)
  /\ <<"reserved", 52, 12>> \in Places(fat32_boot_sec)
  /\ <<"logical_drive_num", 64, 1>> \in Places(fat32_boot_sec)
  /\ <<"extended_sig", 66, 1>> \in Places(fat32_boot_sec)
  /\ <<"serial_num", 67, 4>> \in Places(fat32_boot_sec)
  /\ <<"volume_label", 71, 11>> \in Places(fat32_boot_sec)
  /\ <<"fs_type", 82, 8>> \in Places(fat32_boot_sec)
  /\ <<"sig", 510, 2>> \in Places(fat32_boot_sec)
<1>2. Ending(BootEnds, 29, fat32_boot_sec)
  BY BootSector DEF BootEnds, Ending
<1>3. /\ Width(fat32_boot_sec) = BootEnds[29]
      /\ \A n \in 1 .. 29 : \A x, w :
           fat32_boot_sec[n] = <<x, w>> => <<x, BootEnds[n] - w, w>> \in Places(fat32_boot_sec)
  <2>1. 29 \in Nat \ {0} /\ OfLength(fat32_boot_sec, 29)
    BY BootSector
  <2> QED BY <2>1, <1>2, PlacesFollow, Zenon
<1>4. <<"oem", 3, 8>> \in Places(fat32_boot_sec)
  <2>1. 2 \in 1 .. 29 /\ fat32_boot_sec[2] = <<"oem", 8>> /\ BootEnds[2] - 8 = 3
    BY BootSector DEF BootEnds
  <2> QED BY <1>3, <2>1, ZenonT(60)
<1>5. <<"bytes_per_sec", 11, 2>> \in Places(fat32_boot_sec)
  <2>1. 3 \in 1 .. 29 /\ fat32_boot_sec[3] = <<"bytes_per_sec", 2>> /\ BootEnds[3] - 2 = 11
    BY BootSector DEF BootEnds
  <2> QED BY <1>3, <2>1, ZenonT(60)
<1>6. <<"sec_per_cluster", 13, 1>> \in Places(fat32_boot_sec)
  <2>1. 4 \in 1 .. 29 /\ fat32_boot_sec[4] = <<"sec_per_cluster", 1>> /\ BootEnds[4] - 1 = 13
    BY BootSector DEF BootEnds
  <2> QED BY <1>3, <2>1, ZenonT(60)
<1>7. <<"reserved_area_nsec", 14, 2>> \in Places(fat32_boot_sec)
  <2>1. 5 \in 1 .. 29 /\ fat32_boot_sec[5] = <<"reserved_area_nsec", 2>> /\ BootEnds[5] - 2 = 14
    BY BootSector DEF BootEnds
  <2> QED BY <1>3, <2>1, ZenonT(60)
<1>8. <<"nfats", 16, 1>> \in Places(fat32_boot_sec)
  <2>1. 6 \in 1 .. 29 /\ fat32_boot_sec[6] = <<"nfats", 1>> /\ BootEnds[6] - 1 = 16
    BY BootSector DEF BootEnds
  <2> QED BY <1>3, <2>1, ZenonT(60)
<1>9. <<"max_files", 17, 2>> \in Places(fat32_boot_sec)
  <2>1. 7 \in 1 .. 29 /\ fat32_boot_sec[7] = <<"max_files", 2>> /\ BootEnds[7] - 2 = 17
    BY BootSector DEF BootEnds
  <2> QED BY <1>3, <2>1, ZenonT(60)
<1>10. <<"fs_nsec", 19, 2>> \in Places(fat32_boot_sec)
  <2>1. 8 \in 1 .. 29 /\ fat32_boot_sec[8] = <<"fs_nsec", 2>> /\ BootEnds[8] - 2 = 19
    BY BootSector DEF BootEnds
  <2> QED BY <1>3, <2>1, ZenonT(60)
<1>11. <<"media_type", 21, 1>> \in Places(fat32_boot_sec)
  <2>1. 9 \in 1 .. 29 /\ fat32_boot_sec[9] = <<"media_type", 1>> /\ BootEnds[9] - 1 = 21
    BY BootSector DEF BootEnds
  <2> QED BY <1>3, <2>1, ZenonT(60)
<1>12. <<"sec_per_track", 24, 2>> \in Places(fat32_boot_sec)
  <2>1. 11 \in 1 .. 29 /\ fat32_boot_sec[11] = <<"sec_per_track", 2>> /\ BootEnds[11] - 2 = 24
    BY BootSector DEF BootEnds
  <2> QED BY <1>3, <2>1, ZenonT(60)
<1>13. <<"n_heads", 26, 2>> \in Places(fat32_boot_sec)
  <2>1. 12 \in 1 .. 29 /\ fat32_boot_sec[12] = <<"n_heads", 2>> /\ BootEnds[12] - 2 = 26
    BY BootSector DEF BootEnds
  <2> QED BY <1>3, <2>1, ZenonT(60)
<1>14. <<"hidden_secs", 28, 4>> \in Places(fat32_boot_sec)
  <2>1. 13 \in 1 .. 29 /\ fat32_boot_sec[13] = <<"hidden_secs", 4>> /\ BootEnds[13] - 4 = 28
    BY BootSector DEF BootEnds
  <2> QED BY <1>3, <2>1, ZenonT(60)
<1>15. <<"nsec_in_fs", 32, 4>> \in Places(fat32_boot_sec)
  <2>1. 14 \in 1 .. 29 /\ fat32_boot_sec[14] = <<"nsec_in_fs", 4>> /\ BootEnds[14] - 4 = 32
    BY BootSector DEF BootEnds
  <2> QED BY <1>3, <2>1, ZenonT(60)
<1>16. <<"nsec_per_fat", 36, 4>> \in Places(fat32_boot_sec)
  <2>1. 15 \in 1 .. 29 /\ fat32_boot_sec[15] = <<"nsec_per_fat", 4>> /\ BootEnds[15] - 4 = 36
    BY BootSector DEF BootEnds
  <2> QED BY <1>3, <2>1, ZenonT(60)
<1>17. <<"mirror_flags", 40, 2>> \in Places(fat32_boot_sec)
  <2>1. 16 \in 1 .. 29 /\ fat32_boot_sec[16] = <<"mirror_flags", 2>> /\ BootEnds[16] - 2 = 40
    BY BootSector DEF BootEnds
  <2> QED BY <1>3, <2>1, ZenonT(60)
<1>18. <<"version", 42, 2>> \in Places(fat32_boot_sec)
  <2>1. 17 \in 1 .. 29 /\ fat32_boot_sec[17] = <<"version", 2>> /\ BootEnds[17] - 2 = 42
    BY BootSector DEF BootEnds
  <2> QED BY <1>3, <2>1, ZenonT(60)
<1>19. <<"first_cluster", 44, 4>> \in Places(fat32_boot_sec)
  <2>1. 18 \in 1 .. 29 /\ fat32_boot_sec[18] = <<"first_cluster", 4>> /\ BootEnds[18] - 4 = 44
    BY BootSector DEF BootEnds
  <2> QED BY <1>3, <2>1, ZenonT(60)
<1>20. <<"info_sec_num", 48, 2>> \in Places(fat32_boot_sec)
  <2>1. 19 \in 1 .. 29 /\ fat32_boot_sec[19] = <<"info_sec_num", 2>> /\ BootEnds[19] - 2 = 48
    BY BootSector DEF BootEnds
  <2> QED BY <1>3, <2>1, ZenonT(60)
<1>21. <<"backup_boot_loc", 50, 2>> \in Places(fat32_boot_sec)
  <2>1. 20 \in 1 .. 29 /\ fat32_boot_sec[20] = <<"backup_boot_loc", 2>> /\ BootEnds[20] - 2 = 50
    BY BootSector DEF BootEnds
  <2> QED BY <1>3, <2>1, ZenonT(60)
<1>22. <<"reserved", 52, 12>> \in Places(fat32_boot_sec)
  <2>1. 21 \in 1 .. 29 /\ fat32_boot_sec[21] = <<"reserved", 12>> /\ BootEnds[21] - 12 = 52
    BY BootSector DEF BootEnds
  <2> QED BY <1>3, <2>1, ZenonT(60)
<1>23. <<"logical_drive_num", 64, 1>> \in Places(fat32_boot_sec)
  <2>1. 22 \in 1 .. 29 /\ fat32_boot_sec[22] = <<"logical_drive_num", 1>> /\ BootEnds[22] - 1 = 64
    BY BootSector DEF BootEnds
  <2> QED BY <1>3, <2>1, ZenonT(60)
<1>24. <<"extended_sig", 66, 1>> \in Places(fat32_boot_sec)
  <2>1. 24 \in 1 .. 29 /\ fat32_boot_sec[24] = <<"extended_sig", 1>> /\ BootEnds[24] - 1 = 66
    BY BootSector DEF BootEnds
  <2> QED BY <1>3, <2>1, ZenonT(60)
<1>25. <<"serial_num", 67, 4>> \in Places(fat32_boot_sec)
  <2>1. 25 \in 1 .. 29 /\ fat32_boot_sec[25] = <<"serial_num", 4>> /\ BootEnds[25] - 4 = 67
    BY BootSector DEF BootEnds
  <2> QED BY <1>3, <2>1, ZenonT(60)
<1>26. <<"volume_label", 71, 11>> \in Places(fat32_boot_sec)
  <2>1. 26 \in 1 .. 29 /\ fat32_boot_sec[26] = <<"volume_label", 11>> /\ BootEnds[26] - 11 = 71
    BY BootSector DEF BootEnds
  <2> QED BY <1>3, <2>1, ZenonT(60)
<1>27. <<"fs_type", 82, 8>> \in Places(fat32_boot_sec)
  <2>1. 27 \in 1 .. 29 /\ fat32_boot_sec[27] = <<"fs_type", 8>> /\ BootEnds[27] - 8 = 82
    BY BootSector DEF BootEnds
  <2> QED BY <1>3, <2>1, ZenonT(60)
<1>28. <<"sig", 510, 2>> \in Places(fat32_boot_sec)
  <2>1. 29 \in 1 .. 29 /\ fat32_boot_sec[29] = <<"sig", 2>> /\ BootEnds[29] - 2 = 510
    BY BootSector DEF BootEnds
  <2> QED BY <1>3, <2>1
<1>29. Width(fat32_boot_sec) = 512
  BY <1>3 DEF BootEnds
<1> QED BY <1>4, <1>5, <1>6, <1>7, <1>8, <1>9, <1>10, <1>11, <1>12, <1>13, <1>14, <1>15, <1>16, <1>17, <1>18, <1>19, <1>20, <1>21, <1>22, <1>23, <1>24, <1>25, <1>26, <1>27, <1>28, <1>29

\* The fields that the list of fat32.h declares lie in the boot sector.
LEMMA BootSectorFits == volume_id_places \subseteq Places(fat32_boot_sec)
BY BootSectorPlaces DEF volume_id_places

\* Where the fields of partition_entry end.
PartitionEnds ==
  << 1, 4, 5, 8, 12, 16 >>

\* The fields of a partition's entry.
LEMMA PartitionPlaces ==
  /\ Width(partition_entry) = 16
<1>1. /\ OfLength(partition_entry, 6)
      /\ partition_entry[1] = <<"bootable_p", 1>>
      /\ partition_entry[2] = <<"chs_start", 3>>
      /\ partition_entry[3] = <<"part_type", 1>>
      /\ partition_entry[4] = <<"chs_end", 3>>
      /\ partition_entry[5] = <<"lba_start", 4>>
      /\ partition_entry[6] = <<"nsec", 4>>
  BY DEF partition_entry, OfLength
<1>2. Ending(PartitionEnds, 6, partition_entry)
  BY <1>1 DEF PartitionEnds, Ending
<1>3. /\ Width(partition_entry) = PartitionEnds[6]
      /\ \A n \in 1 .. 6 : \A x, w :
           partition_entry[n] = <<x, w>> => <<x, PartitionEnds[n] - w, w>> \in Places(partition_entry)
  <2>1. 6 \in Nat \ {0} /\ OfLength(partition_entry, 6)
    BY <1>1
  <2> QED BY <2>1, <1>2, PlacesFollow, Zenon
<1>4. Width(partition_entry) = 16
  BY <1>3 DEF PartitionEnds
<1> QED BY <1>4

\* Where the fields of fsinfo end.
FsinfoEnds ==
  << 4, 484, 488, 492, 496, 508, 512 >>

\* The fields of the info sector.
LEMMA FsinfoPlaces ==
  /\ Width(fsinfo) = 512
  /\ fsinfo_places \subseteq Places(fsinfo)
<1>1. /\ OfLength(fsinfo, 7)
      /\ fsinfo[1] = <<"sig1", 4>>
      /\ fsinfo[2] = <<"_reserved0", 480>>
      /\ fsinfo[3] = <<"sig2", 4>>
      /\ fsinfo[4] = <<"free_cluster_count", 4>>
      /\ fsinfo[5] = <<"next_free_cluster", 4>>
      /\ fsinfo[6] = <<"_reserved1", 12>>
      /\ fsinfo[7] = <<"sig3", 4>>
  BY DEF fsinfo, OfLength
<1>2. Ending(FsinfoEnds, 7, fsinfo)
  BY <1>1 DEF FsinfoEnds, Ending
<1>3. /\ Width(fsinfo) = FsinfoEnds[7]
      /\ \A n \in 1 .. 7 : \A x, w :
           fsinfo[n] = <<x, w>> => <<x, FsinfoEnds[n] - w, w>> \in Places(fsinfo)
  <2>1. 7 \in Nat \ {0} /\ OfLength(fsinfo, 7)
    BY <1>1
  <2> QED BY <2>1, <1>2, PlacesFollow, Zenon
<1>4. <<"sig1", 0, 4>> \in Places(fsinfo)
  <2>1. 1 \in 1 .. 7 /\ fsinfo[1] = <<"sig1", 4>> /\ FsinfoEnds[1] - 4 = 0
    BY <1>1 DEF FsinfoEnds
  <2> QED BY <1>3, <2>1
<1>5. <<"_reserved0", 4, 480>> \in Places(fsinfo)
  <2>1. 2 \in 1 .. 7 /\ fsinfo[2] = <<"_reserved0", 480>> /\ FsinfoEnds[2] - 480 = 4
    BY <1>1 DEF FsinfoEnds
  <2> QED BY <1>3, <2>1
<1>6. <<"sig2", 484, 4>> \in Places(fsinfo)
  <2>1. 3 \in 1 .. 7 /\ fsinfo[3] = <<"sig2", 4>> /\ FsinfoEnds[3] - 4 = 484
    BY <1>1 DEF FsinfoEnds
  <2> QED BY <1>3, <2>1
<1>7. <<"free_cluster_count", 488, 4>> \in Places(fsinfo)
  <2>1. 4 \in 1 .. 7 /\ fsinfo[4] = <<"free_cluster_count", 4>> /\ FsinfoEnds[4] - 4 = 488
    BY <1>1 DEF FsinfoEnds
  <2> QED BY <1>3, <2>1
<1>8. <<"next_free_cluster", 492, 4>> \in Places(fsinfo)
  <2>1. 5 \in 1 .. 7 /\ fsinfo[5] = <<"next_free_cluster", 4>> /\ FsinfoEnds[5] - 4 = 492
    BY <1>1 DEF FsinfoEnds
  <2> QED BY <1>3, <2>1
<1>9. <<"_reserved1", 496, 12>> \in Places(fsinfo)
  <2>1. 6 \in 1 .. 7 /\ fsinfo[6] = <<"_reserved1", 12>> /\ FsinfoEnds[6] - 12 = 496
    BY <1>1 DEF FsinfoEnds
  <2> QED BY <1>3, <2>1
<1>10. <<"sig3", 508, 4>> \in Places(fsinfo)
  <2>1. 7 \in 1 .. 7 /\ fsinfo[7] = <<"sig3", 4>> /\ FsinfoEnds[7] - 4 = 508
    BY <1>1 DEF FsinfoEnds
  <2> QED BY <1>3, <2>1
<1>11. Width(fsinfo) = 512
  BY <1>3 DEF FsinfoEnds
<1> QED BY <1>4, <1>5, <1>6, <1>7, <1>8, <1>9, <1>10, <1>11 DEF fsinfo_places

\* Where the fields of fat32_dir end.
DirEnds ==
  << 11, 12, 13, 14, 16, 18, 20, 22, 24, 26, 28, 32 >>

\* The fields of a directory entry.
LEMMA DirPlaces ==
  /\ Width(fat32_dir) = 32
  /\ <<"filename", 0, 11>> \in Places(fat32_dir)
  /\ <<"attr", 11, 1>> \in Places(fat32_dir)
  /\ <<"ctime_tenths", 13, 1>> \in Places(fat32_dir)
  /\ <<"ctime", 14, 2>> \in Places(fat32_dir)
  /\ <<"create_date", 16, 2>> \in Places(fat32_dir)
  /\ <<"access_date", 18, 2>> \in Places(fat32_dir)
  /\ <<"hi_start", 20, 2>> \in Places(fat32_dir)
  /\ <<"mod_time", 22, 2>> \in Places(fat32_dir)
  /\ <<"mod_date", 24, 2>> \in Places(fat32_dir)
  /\ <<"lo_start", 26, 2>> \in Places(fat32_dir)
  /\ <<"file_nbytes", 28, 4>> \in Places(fat32_dir)
<1>1. /\ OfLength(fat32_dir, 12)
      /\ fat32_dir[1] = <<"filename", 11>>
      /\ fat32_dir[2] = <<"attr", 1>>
      /\ fat32_dir[3] = <<"reserved0", 1>>
      /\ fat32_dir[4] = <<"ctime_tenths", 1>>
      /\ fat32_dir[5] = <<"ctime", 2>>
      /\ fat32_dir[6] = <<"create_date", 2>>
      /\ fat32_dir[7] = <<"access_date", 2>>
      /\ fat32_dir[8] = <<"hi_start", 2>>
      /\ fat32_dir[9] = <<"mod_time", 2>>
      /\ fat32_dir[10] = <<"mod_date", 2>>
      /\ fat32_dir[11] = <<"lo_start", 2>>
      /\ fat32_dir[12] = <<"file_nbytes", 4>>
  BY DEF fat32_dir, OfLength
<1>2. Ending(DirEnds, 12, fat32_dir)
  BY <1>1 DEF DirEnds, Ending
<1>3. /\ Width(fat32_dir) = DirEnds[12]
      /\ \A n \in 1 .. 12 : \A x, w :
           fat32_dir[n] = <<x, w>> => <<x, DirEnds[n] - w, w>> \in Places(fat32_dir)
  <2>1. 12 \in Nat \ {0} /\ OfLength(fat32_dir, 12)
    BY <1>1
  <2> QED BY <2>1, <1>2, PlacesFollow, Zenon
<1>4. <<"filename", 0, 11>> \in Places(fat32_dir)
  <2>1. 1 \in 1 .. 12 /\ fat32_dir[1] = <<"filename", 11>> /\ DirEnds[1] - 11 = 0
    BY <1>1 DEF DirEnds
  <2> QED BY <1>3, <2>1, Zenon
<1>5. <<"attr", 11, 1>> \in Places(fat32_dir)
  <2>1. 2 \in 1 .. 12 /\ fat32_dir[2] = <<"attr", 1>> /\ DirEnds[2] - 1 = 11
    BY <1>1 DEF DirEnds
  <2> QED BY <1>3, <2>1, Zenon
<1>6. <<"ctime_tenths", 13, 1>> \in Places(fat32_dir)
  <2>1. 4 \in 1 .. 12 /\ fat32_dir[4] = <<"ctime_tenths", 1>> /\ DirEnds[4] - 1 = 13
    BY <1>1 DEF DirEnds
  <2> QED BY <1>3, <2>1, Zenon
<1>7. <<"ctime", 14, 2>> \in Places(fat32_dir)
  <2>1. 5 \in 1 .. 12 /\ fat32_dir[5] = <<"ctime", 2>> /\ DirEnds[5] - 2 = 14
    BY <1>1 DEF DirEnds
  <2> QED BY <1>3, <2>1, Zenon
<1>8. <<"create_date", 16, 2>> \in Places(fat32_dir)
  <2>1. 6 \in 1 .. 12 /\ fat32_dir[6] = <<"create_date", 2>> /\ DirEnds[6] - 2 = 16
    BY <1>1 DEF DirEnds
  <2> QED BY <1>3, <2>1, Zenon
<1>9. <<"access_date", 18, 2>> \in Places(fat32_dir)
  <2>1. 7 \in 1 .. 12 /\ fat32_dir[7] = <<"access_date", 2>> /\ DirEnds[7] - 2 = 18
    BY <1>1 DEF DirEnds
  <2> QED BY <1>3, <2>1, Zenon
<1>10. <<"hi_start", 20, 2>> \in Places(fat32_dir)
  <2>1. 8 \in 1 .. 12 /\ fat32_dir[8] = <<"hi_start", 2>> /\ DirEnds[8] - 2 = 20
    BY <1>1 DEF DirEnds
  <2> QED BY <1>3, <2>1, Zenon
<1>11. <<"mod_time", 22, 2>> \in Places(fat32_dir)
  <2>1. 9 \in 1 .. 12 /\ fat32_dir[9] = <<"mod_time", 2>> /\ DirEnds[9] - 2 = 22
    BY <1>1 DEF DirEnds
  <2> QED BY <1>3, <2>1, Zenon
<1>12. <<"mod_date", 24, 2>> \in Places(fat32_dir)
  <2>1. 10 \in 1 .. 12 /\ fat32_dir[10] = <<"mod_date", 2>> /\ DirEnds[10] - 2 = 24
    BY <1>1 DEF DirEnds
  <2> QED BY <1>3, <2>1, Zenon
<1>13. <<"lo_start", 26, 2>> \in Places(fat32_dir)
  <2>1. 11 \in 1 .. 12 /\ fat32_dir[11] = <<"lo_start", 2>> /\ DirEnds[11] - 2 = 26
    BY <1>1 DEF DirEnds
  <2> QED BY <1>3, <2>1, Zenon
<1>14. <<"file_nbytes", 28, 4>> \in Places(fat32_dir)
  <2>1. 12 \in 1 .. 12 /\ fat32_dir[12] = <<"file_nbytes", 4>> /\ DirEnds[12] - 4 = 28
    BY <1>1 DEF DirEnds
  <2> QED BY <1>3, <2>1, Zenon
<1>15. Width(fat32_dir) = 32
  BY <1>3 DEF DirEnds
<1> QED BY <1>4, <1>5, <1>6, <1>7, <1>8, <1>9, <1>10, <1>11, <1>12, <1>13, <1>14, <1>15

\* Where the fields of lfn_dir end.
LfnDirEnds ==
  << 1, 11, 12, 13, 14, 26, 28, 32 >>

\* The fields of an entry of a long name.
LEMMA LfnDirPlaces ==
  /\ Width(lfn_dir) = 32
  /\ <<"attr", 11, 1>> \in Places(lfn_dir)
<1>1. /\ OfLength(lfn_dir, 8)
      /\ lfn_dir[1] = <<"seqno", 1>>
      /\ lfn_dir[2] = <<"name1_5", 10>>
      /\ lfn_dir[3] = <<"attr", 1>>
      /\ lfn_dir[4] = <<"reserved", 1>>
      /\ lfn_dir[5] = <<"cksum", 1>>
      /\ lfn_dir[6] = <<"name6_11", 12>>
      /\ lfn_dir[7] = <<"reserved1", 2>>
      /\ lfn_dir[8] = <<"name12_13", 4>>
  BY DEF lfn_dir, OfLength
<1>2. Ending(LfnDirEnds, 8, lfn_dir)
  BY <1>1 DEF LfnDirEnds, Ending
<1>3. /\ Width(lfn_dir) = LfnDirEnds[8]
      /\ \A n \in 1 .. 8 : \A x, w :
           lfn_dir[n] = <<x, w>> => <<x, LfnDirEnds[n] - w, w>> \in Places(lfn_dir)
  <2>1. 8 \in Nat \ {0} /\ OfLength(lfn_dir, 8)
    BY <1>1
  <2> QED BY <2>1, <1>2, PlacesFollow, Zenon
<1>4. <<"attr", 11, 1>> \in Places(lfn_dir)
  <2>1. 3 \in 1 .. 8 /\ lfn_dir[3] = <<"attr", 1>> /\ LfnDirEnds[3] - 1 = 11
    BY <1>1 DEF LfnDirEnds
  <2> QED BY <1>3, <2>1, Zenon
<1>5. Width(lfn_dir) = 32
  BY <1>3 DEF LfnDirEnds
<1> QED BY <1>4, <1>5

\* The structures of the card are laid out as the reader takes them to be.
LEMMA StructuresAlwaysFit == StructuresFit
<1>1. volume_id_places \subseteq Places(fat32_boot_sec)
  BY BootSectorFits
<1>2. fat32_dir_check \subseteq Places(fat32_dir)
  BY DirPlaces DEF fat32_dir_check
<1>3. /\ Width(partition_entry) = 16 /\ Width(fsinfo) = 512 /\ Width(fat32_boot_sec) = 512
      /\ Width(fat32_dir) = 32 /\ Width(lfn_dir) = 32
  BY PartitionPlaces, FsinfoPlaces, BootSectorPlaces, DirPlaces, LfnDirPlaces
<1>4. /\ <<"attr", 11, 1>> \in Places(fat32_dir) /\ <<"attr", 11, 1>> \in Places(lfn_dir)
      /\ fsinfo_places \subseteq Places(fsinfo)
  BY DirPlaces, LfnDirPlaces, FsinfoPlaces
<1> QED BY <1>1, <1>2, <1>3, <1>4 DEF StructuresFit

-----------------------------------------------------------------------------
(* The table of the entries of the FAT.                                     *)

\* Only 28 bits of an entry count.
LEMMA Masked ==
  ASSUME NEW x \in 0 .. 15, NEW v \in Int, v >= 0, v <= 268435455
  PROVE  (x * 2^28 + v) % 2^28 = v
<1>1. 2^28 = 268435456
  BY SMT
<1>2. (x * 268435456 + v) % 268435456 = v
  BY SMT
<1> QED BY <1>1, <1>2, SMT

\* The type of a value, by the range that it is in.
LEMMA TypeOfValue ==
  ASSUME NEW x \in 0 .. 15, NEW v \in Int, v >= 0, v <= 268435455
  PROVE  fat32_fat_entry_type(x * 2^28 + v) = fat32_fat_entry_type_unmasked(v)
<1>1. (x * 2^28 + v) % 2^28 = v
  BY Masked, SMT
<1> QED BY <1>1, SMT DEF fat32_fat_entry_type, fat32_fat_entry_type_unmasked

\* Every value in a range of the table has the type that the table gives it.
LEMMA TableRead ==
  ASSUME NEW r \in FatTable, NEW v \in Int, r[1] <= v, v <= r[2]
  PROVE  v >= 0 /\ v <= 268435455 /\ fat32_fat_entry_type_unmasked(v) = r[3]
<1> USE DEF FREE_CLUSTER, RESERVED_CLUSTER, BAD_CLUSTER, LAST_CLUSTER, USED_CLUSTER, Panics
<1>1. CASE r = <<0, 0, FREE_CLUSTER>>
  BY <1>1, SMT DEF fat32_fat_entry_type_unmasked
<1>2. CASE r = <<1, 1, RESERVED_CLUSTER>>
  BY <1>2, SMT DEF fat32_fat_entry_type_unmasked
<1>3. CASE r = <<2, 268435439, USED_CLUSTER>>
  BY <1>3, SMT DEF fat32_fat_entry_type_unmasked
<1>4. CASE r = <<268435440, 268435446, Panics>>
  BY <1>4, SMT DEF fat32_fat_entry_type_unmasked
<1>5. CASE r = <<268435447, 268435447, BAD_CLUSTER>>
  BY <1>5, SMT DEF fat32_fat_entry_type_unmasked
<1>6. CASE r = <<268435448, 268435455, LAST_CLUSTER>>
  BY <1>6, SMT DEF fat32_fat_entry_type_unmasked
<1> QED BY <1>1, <1>2, <1>3, <1>4, <1>5, <1>6, SMT DEF FatTable

(* fat32_fat_entry_type() gives every entry of the FAT, of 32 bits, the type *)
(* that the table in fat32.h has for its lower 28 (fat32.h:186-199,         *)
(* fat32-helpers.c:198-214).                                                *)
THEOREM EveryEntryTyped ==
  \A r \in FatTable, x \in 0 .. 15 :
    \A v \in Int : r[1] <= v /\ v <= r[2] => fat32_fat_entry_type(x * 2^28 + v) = r[3]
<1> SUFFICES ASSUME NEW r \in FatTable, NEW x \in 0 .. 15, NEW v \in Int, r[1] <= v, v <= r[2]
             PROVE  fat32_fat_entry_type(x * 2^28 + v) = r[3]
  OBVIOUS
<1>1. v >= 0 /\ v <= 268435455 /\ fat32_fat_entry_type_unmasked(v) = r[3]
  BY TableRead, SMT
<1>2. fat32_fat_entry_type(x * 2^28 + v) = fat32_fat_entry_type_unmasked(v)
  BY <1>1, TypeOfValue, SMT
<1> QED BY <1>1, <1>2, SMT

\* The ends of its ranges, which a run checks, are among them.
LEMMA EntryTypesAlwaysCover == EntryTypesCover
<1>1. ASSUME NEW r \in FatTable, NEW x \in 0 .. 6, NEW v \in {r[1], r[2]}
      PROVE  fat32_fat_entry_type(x * 2^28 + v) = r[3]
  <2>1. v \in Int /\ r[1] <= v /\ v <= r[2] /\ x \in 0 .. 15
    BY SMT DEF FatTable
  <2> QED BY <2>1, EveryEntryTyped, SMT
<1>2. 2^28 - 1 = 268435455
  BY SMT
<1>3. ASSUME NEW r \in FatTable PROVE r[2] = 2^28 - 1 \/ \E q \in FatTable : q[1] = r[2] + 1
  <2>1. r[2] = 268435455 \/ \E q \in FatTable : q[1] = r[2] + 1
    BY SMT DEF FatTable
  <2> QED BY <2>1, <1>2, SMT
<1>4. ASSUME NEW r \in FatTable, NEW q \in FatTable, r # q
      PROVE  r[2] < q[1] \/ q[2] < r[1]
  BY <1>4, SMT DEF FatTable
<1> QED BY <1>1, <1>3, <1>4, SMT DEF EntryTypesCover

-----------------------------------------------------------------------------
(* Mounting: what a host formats passes every check.                        *)

\* A card that a host formatted passes the checks of the boot sector.
LEMMA FormattedPasses ==
  ASSUME NEW c, Formatted(c)
  PROVE  fat32_volume_id_check(c.boot) /\ fat32_fat_entry_type(c.fat_2) # Panics
<1>1. is_pow2(c.boot.sec_per_cluster)
  <2>1. /\ 2^0 = 1 /\ 2^1 = 2 /\ 2^2 = 4 /\ 2^3 = 8
        /\ 2^4 = 16 /\ 2^5 = 32 /\ 2^6 = 64 /\ 2^7 = 128
    OBVIOUS
  <2> DEFINE x == c.boot.sec_per_cluster
  <2>2. x \in {1, 2, 4, 8, 16, 32, 64, 128}
    BY DEF Formatted
  <2> HIDE DEF x
  <2>3. \E n \in 0 .. 15 : x = 2^n
    BY <2>1, <2>2
  <2> QED BY <2>3 DEF is_pow2, x
<1>2. fat32_volume_id_check(c.boot)
  BY <1>1, BootSectorFits DEF Formatted, fat32_volume_id_check
<1>3. fat32_fat_entry_type(c.fat_2) # Panics
  <2> DEFINE x == c.fat_2 % 2^28
  <2>1. x \in 2 .. BAD_CLUSTER - 8 \/ x \in LAST_CLUSTER .. 2^28 - 1
    BY DEF Formatted
  <2>2. /\ 2^28 \in Int /\ 2^28 - 1 = 268435455 /\ BAD_CLUSTER \in Int /\ LAST_CLUSTER \in Int
        /\ BAD_CLUSTER - 8 = 268435439 /\ LAST_CLUSTER = 268435448
    BY SMT DEF BAD_CLUSTER, LAST_CLUSTER
  <2> HIDE DEF x
  <2>7. /\ x \in Int
        /\ (x >= 2 /\ x <= BAD_CLUSTER - 8) \/ (x >= LAST_CLUSTER /\ x <= 2^28 - 1)
    <3>1. \A a, b, e \in Int : x \in 2 .. a - 8 \/ x \in b .. e - 1 =>
            x \in Int /\ ((x >= 2 /\ x <= a - 8) \/ (x >= b /\ x <= e - 1))
      BY SMT
    <3> HIDE <2>2
    <3>2. 2^28 \in Int /\ BAD_CLUSTER \in Int /\ LAST_CLUSTER \in Int
      BY <2>2, SMT
    <3> QED BY <2>1, <3>1, <3>2
  <2>3. x \in Int /\ ((x >= 2 /\ x <= 268435439) \/ (x >= 268435448 /\ x <= 268435455))
    BY <2>7, <2>2, SMT
  <2>4. /\ x # FREE_CLUSTER /\ x # RESERVED_CLUSTER /\ x # BAD_CLUSTER
        /\ USED_CLUSTER # Panics /\ LAST_CLUSTER # Panics
    BY <2>3, SMT DEF FREE_CLUSTER, RESERVED_CLUSTER, BAD_CLUSTER, USED_CLUSTER, LAST_CLUSTER, Panics
  <2>5. CASE x >= 2 /\ x <= 268435439
    <3>1. fat32_fat_entry_type(c.fat_2) = USED_CLUSTER
      BY <2>3, <2>4, <2>5, SMT DEF fat32_fat_entry_type, x
    <3> QED BY <2>4, <3>1
  <2>6. CASE x >= 268435448 /\ x <= 268435455
    <3>1. fat32_fat_entry_type(c.fat_2) = LAST_CLUSTER
      BY <2>3, <2>4, <2>6, SMT DEF fat32_fat_entry_type, x
    <3> QED BY <2>4, <3>1
  <2> QED BY <2>3, <2>5, <2>6
<1> QED BY <1>2, <1>3

\* The card is taken if and only if it is a FAT32 card with two equal FATs.
LEMMA MountDecides ==
  ASSUME card \in Cards, Mount
  PROVE  phase' = IF fat = fat2 /\ card.fat32 THEN "walk" ELSE "refused"
<1> DEFINE tab == card.part_tab
<1>1. /\ tab \in [1 .. 4 -> 0 .. 255]
      /\ card.fat32 = (tab[1] \in {11, 12} /\ \A n \in 2 .. 4 : tab[n] = 0)
      /\ card.fat32 => Formatted(card)
  BY CardsAssumption
<1>2. ASSUME fat = fat2, card.fat32
      PROVE  phase' = "walk"
  <2>1. tab[1] \in {11, 12} /\ \A n \in 2 .. 4 : tab[n] = 0
    BY <1>1, <1>2
  <2>2. fat32_mbr_check /\ fat32_fsinfo_check
    BY <1>1, <1>2 DEF Formatted, fat32_mbr_check, fat32_fsinfo_check
  <2>3. ~ fat32_partition_print_panics(tab[1]) /\ is_fat32(tab[1])
    BY <2>1 DEF fat32_partition_print_panics, fat32_part_str_types, is_fat32
  <2>4. \A n \in 1 .. 4 : fat32_partition_empty(n) = (n # 1)
    <3> SUFFICES ASSUME NEW n \in 1 .. 4 PROVE fat32_partition_empty(n) = (n # 1)
      OBVIOUS
    <3>1. CASE n = 1
      BY <3>1, <2>1 DEF fat32_partition_empty
    <3>2. CASE n \in 2 .. 4
      BY <3>2, <2>1 DEF fat32_partition_empty
    <3> QED BY <3>1, <3>2
  <2>5. fat32_volume_id_check(card.boot) /\ fat32_fat_entry_type(card.fat_2) # Panics
    BY <1>1, <1>2, FormattedPasses
  <2> QED BY <1>2, <2>2, <2>3, <2>4, <2>5 DEF Mount
<1>3. ASSUME phase' # "refused"
      PROVE  fat = fat2 /\ card.fat32
  <2>1. is_fat32(tab[1]) /\ fat = fat2 /\ \A n \in 1 .. 4 : fat32_partition_empty(n) = (n # 1)
    BY <1>3 DEF Mount
  <2>2. \A n \in 2 .. 4 : tab[n] = 0
    BY <2>1 DEF fat32_partition_empty
  <2>3. tab[1] \in {11, 12}
    BY <2>1 DEF is_fat32
  <2> QED BY <1>1, <2>1, <2>2, <2>3
<1>4. phase' \in {"walk", "refused"}
  BY DEF Mount
<1> QED BY <1>2, <1>3, <1>4

\* Mounting accepts the cards that agree and panics on the others.
LEMMA MountInv == ASSUME IInv, Mount PROVE IInv'
<1>1. PICK place, half : SteadyAt(place, half)
  BY DEF IInv, Steady
<1>2. phase' = IF fat = fat2 /\ card.fat32 THEN "walk" ELSE "refused"
  BY MountDecides DEF IInv, Ranges
<1>3. /\ phase = "mount" /\ i = 1 /\ printed = <<>>
      /\ UNCHANGED <<card, dirs, fat, fat2, doing, live, i, printed>>
  BY DEF Mount, IInv, Ranges
<1>4. Ranges' /\ CardsAccepted' /\ PanicsOnlyOnUnhandled'
  BY <1>2, <1>3 DEF IInv, Ranges, CardsAccepted, PanicsOnlyOnUnhandled
<1>5. Walked(place)'
  <2>1. live \subseteq Files /\ place \in [Files -> 1 .. Slots]
    BY <1>1 DEF IInv, Ranges, SteadyAt
  <2>2. Passed(place)' = {}
    BY <2>1, <1>3 DEF Passed
  <2>3. Cardinality({}) = 0 /\ Len(<<>>) = 0
    BY FS_EmptySet
  <2>4. \A f \in live' : i' <= place[f]
    BY <2>1, <1>3
  <2> QED BY <2>2, <2>3, <2>4, <1>3 DEF Walked
<1>6. Tiled(place, half)'
  BY <1>1, <1>3 DEF SteadyAt, Tiled, Laid
<1>7. (half = {} /\ Whole') \/ Half(half)'
  BY <1>1, <1>3 DEF SteadyAt, Whole, Creating, Deleting, Half, Writing, Erasing
<1>8. SteadyAt(place, half)'
  BY <1>1, <1>5, <1>6, <1>7 DEF SteadyAt
<1> QED BY <1>4, <1>8 DEF IInv, Steady

-----------------------------------------------------------------------------
(* The walk.                                                                *)

\* The entry after a long name: it exists and is the one the model chooses.
LEMMA AfterLfnFound ==
  ASSUME NEW d \in 1 .. Slots
  PROVE  /\ AfterLfn(d) \in d + 1 .. Slots + 1
         /\ \A k \in d + 1 .. AfterLfn(d) - 1 : dirs[k].attr = FAT32_LONG_FILE_NAME
         /\ AfterLfn(d) = Slots + 1 \/ dirs[AfterLfn(d)].attr # FAT32_LONG_FILE_NAME
<1> DEFINE U == {e \in d + 1 .. Slots + 1 : e = Slots + 1 \/ dirs[e].attr # FAT32_LONG_FILE_NAME}
<1>1. Slots \in Nat /\ Slots + 1 \in d + 1 .. Slots + 1
  BY Fat32Assumption
<1>2. PICK e \in U : \A x \in U : e <= x
  <2>1. U \subseteq Nat /\ U # {}
    BY <1>1
  <2> HIDE DEF U
  <2> QED BY <2>1, LeastElement
<1>3. \A k \in d + 1 .. e - 1 : dirs[k].attr = FAT32_LONG_FILE_NAME
  <2> SUFFICES ASSUME NEW k \in d + 1 .. e - 1 PROVE k \notin U /\ k \in d + 1 .. Slots + 1 /\ k # Slots + 1
    OBVIOUS
  <2>1. k \in Int /\ k < e /\ e \in Int /\ e <= Slots + 1 /\ d + 1 <= k
    BY <1>1, <1>2
  <2>2. ~ (e <= k)
    BY <2>1
  <2>3. k \in d + 1 .. Slots + 1 /\ k # Slots + 1
    BY <2>1, <1>1
  <2> HIDE DEF U
  <2> QED BY <2>2, <2>3, <1>2
<1>4. /\ e \in d + 1 .. Slots + 1
      /\ \A k \in d + 1 .. e - 1 : dirs[k].attr = FAT32_LONG_FILE_NAME
      /\ e = Slots + 1 \/ dirs[e].attr # FAT32_LONG_FILE_NAME
  BY <1>2, <1>3
<1> HIDE DEF U
<1> QED BY <1>4, Zenon DEF AfterLfn

\* Never past the end of the directory.
LEMMA PrintsWithin ==
  ASSUME NEW d \in 1 .. Slots
  PROVE  fat32_dir_print(d) \in Nat /\ d + fat32_dir_print(d) \in 1 .. Slots + 1
<1> DEFINE e == AfterLfn(d)
<1>1. Slots \in Nat
  BY Fat32Assumption
<1>2. e \in d + 1 .. Slots + 1
  BY AfterLfnFound
<1>3. IsFile(e) => e <= Slots
  BY DEF IsFile
<1> HIDE DEF e
<1>4. \/ fat32_dir_print(d) = 0 \/ fat32_dir_print(d) = 1
      \/ fat32_dir_print(d) = e - d + 1 /\ IsFile(e)
  BY DEF fat32_dir_print, e
<1> QED BY <1>1, <1>2, <1>3, <1>4

\* A long name ends at the entry of its file.
LEMMA AfterRun ==
  ASSUME NEW f \in Files, NEW s, Laid(f, s), Chain(f) > 0
  PROVE  AfterLfn(s) = s + Chain(f)
<1>1. s \in 1 .. Slots - Chain(f) /\ \A k \in Run(f, s) : dirs[k] = Entries[f][k - s + 1]
  BY DEF Laid
<1>2. Chain(f) \in Nat /\ Slots \in Nat /\ s \in 1 .. Slots
  BY <1>1, ChainRange, Fat32Assumption
<1>3. \A k \in s .. s + Chain(f) - 1 : dirs[k].attr = FAT32_LONG_FILE_NAME
  <2> SUFFICES ASSUME NEW k \in s .. s + Chain(f) - 1 PROVE dirs[k].attr = FAT32_LONG_FILE_NAME
    OBVIOUS
  <2>1. k \in Run(f, s) /\ k - s + 1 \in 1 .. Chain(f)
    BY <1>2 DEF Run
  <2> QED BY <2>1, <1>1, LongEntry
<1>4. dirs[s + Chain(f)].attr # FAT32_LONG_FILE_NAME
  <2>1. s + Chain(f) \in Run(f, s) /\ (s + Chain(f)) - s + 1 = Chain(f) + 1
    BY <1>2 DEF Run
  <2>2. dirs[s + Chain(f)] = Entries[f][Chain(f) + 1]
    BY <2>1, <1>1
  <2>3. Attr[f] # 15 /\ dirs[s + Chain(f)].attr = Attr[f]
    <3>1. f \in Files
      OBVIOUS
    <3>2. Entries[f][Chain(f) + 1].attr = Attr[f]
      BY <3>1, ShortEntry, Zenon
    <3> QED BY <2>2, <3>1, <3>2, FirstOfName, Zenon
  <2> QED BY <2>3 DEF FAT32_LONG_FILE_NAME
<1> DEFINE e == AfterLfn(s)
<1>5. /\ e \in s + 1 .. Slots + 1
      /\ \A k \in s + 1 .. e - 1 : dirs[k].attr = FAT32_LONG_FILE_NAME
      /\ e = Slots + 1 \/ dirs[e].attr # FAT32_LONG_FILE_NAME
  BY <1>2, AfterLfnFound
<1> HIDE DEF e
<1>6. s + Chain(f) <= Slots
  BY <1>1, <1>2
<1>7. ~ (e < s + Chain(f))
  BY <1>2, <1>3, <1>5, <1>6
<1>8. ~ (e > s + Chain(f))
  BY <1>2, <1>4, <1>5, <1>6
<1>9. e = s + Chain(f)
  BY <1>2, <1>5, <1>7, <1>8
<1> QED BY <1>9 DEF e

\* At the first entry of a file the walk prints the whole run, or gives up on what
\* it does not handle.
LEMMA PrintsRun ==
  ASSUME NEW f \in Files, NEW s, Laid(f, s)
  PROVE  \/ fat32_dir_print(s) = Chain(f) + 1
         \/ fat32_dir_print(s) = 0 /\ Unhandled(f)
<1>1. s \in Nat /\ Chain(f) \in Nat /\ s \in 1 .. Slots /\ Slots \in Nat
      /\ s \in Run(f, s) /\ s + Chain(f) \in Run(f, s) /\ s + Chain(f) <= Slots
      /\ s - s + 1 = 1 /\ (s + Chain(f)) - s + 1 = Chain(f) + 1
  BY ChainRange, Fat32Assumption DEF Laid, Run
<1>2. dirs[s] = Entries[f][1] /\ dirs[s + Chain(f)] = Entries[f][Chain(f) + 1]
  BY <1>1 DEF Laid
<1>3. dirs[s + Chain(f)].attr = Attr[f] /\ dirs[s + Chain(f)].text = Short[f]
  BY <1>2, ShortEntry
<1>4. CASE f \notin Lfn
  <2>1. Chain(f) = 0 /\ s + Chain(f) = s
    BY <1>1, <1>4 DEF Chain
  <2>2. dirs[s].attr = Attr[f] /\ Attr[f] # FAT32_LONG_FILE_NAME
    BY <2>1, <1>3, FileNamed DEF FAT32_LONG_FILE_NAME
  <2> QED BY <1>4, <2>1, <2>2 DEF fat32_dir_print, Unhandled, fat32_dir_attr_str_panics
<1>5. CASE f \in Lfn
  <2>1. Chain(f) \in 1 .. 20
    BY <1>5, ChainRange
  <2>2. dirs[s].attr = FAT32_LONG_FILE_NAME /\ dirs[s].first = Chain(f) + 64
    <3>1. 1 \in 1 .. Chain(f) /\ Chain(f) + 1 - 1 = Chain(f)
      BY <2>1
    <3> QED BY <3>1, <1>2, <2>1, LongEntry
  <2>3. AfterLfn(s) = s + Chain(f)
    BY <2>1, AfterRun
  <2>4. IsFile(s + Chain(f)) <=> is_attr(Attr[f], FAT32_DIR) \/ is_attr(Attr[f], FAT32_ARCHIVE)
    BY <1>1, <1>3 DEF IsFile
  <2>5. lfn_checksum(dirs[s + Chain(f)].text) = RotatedSum(Short[f])
    <3>1. 11 \in Nat /\ Short[f] \in [1 .. 11 -> 0 .. 255]
      BY FileNamed
    <3> QED BY <3>1, <1>3, ChecksumsAgree, ZenonT(30)
  <2>6. \A k \in s .. s + Chain(f) - 1 :
          ~ lfn_is_deleted(dirs[k].first) /\ dirs[k].cksum = RotatedSum(Short[f])
    <3> SUFFICES ASSUME NEW k \in s .. s + Chain(f) - 1
                 PROVE  ~ lfn_is_deleted(dirs[k].first) /\ dirs[k].cksum = RotatedSum(Short[f])
      OBVIOUS
    <3>1. k \in Run(f, s) /\ k - s + 1 \in 1 .. Chain(f) /\ k - s + 1 <= Chain(f)
          /\ k - s + 1 \in 1 .. Chain(f) + 1
      BY <1>1 DEF Run
    <3>2. dirs[k] = Entries[f][k - s + 1]
      BY <3>1 DEF Laid
    <3> QED BY <3>1, <3>2, OccupiedIsNot, LongEntry
  <2>7. lfn_is_last(dirs[s].first)
    <3>1. ((Chain(f) + 64) \div 64) % 2 = 1
      BY <2>1
    <3> QED BY <2>2, <3>1, Powers DEF lfn_is_last, is_attr
  <2>8. lfn_is_first(dirs[s + Chain(f) - 1].first)
    <3>1. /\ s + Chain(f) - 1 \in Run(f, s) /\ (s + Chain(f) - 1) - s + 1 = Chain(f)
          /\ Chain(f) \in 1 .. Chain(f) /\ Chain(f) + 1 - Chain(f) = 1
      BY <1>1, <2>1 DEF Run
    <3>2. dirs[s + Chain(f) - 1] = Entries[f][Chain(f)]
      BY <3>1 DEF Laid
    <3>3. dirs[s + Chain(f) - 1].first \in {1, 65}
      BY <3>1, <3>2, LongEntry
    <3>4. (65 \div 64) % 2 = 1 /\ 65 - 64 = 1 /\ (1 \div 64) % 2 = 0
      OBVIOUS
    <3> QED BY <3>3, <3>4, Powers DEF lfn_is_first, is_attr
  <2>9. (s + Chain(f)) - s = Chain(f) /\ s + Chain(f) - s + 1 = Chain(f) + 1
        /\ (Chain(f) < 3 \/ Chain(f) > 2)
    BY <1>1
  <2>10. lfn_print_passes(s, Chain(f), RotatedSum(Short[f])) <=> Chain(f) < 3
    BY <2>6, <2>7, <2>8 DEF lfn_print_passes
  <2>11. fat32_dir_print(s) =
          IF IsFile(s + Chain(f)) /\ lfn_print_passes(s, Chain(f), RotatedSum(Short[f]))
          THEN Chain(f) + 1 ELSE 0
    BY <2>2, <2>3, <2>5, <2>9 DEF fat32_dir_print
  <2> QED BY <1>5, <2>4, <2>9, <2>10, <2>11 DEF Unhandled
<1> QED BY <1>4, <1>5

\* The walk stops at a slot that is taken only where a run begins.
LEMMA StopsAtRun ==
  ASSUME live \subseteq Files, NEW place \in [Files -> 1 .. Slots], Tiled(place, {}),
         Walked(place), i \in 1 .. Slots, ~ fat32_dirent_free(i)
  PROVE  \E f \in live : i = place[f] /\ Laid(f, i)
<1>1. PICK f \in live : i \in Run(f, place[f])
  BY FreedIsFree DEF Tiled
<1>2. place[f] \in Int /\ Chain(f) \in Int /\ f \in Files
  BY ChainRange, Fat32Assumption
<1>3. i = place[f]
  BY <1>1, <1>2 DEF Run, Walked
<1>4. Laid(f, place[f])
  BY DEF Tiled
<1> QED BY <1>3, <1>4

\* A slot that is free is stepped over, and nothing is printed for it.
LEMMA WalkSteps ==
  ASSUME live \subseteq Files, NEW place \in [Files -> 1 .. Slots], Tiled(place, {}),
         Walked(place), i \in 1 .. Slots, fat32_dirent_free(i),
         i' = i + 1, UNCHANGED <<live, printed>>
  PROVE  Walked(place)'
<1>1. \A f \in live : i # place[f]
  <2> SUFFICES ASSUME NEW f \in live, i = place[f] PROVE FALSE
    OBVIOUS
  <2>1. Laid(f, place[f]) /\ place[f] \in Run(f, place[f])
    BY ChainRange, Fat32Assumption DEF Tiled, Run
  <2> QED BY <2>1, RunOccupied
<1>2. \A f \in live : place[f] \in Int /\ Chain(f) \in Int
  BY ChainRange, Fat32Assumption
<1>3. \A f \in live : place[f] < i + 1 <=> place[f] < i
  BY <1>1, <1>2
<1>4. Passed(place)' = Passed(place)
  BY <1>3 DEF Passed
<1>5. \A f \in live : i' <= place[f] \/ place[f] + Chain(f) < i'
  BY <1>1, <1>2 DEF Walked
<1> QED BY <1>4, <1>5 DEF Walked

\* A run is stepped over as a whole, and printed after those before it.
LEMMA WalkPrints ==
  ASSUME live \subseteq Files, IsFiniteSet(live), printed \in Seq(Int \X Int),
         NEW place \in [Files -> 1 .. Slots], Tiled(place, {}),
         Walked(place), i \in 1 .. Slots, NEW f \in live, i = place[f],
         i' = i + Chain(f) + 1, printed' = Append(printed, <<i, i' - 1>>), live' = live
  PROVE  Walked(place)'
<1>1. \A g \in live : place[g] \in Int /\ Chain(g) \in Nat
  <2> SUFFICES ASSUME NEW g \in live PROVE place[g] \in Int /\ Chain(g) \in Nat
    OBVIOUS
  <2>1. g \in Files /\ Chain(g) \in Nat
    <3>1. g \in Files
      OBVIOUS
    <3> QED BY <3>1, ChainNat, Zenon
  <2>2. place[g] \in 1 .. Slots
    BY <2>1
  <2> QED BY <2>1, <2>2, Fat32Assumption
<1>2. \A g \in live : g # f /\ i <= place[g] => place[f] + Chain(f) < place[g]
  <2> SUFFICES ASSUME NEW g \in live, g # f, i <= place[g], ~ (place[f] + Chain(f) < place[g])
               PROVE  FALSE
    OBVIOUS
  <2>1. place[g] \in Run(f, place[f]) /\ place[g] \in Run(g, place[g])
    BY <1>1 DEF Run
  <2> QED BY <2>1 DEF Tiled
<1>3. i' = place[f] + Chain(f) + 1 /\ i' - 1 = place[f] + Chain(f)
  BY <1>1
<1>4. Passed(place)' = Passed(place) \cup {f} /\ f \notin Passed(place)
  <2>1. \A g \in live : place[g] < i' <=> place[g] < i \/ g = f
    BY <1>1, <1>2, <1>3 DEF Walked
  <2>2. ~ (place[f] < i)
    BY <1>1
  <2> QED BY <2>1, <2>2 DEF Passed
<1>5. \A g \in live : i' <= place[g] \/ place[g] + Chain(g) < i'
  <2> SUFFICES ASSUME NEW g \in live PROVE i' <= place[g] \/ place[g] + Chain(g) < i'
    OBVIOUS
  <2>1. place[g] \in Int /\ Chain(g) \in Nat /\ place[f] \in Int /\ Chain(f) \in Nat
    BY <1>1
  <2>2. g = f \/ place[f] + Chain(f) < place[g] \/ place[g] + Chain(g) < i
    BY <1>2 DEF Walked
  <2> QED BY <1>3, <2>1, <2>2
<1> DEFINE m == Len(printed)
<1>6. /\ m \in Nat /\ Len(printed') = m + 1 /\ printed'[m + 1] = <<place[f], place[f] + Chain(f)>>
      /\ \A n \in 1 .. m : printed'[n] = printed[n]
  BY <1>3
<1>7. /\ \A n \in 1 .. m : \E g \in Passed(place) : printed[n] = <<place[g], place[g] + Chain(g)>>
      /\ \A g \in Passed(place) : \E n \in 1 .. m : printed[n] = <<place[g], place[g] + Chain(g)>>
      /\ \A n \in 2 .. m : printed[n][1] > printed[n - 1][2]
      /\ m = Cardinality(Passed(place))
  BY Zenon DEF Walked
<1> HIDE DEF m
<1>8. Len(printed') = Cardinality(Passed(place)')
  <2>1. IsFiniteSet(Passed(place))
    BY FS_Subset DEF Passed
  <2>2. Cardinality(Passed(place) \cup {f}) = Cardinality(Passed(place)) + 1
    BY <2>1, <1>4, FS_AddElement
  <2> QED BY <2>2, <1>4, <1>6, <1>7
<1>9. \A n \in 1 .. Len(printed') :
        \E g \in Passed(place)' : printed'[n] = <<place[g], place[g] + Chain(g)>>
  <2> SUFFICES ASSUME NEW n \in 1 .. m + 1
               PROVE  \E g \in Passed(place)' : printed'[n] = <<place[g], place[g] + Chain(g)>>
    BY <1>6
  <2>1. CASE n = m + 1
    <3>1. f \in Passed(place)'
      BY <1>4
    <3> QED BY <2>1, <3>1, <1>6
  <2>2. CASE n \in 1 .. m
    <3>1. PICK g \in Passed(place) : printed[n] = <<place[g], place[g] + Chain(g)>>
      BY <2>2, <1>7
    <3>2. g \in Passed(place)' /\ printed'[n] = printed[n]
      BY <2>2, <1>4, <1>6
    <3> QED BY <3>1, <3>2
  <2>3. n = m + 1 \/ n \in 1 .. m
    BY <1>6
  <2> QED BY <2>1, <2>2, <2>3, Zenon
<1>10. \A g \in Passed(place)' :
        \E n \in 1 .. Len(printed') : printed'[n] = <<place[g], place[g] + Chain(g)>>
  <2> SUFFICES ASSUME NEW g \in Passed(place) \cup {f}
               PROVE  \E n \in 1 .. m + 1 : printed'[n] = <<place[g], place[g] + Chain(g)>>
    BY <1>4, <1>6
  <2>1. CASE g = f
    <3>1. m + 1 \in 1 .. m + 1
      BY <1>6
    <3> QED BY <2>1, <3>1, <1>6, Zenon
  <2>2. CASE g \in Passed(place)
    <3>1. PICK n \in 1 .. m : printed[n] = <<place[g], place[g] + Chain(g)>>
      BY <2>2, <1>7
    <3>2. n \in 1 .. m + 1 /\ printed'[n] = printed[n]
      BY <1>6
    <3> QED BY <3>1, <3>2
  <2> QED BY <2>1, <2>2
<1>11. \A n \in 2 .. Len(printed') : printed'[n][1] > printed'[n - 1][2]
  <2> SUFFICES ASSUME NEW n \in 2 .. m + 1 PROVE printed'[n][1] > printed'[n - 1][2]
    BY <1>6
  <2>1. CASE n = m + 1
    <3>1. n - 1 \in 1 .. m
      BY <2>1, <1>6
    <3>2. PICK g \in Passed(place) : printed[n - 1] = <<place[g], place[g] + Chain(g)>>
      BY <3>1, <1>7
    <3>3. g \in live /\ place[g] < i
      BY DEF Passed
    <3>4. place[g] + Chain(g) < i
      BY <3>3, <1>1 DEF Walked
    <3> QED BY <2>1, <3>1, <3>2, <3>4, <1>6
  <2>2. CASE n \in 2 .. m
    <3>1. n \in 1 .. m /\ n - 1 \in 1 .. m
      BY <2>2, <1>6
    <3>2. printed[n][1] > printed[n - 1][2]
      BY <2>2, <1>7
    <3> QED BY <3>1, <3>2, <1>6
  <2> QED BY <1>6, <2>1, <2>2
<1> QED BY <1>5, <1>8, <1>9, <1>10, <1>11 DEF Walked

\* One turn of the walk passes one free slot or the run of one file.
LEMMA WalkInv == ASSUME IInv, Walk PROVE IInv'
<1>1. PICK place, half : SteadyAt(place, half)
  BY DEF IInv, Steady
<1>2. phase = "walk" /\ UNCHANGED <<card, edits, dirs, fat, fat2, doing, live>>
  BY DEF Walk
<1>3. i \in 1 .. Slots + 1 /\ Slots \in Nat /\ printed \in Seq(Int \X Int)
  BY Fat32Assumption DEF IInv, Ranges
<1>4. \/ i > Slots /\ phase' = "done" /\ UNCHANGED <<i, printed>>
      \/ i \in 1 .. Slots /\ fat32_dirent_free(i) /\ i' = i + 1 /\ UNCHANGED <<phase, printed>>
      \/ /\ i \in 1 .. Slots /\ ~ fat32_dirent_free(i) /\ fat32_dir_print(i) = 0
         /\ phase' = "panic" /\ UNCHANGED <<i, printed>>
      \/ /\ i \in 1 .. Slots /\ ~ fat32_dirent_free(i) /\ fat32_dir_print(i) # 0
         /\ i' = i + fat32_dir_print(i) /\ printed' = Append(printed, <<i, i' - 1>>)
         /\ UNCHANGED phase
  BY <1>3 DEF Walk
<1>5. /\ phase' \in {"walk", "done", "panic"} /\ i' \in 1 .. Slots + 1
      /\ printed' \in Seq(Int \X Int) /\ (phase' = "done" => i' = Slots + 1)
  <2>1. phase' \in {"walk", "done", "panic"} /\ (phase' = "done" => i' = Slots + 1)
    BY <1>2, <1>3, <1>4
  <2>2. i' \in 1 .. Slots + 1 /\ i' \in Int
    BY <1>3, <1>4, PrintsWithin
  <2>3. printed' \in Seq(Int \X Int)
    <3>1. <<i, i' - 1>> \in Int \X Int
      BY <1>3, <2>2
    <3>2. printed' \in {printed, Append(printed, <<i, i' - 1>>)}
      BY <1>4, Zenon
    <3>3. Append(printed, <<i, i' - 1>>) \in Seq(Int \X Int)
      BY <3>1, <1>3, Zenon, AppendProperties
    <3> QED BY <3>2, <3>3, <1>3
  <2> QED BY <2>1, <2>2, <2>3
<1>6. Ranges'
  BY <1>2, <1>5 DEF IInv, Ranges
<1>7. CardsAccepted'
  BY <1>2, <1>5 DEF IInv, CardsAccepted
<1>8. Tiled(place, half)' /\ ((half = {} /\ Whole') \/ Half(half)')
  BY <1>1, <1>2 DEF SteadyAt, Tiled, Laid, Whole, Creating, Deleting, Half, Writing, Erasing
<1>9. CASE Half(half)
  <2>1. Torn'
    BY <1>2, <1>9 DEF Half, Writing, Erasing, Torn
  <2>2. half # {}
    <3>1. PICK f \in Files : \E s \in 1 .. Slots - Chain(f) : half = Run(f, s)
      BY <1>9 DEF Half
    <3>2. PICK s \in 1 .. Slots - Chain(f) : half = Run(f, s)
      BY <3>1
    <3>3. s \in Run(f, s)
      BY ChainRange, Fat32Assumption DEF Run
    <3> QED BY <3>2, <3>3
  <2> QED BY <1>1, <1>6, <1>7, <1>8, <2>1, <2>2 DEF IInv, PanicsOnlyOnUnhandled, Steady, SteadyAt
<1>10. CASE half = {}
  <2>1. /\ live \subseteq Files /\ place \in [Files -> 1 .. Slots] /\ IsFiniteSet(live)
        /\ Tiled(place, {}) /\ Walked(place)
    BY <1>1, <1>2, <1>10 DEF IInv, Ranges, SteadyAt
  <2>2. ASSUME i \in 1 .. Slots, ~ fat32_dirent_free(i)
        PROVE  \E f \in live : i = place[f] /\ Laid(f, i)
    BY <2>1, <2>2, StopsAtRun
  <2>3. ASSUME phase' = "panic" PROVE \E f \in live : Unhandled(f)
    <3>1. i \in 1 .. Slots /\ ~ fat32_dirent_free(i) /\ fat32_dir_print(i) = 0
      BY <1>2, <1>4, <2>3
    <3>2. PICK f \in live : i = place[f] /\ Laid(f, i)
      BY <2>2, <3>1
    <3> QED BY <2>1, <3>1, <3>2, PrintsRun, ChainRange
  <2>4. ASSUME phase' \in {"walk", "done"} PROVE Walked(place)'
    <3>1. CASE UNCHANGED <<i, printed>>
      BY <1>2, <2>1, <3>1 DEF Walked, Passed
    <3>2. CASE i \in 1 .. Slots /\ fat32_dirent_free(i) /\ i' = i + 1 /\ UNCHANGED <<phase, printed>>
      BY <1>2, <2>1, <3>2, WalkSteps
    <3>3. CASE /\ i \in 1 .. Slots /\ ~ fat32_dirent_free(i) /\ fat32_dir_print(i) # 0
               /\ i' = i + fat32_dir_print(i) /\ printed' = Append(printed, <<i, i' - 1>>)
      <4>1. PICK f \in live : i = place[f] /\ Laid(f, i)
        BY <2>2, <3>3
      <4>2. f \in Files /\ Chain(f) \in Nat
        BY <2>1, ChainRange
      <4>3. fat32_dir_print(i) = Chain(f) + 1
        BY <3>3, <4>1, <4>2, PrintsRun
      <4>4. i' = i + Chain(f) + 1
        BY <1>3, <3>3, <4>2, <4>3
      <4> QED BY <1>2, <1>3, <2>1, <3>3, <4>1, <4>4, WalkPrints
    <3> QED BY <1>4, <2>4, <3>1, <3>2, <3>3
  <2>5. PanicsOnlyOnUnhandled'
    <3>1. \A f : Unhandled(f)' <=> Unhandled(f)
      BY DEF Unhandled
    <3> QED BY <1>2, <2>3, <3>1 DEF PanicsOnlyOnUnhandled
  <2>6. SteadyAt(place, half)'
    BY <1>1, <1>8, <2>4 DEF SteadyAt
  <2> QED BY <1>6, <1>7, <2>5, <2>6 DEF IInv, Steady
<1> QED BY <1>1, <1>9, <1>10 DEF SteadyAt

-----------------------------------------------------------------------------
(* The theorems.                                                            *)

\* Every step keeps the invariant.
LEMMA NextInv == ASSUME IInv, [Next]_vars PROVE IInv'
<1>1. ASSUME NEW f \in Files, Create(f) PROVE IInv'
  BY <1>1, CreateInv
<1>2. ASSUME NEW f \in Files, Delete(f) PROVE IInv'
  BY <1>2, DeleteInv
<1>3. CASE HostFat
  BY <1>3, HostFatInv
<1>4. CASE HostWrite
  BY <1>4, HostWriteInv
<1>5. CASE HostWriteRest
  BY <1>5, HostWriteRestInv
<1>6. CASE HostErase
  BY <1>6, HostEraseInv
<1>7. CASE HostEraseRest
  BY <1>7, HostEraseRestInv
<1>8. CASE Pull
  BY <1>8, PullInv
<1>9. CASE Mount
  BY <1>9, MountInv
<1>10. CASE Walk
  BY <1>10, WalkInv
<1>11. CASE UNCHANGED vars
  <2>1. UNCHANGED <<card, dirs, fat, fat2, doing, edits, live, phase, i, printed>>
    BY <1>11 DEF vars
  <2>2. Ranges' /\ CardsAccepted' /\ PanicsOnlyOnUnhandled'
    BY <2>1 DEF IInv, Ranges, CardsAccepted, PanicsOnlyOnUnhandled, Torn, Unhandled
  <2>3. PICK place, half : SteadyAt(place, half)
    BY DEF IInv, Steady
  <2>4. Tiled(place, half)' /\ ((half = {} /\ Whole') \/ Half(half)')
    BY <2>1, <2>3 DEF SteadyAt, Tiled, Laid, Whole, Creating, Deleting, Half, Writing, Erasing
  <2>5. phase \in {"walk", "done"} /\ half = {} => Walked(place)'
    BY <2>1, <2>3 DEF SteadyAt, Walked, Passed
  <2>6. SteadyAt(place, half)'
    BY <2>1, <2>3, <2>4, <2>5 DEF SteadyAt
  <2> QED BY <2>2, <2>6 DEF IInv, Steady
<1> QED BY <1>1, <1>2, <1>3, <1>4, <1>5, <1>6, <1>7, <1>8, <1>9, <1>10, <1>11 DEF Next

(* The invariant: the runs of the files that are there tile the directory,  *)
(* apart from the one run that the host may be in the middle of writing or  *)
(* erasing, and the walk stands between two of them (fat32-helpers.c:       *)
(* 395-497).                                                                *)
THEOREM Invariant == Spec => []IInv
<1>1. IInv /\ [Next]_vars => IInv'
  BY NextInv
<1> QED BY InitInv, <1>1, PTL DEF Spec

(* The reader takes in every FAT32 card of one partition whose FATs agree   *)
(* and no other, and a walk panics for nothing but what the reader does not *)
(* handle and an entry that was only half written (driver.c,                *)
(* fat32-helpers.c:81-497).                                                 *)
THEOREM CardsAlwaysSound == Spec => []CardsSound
<1>1. IInv => CardsSound
  BY DEF IInv, Ranges, CardsSound, TypeOK
<1> QED BY Invariant, <1>1, PTL

(* The structures that a card is mounted with have their fields where the   *)
(* lists of fat32.c and fat32.h expect them, and an entry of the FAT has    *)
(* the type that the table of fat32.h gives it (fat32.h, fat32-helpers.c).  *)
THEOREM LayoutsAlwaysFit == Spec => []LayoutsFit
<1>1. LayoutsFit
  BY StructuresAlwaysFit, EntryTypesAlwaysCover, SMT DEF LayoutsFit
<1> QED BY <1>1, PTL

-----------------------------------------------------------------------------
(* What was printed when the walk is done.                                  *)

\* Where the walk ended, each file has its run and its entry among those printed.
AllPrinted(place) ==
  /\ live \subseteq Files /\ place \in [Files -> 1 .. Slots] /\ Tiled(place, {})
  /\ IsFiniteSet(live) /\ Len(printed) = Cardinality(live)
  /\ \A n \in 1 .. Len(printed) :
        \E f \in live : printed[n] = <<place[f], place[f] + Chain(f)>>
  /\ \A f \in live :
        \E n \in 1 .. Len(printed) : printed[n] = <<place[f], place[f] + Chain(f)>>
  /\ \A n \in 2 .. Len(printed) : printed[n][1] > printed[n - 1][2]
  /\ DOMAIN printed = 1 .. Len(printed)

\* Where the walk is done, the runs are those it printed.
LEMMA DoneAllPrinted ==
  ASSUME IInv, phase = "done", ~ Torn
  PROVE  \E place : AllPrinted(place)
<1>1. PICK place, half : SteadyAt(place, half)
  BY DEF IInv, Steady
<1>2. half = {}
  BY <1>1 DEF SteadyAt, Half, Writing, Erasing, Torn
<1>3. /\ live \subseteq Files /\ place \in [Files -> 1 .. Slots] /\ Tiled(place, {})
      /\ Walked(place) /\ IsFiniteSet(live) /\ i = Slots + 1 /\ printed \in Seq(Int \X Int)
  BY <1>1, <1>2 DEF IInv, Ranges, SteadyAt
<1>4. Passed(place) = live
  <2> SUFFICES ASSUME NEW f \in live PROVE place[f] < i
    BY DEF Passed
  <2>1. f \in Files
    BY <1>3
  <2>2. place[f] \in 1 .. Slots
    BY <1>3, <2>1
  <2> QED BY <1>3, <2>2, Fat32Assumption
<1>5. DOMAIN printed = 1 .. Len(printed)
  BY <1>3, LenProperties
<1>6. AllPrinted(place)
  BY <1>3, <1>4, <1>5, Zenon DEF AllPrinted, Walked
<1> QED BY <1>6

\* The last entry of a run is that of its file.
LEMMA LastOfRun ==
  ASSUME NEW f \in Files, NEW s, Laid(f, s)
  PROVE  /\ s + Chain(f) \in Run(f, s) /\ s + Chain(f) \in 1 .. Slots /\ s \in Nat /\ Chain(f) \in Nat
         /\ dirs[s + Chain(f)] = Entries[f][Chain(f) + 1]
         /\ dirs[s + Chain(f)].text = Short[f]
         /\ \A k \in Run(f, s) : dirs[k].attr # FAT32_LONG_FILE_NAME <=> k = s + Chain(f)
<1>1. /\ s + Chain(f) \in Run(f, s) /\ s \in Nat /\ Chain(f) \in Nat
      /\ (s + Chain(f)) - s + 1 = Chain(f) + 1
  BY ChainRange, Fat32Assumption DEF Laid, Run
<1>2. s + Chain(f) \in 1 .. Slots /\ dirs[s + Chain(f)] = Entries[f][Chain(f) + 1]
  BY <1>1, RunOccupied
<1>3. dirs[s + Chain(f)].text = Short[f]
  BY <1>2, ShortEntry
<1>4. ASSUME NEW k \in Run(f, s)
      PROVE  dirs[k].attr # FAT32_LONG_FILE_NAME <=> k = s + Chain(f)
  <2>1. k - s + 1 \in 1 .. Chain(f) + 1 /\ dirs[k] = Entries[f][k - s + 1] /\ k \in Nat
    BY RunOccupied, Fat32Assumption
  <2>2. dirs[k].attr = FAT32_LONG_FILE_NAME <=> k - s + 1 <= Chain(f)
    BY <2>1, EntriesOccupied
  <2>3. k <= s + Chain(f)
    BY <1>1 DEF Run
  <2> QED BY <1>1, <2>1, <2>2, <2>3
<1> QED BY <1>1, <1>2, <1>3, <1>4

\* The runs do not overlap, so no file is printed twice.
LEMMA PrintedOnce == ASSUME NEW place, AllPrinted(place) PROVE EachFileOnce
<1>1. ASSUME NEW f \in live
      PROVE  \E n \in DOMAIN printed :
               /\ dirs[printed[n][2]].text = Short[f]
               /\ printed[n][2] - printed[n][1] = Chain(f)
  <2>1. PICK n \in 1 .. Len(printed) : printed[n] = <<place[f], place[f] + Chain(f)>>
    BY DEF AllPrinted
  <2>2. f \in Files /\ Laid(f, place[f])
    BY DEF AllPrinted, Tiled
  <2>3. place[f] \in Nat /\ Chain(f) \in Nat /\ dirs[place[f] + Chain(f)].text = Short[f]
    BY <2>2, LastOfRun
  <2>4. printed[n][1] = place[f] /\ printed[n][2] = place[f] + Chain(f)
    BY <2>1
  <2>5. (place[f] + Chain(f)) - place[f] = Chain(f)
    BY <2>3
  <2>6. n \in DOMAIN printed
    BY DEF AllPrinted
  <2> QED BY <2>3, <2>4, <2>5, <2>6
<1>2. /\ Len(printed) = Cardinality(live)
      /\ \A n \in 2 .. Len(printed) : printed[n][1] > printed[n - 1][2]
  BY DEF AllPrinted
<1> QED BY <1>1, <1>2, Zenon DEF EachFileOnce

\* The entries that are counted beforehand are the ones that are printed.
LEMMA CountedOnce == ASSUME NEW place, AllPrinted(place) PROVE CountAgrees
<1> DEFINE E == {d \in 1 .. Slots : ~ fat32_dirent_free(d) /\ dirs[d].attr # FAT32_LONG_FILE_NAME}
           h == [f \in live |-> place[f] + Chain(f)]
<1>1. ASSUME NEW f \in live
      PROVE  /\ f \in Files /\ Laid(f, place[f]) /\ h[f] = place[f] + Chain(f)
             /\ h[f] \in Run(f, place[f]) /\ h[f] \in E
  <2>1. f \in Files /\ Laid(f, place[f])
    BY DEF AllPrinted, Tiled
  <2>2. /\ place[f] + Chain(f) \in Run(f, place[f]) /\ place[f] + Chain(f) \in 1 .. Slots
        /\ dirs[place[f] + Chain(f)].attr # FAT32_LONG_FILE_NAME
    BY <2>1, LastOfRun
  <2>3. ~ fat32_dirent_free(place[f] + Chain(f))
    BY <2>1, <2>2, RunOccupied
  <2> QED BY <2>1, <2>2, <2>3
<1>2. ASSUME NEW d \in E PROVE \E f \in live : h[f] = d
  <2>1. PICK f \in live : d \in Run(f, place[f])
    BY FreedIsFree DEF AllPrinted, Tiled
  <2>2. d = place[f] + Chain(f)
    BY <1>1, <2>1, LastOfRun
  <2> QED BY <2>2
<1>3. ASSUME NEW f \in live, NEW g \in live, h[f] = h[g] PROVE f = g
  <2>1. h[f] \in Run(f, place[f]) /\ h[f] \in Run(g, place[g])
    BY <1>1, <1>3
  <2> HIDE DEF h
  <2> QED BY <2>1 DEF AllPrinted, Tiled
<1>4. h \in [live -> E]
  BY <1>1
<1> HIDE DEF h, E
<1>5. h \in Injection(live, E)
  BY <1>3, <1>4 DEF Injection, IsInjective
<1>6. h \in Surjection(live, E)
  BY <1>2, <1>4, Zenon DEF Surjection
<1>7. ExistsBijection(live, E)
  BY <1>5, <1>6 DEF Bijection, ExistsBijection
<1>8. Cardinality(E) = Cardinality(live)
  BY <1>7, FS_Bijection DEF AllPrinted
<1>9. fat32_dir_cnt_entries = Len(printed)
  BY <1>8 DEF fat32_dir_cnt_entries, AllPrinted, E
<1> QED BY <1>9 DEF CountAgrees

-----------------------------------------------------------------------------
(* Characters in UTF-8, as unicode-utf8.c writes and reads them.           *)

\* The table, field by field.
LEMMA Rows ==
  /\ DOMAIN utf = 0 .. 4
  /\ utf[0].lead = 128 /\ utf[0].bits_stored = 6 /\ utf[0].beg = 0 /\ utf[0].end = 0
  /\ utf[1].lead = 0 /\ utf[1].bits_stored = 7 /\ utf[1].beg = 0 /\ utf[1].end = 127
  /\ utf[2].lead = 192 /\ utf[2].bits_stored = 5 /\ utf[2].beg = 128 /\ utf[2].end = 2047
  /\ utf[3].lead = 224 /\ utf[3].bits_stored = 4 /\ utf[3].beg = 2048 /\ utf[3].end = 65535
  /\ utf[4].lead = 240 /\ utf[4].bits_stored = 3 /\ utf[4].beg = 65536 /\ utf[4].end = 1114111
BY SMT DEF utf
\* The powers of two that the table's shifts come to.
LEMMA PowersOfTwo ==
  /\ 2^0 = 1 /\ 2^3 = 8 /\ 2^4 = 16 /\ 2^5 = 32 /\ 2^6 = 64 /\ 2^7 = 128 /\ 2^12 = 4096 /\ 2^18 = 262144
BY SMT

\* The code points but 0, which ends a string.
LastCodePoint == 1114111
CodePoints == {cp \in Int : cp >= 1 /\ cp <= LastCodePoint}

\* The number of bytes of a code point.
LEMMA Bytes ==
  ASSUME NEW cp \in CodePoints
  PROVE  codepoint_len(cp) = IF cp <= 127 THEN 1 ELSE IF cp <= 2047 THEN 2 ELSE IF cp <= 65535 THEN 3 ELSE 4
<1> DEFINE Fits(n) == cp \in utf[n].beg .. utf[n].end
           m == IF cp <= 127 THEN 1 ELSE IF cp <= 2047 THEN 2 ELSE IF cp <= 65535 THEN 3 ELSE 4
<1>0. cp \in Int /\ cp >= 1 /\ cp <= 1114111
  BY SMT DEF CodePoints, LastCodePoint
<1>1. /\ ~ Fits(0) /\ (Fits(1) <=> cp <= 127) /\ (Fits(2) <=> (cp >= 128 /\ cp <= 2047))
      /\ (Fits(3) <=> (cp >= 2048 /\ cp <= 65535)) /\ (Fits(4) <=> cp >= 65536)
  <2>1. \A a, b \in Int : cp \in a .. b <=> a <= cp /\ cp <= b
    BY <1>0, SMT
  <2>2. \A n \in 0 .. 4 : utf[n].beg \in Int /\ utf[n].end \in Int
    BY Rows, SMT
  <2>3. \A n \in 0 .. 4 : Fits(n) <=> utf[n].beg <= cp /\ cp <= utf[n].end
    BY <2>1, <2>2, SMT
  <2> HIDE DEF Fits
  <2> QED BY <1>0, <2>3, Rows, SMT
<1>2. codepoint_len(cp) =
        IF \E n \in 0 .. 4 : Fits(n)
        THEN CHOOSE n \in 0 .. 4 : Fits(n) /\ \A k \in 0 .. n - 1 : ~ Fits(k) ELSE OutOfTable
  BY Rows, SMT DEF codepoint_len, FirstRow
<1>3. m \in 0 .. 4 /\ Fits(m) /\ \A n \in 0 .. 4 : Fits(n) => n = m
  <2>1. \A n \in 0 .. 4 : n = 0 \/ n = 1 \/ n = 2 \/ n = 3 \/ n = 4
    BY SMT
  <2>2. m \in 0 .. 4 /\ Fits(m)
    <3> HIDE DEF Fits
    <3> QED BY <1>0, <1>1, SMT
  <2>3. ASSUME NEW n \in 0 .. 4, Fits(n) PROVE n = m
    <3> HIDE DEF Fits
    <3> QED BY <1>0, <1>1, <2>1, <2>3, SMT
  <2> HIDE DEF Fits, m
  <2> QED BY <2>2, <2>3, SMT
<1> HIDE DEF Fits, m
<1>4. \A k \in 0 .. m - 1 : ~ Fits(k)
  <2>1. \A k \in 0 .. m - 1 : k \in 0 .. 4 /\ k # m
    BY <1>3, SMT
  <2> QED BY <1>3, <2>1, SMT
<1>5. (CHOOSE n \in 0 .. 4 : Fits(n) /\ \A k \in 0 .. n - 1 : ~ Fits(k)) = m
  BY <1>3, <1>4, Zenon
<1>6. codepoint_len(cp) = m
  BY <1>2, <1>3, <1>5, SMT
<1> QED BY <1>6, SMT DEF m

\* The bits that a byte stores, of code points of that many bytes.
LEMMA Stored ==
  ASSUME NEW cp \in CodePoints
  PROVE  /\ cp <= 127 => (cp \div 1) % 128 = cp
         /\ cp <= 2047 => (cp \div 64) % 32 = cp \div 64
         /\ cp <= 65535 => (cp \div 4096) % 16 = cp \div 4096
         /\ (cp \div 262144) % 8 = cp \div 262144
         /\ cp \div 64 \in Int /\ cp \div 4096 \in Int /\ cp \div 262144 \in Int
         /\ (cp \div 1) % 64 \in Int /\ (cp \div 64) % 64 \in Int /\ (cp \div 4096) % 64 \in Int
<1>1. cp \in Int /\ cp >= 1 /\ cp <= 1114111
  BY SMT DEF CodePoints, LastCodePoint
<1> QED BY <1>1, SMT

\* A sequence of one to four elements, written out.
LEMMA Tuples ==
  /\ \A t : t = [k \in 1 .. 1 |-> t[k]] => t = <<t[1]>>
  /\ \A t : t = [k \in 1 .. 2 |-> t[k]] => t = <<t[1], t[2]>>
  /\ \A t : t = [k \in 1 .. 3 |-> t[k]] => t = <<t[1], t[2], t[3]>>
  /\ \A t : t = [k \in 1 .. 4 |-> t[k]] => t = <<t[1], t[2], t[3], t[4]>>
BY SMT

\* The bytes after the first take their row and their shift from their place.
LEMMA Rests ==
  ASSUME NEW n \in 1 .. 4
  PROVE /\ Row(1, n) = n /\ \A k \in 2 .. 4 : Row(k, n) = 0
        /\ \A k \in 1 .. 4 : Shift(k, n) = 6 * (n - k)
BY Rows, SMT DEF Row, Shift

\* Bits of a code point from a shift on, behind what the byte begins with.
Bits(cp, shift, bits, lead) == ((cp \div 2^shift) % 2^bits) + lead

\* The bytes of a code point are the ones UTF-8 gives it.
LEMMA Encoded ==
  ASSUME NEW cp \in CodePoints
  PROVE  to_utf8(cp) = InUtf8(cp)
<1>0. cp \in Int /\ cp >= 1 /\ cp <= 1114111
  BY SMT DEF CodePoints, LastCodePoint
<1> DEFINE t == to_utf8(cp)
<1>1. ASSUME NEW n \in 1 .. 4, codepoint_len(cp) = n
      PROVE  /\ t = [k \in 1 .. n |-> t[k]]
             /\ \A k \in 1 .. n :
                  t[k] = Bits(cp, Shift(k, n), utf[Row(k, n)].bits_stored, utf[Row(k, n)].lead)
  BY <1>1, SMT DEF to_utf8, Bits
<1> HIDE DEF t
<1>2. CASE cp <= 127
  <2>1. codepoint_len(cp) = 1
    BY <1>0, <1>2, Bytes, SMT
  <2>2. t = <<t[1]>>
    BY <2>1, <1>1, Tuples, SMT
  <2>3. t[1] = ((cp \div 1) % 128) + 0
    <3>1. t[1] = Bits(cp, Shift(1, 1), utf[Row(1, 1)].bits_stored, utf[Row(1, 1)].lead)
      BY <2>1, <1>1, SMT
    <3>2. Row(1, 1) = 1 /\ Shift(1, 1) = 0
      BY Rests, SMT
    <3>3. t[1] = Bits(cp, 0, 7, 0)
      BY <3>1, <3>2, Rows, SMT
    <3> QED BY <3>3, PowersOfTwo, SMT DEF Bits
  <2> QED BY <1>0, <1>2, <2>2, <2>3, Stored, SMT DEF InUtf8, t
<1>3. CASE cp >= 128 /\ cp <= 2047
  <2>1. codepoint_len(cp) = 2
    BY <1>0, <1>3, Bytes, SMT
  <2>2. t = <<t[1], t[2]>>
    BY <2>1, <1>1, Tuples, SMT
  <2>3. t[1] = ((cp \div 64) % 32) + 192
    <3>1. t[1] = Bits(cp, Shift(1, 2), utf[Row(1, 2)].bits_stored, utf[Row(1, 2)].lead)
      BY <2>1, <1>1, SMT
    <3>2. Row(1, 2) = 2 /\ Shift(1, 2) = 6
      BY Rests, SMT
    <3>3. t[1] = Bits(cp, 6, 5, 192)
      BY <3>1, <3>2, Rows, SMT
    <3> QED BY <3>3, PowersOfTwo, SMT DEF Bits
  <2>4. t[2] = ((cp \div 1) % 64) + 128
    <3>1. t[2] = Bits(cp, Shift(2, 2), utf[Row(2, 2)].bits_stored, utf[Row(2, 2)].lead)
      BY <2>1, <1>1, SMT
    <3>2. Row(2, 2) = 0 /\ Shift(2, 2) = 0
      BY Rests, SMT
    <3>3. t[2] = Bits(cp, 0, 6, 128)
      BY <3>1, <3>2, Rows, SMT
    <3> QED BY <3>3, PowersOfTwo, SMT DEF Bits
  <2> QED BY <1>0, <1>3, <2>2, <2>3, <2>4, Stored, SMT DEF InUtf8, t
<1>4. CASE cp >= 2048 /\ cp <= 65535
  <2>1. codepoint_len(cp) = 3
    BY <1>0, <1>4, Bytes, SMT
  <2>2. t = <<t[1], t[2], t[3]>>
    BY <2>1, <1>1, Tuples, SMT
  <2>3. t[1] = ((cp \div 4096) % 16) + 224
    <3>1. t[1] = Bits(cp, Shift(1, 3), utf[Row(1, 3)].bits_stored, utf[Row(1, 3)].lead)
      BY <2>1, <1>1, SMT
    <3>2. Row(1, 3) = 3 /\ Shift(1, 3) = 12
      BY Rests, SMT
    <3>3. t[1] = Bits(cp, 12, 4, 224)
      BY <3>1, <3>2, Rows, SMT
    <3> QED BY <3>3, PowersOfTwo, SMT DEF Bits
  <2>4. t[2] = ((cp \div 64) % 64) + 128
    <3>1. t[2] = Bits(cp, Shift(2, 3), utf[Row(2, 3)].bits_stored, utf[Row(2, 3)].lead)
      BY <2>1, <1>1, SMT
    <3>2. Row(2, 3) = 0 /\ Shift(2, 3) = 6
      BY Rests, SMT
    <3>3. t[2] = Bits(cp, 6, 6, 128)
      BY <3>1, <3>2, Rows, SMT
    <3> QED BY <3>3, PowersOfTwo, SMT DEF Bits
  <2>5. t[3] = ((cp \div 1) % 64) + 128
    <3>1. t[3] = Bits(cp, Shift(3, 3), utf[Row(3, 3)].bits_stored, utf[Row(3, 3)].lead)
      BY <2>1, <1>1, SMT
    <3>2. Row(3, 3) = 0 /\ Shift(3, 3) = 0
      BY Rests, SMT
    <3>3. t[3] = Bits(cp, 0, 6, 128)
      BY <3>1, <3>2, Rows, SMT
    <3> QED BY <3>3, PowersOfTwo, SMT DEF Bits
  <2> QED BY <1>0, <1>4, <2>2, <2>3, <2>4, <2>5, Stored, SMT DEF InUtf8, t
<1>5. CASE cp >= 65536
  <2>1. codepoint_len(cp) = 4
    BY <1>0, <1>5, Bytes, SMT
  <2>2. t = <<t[1], t[2], t[3], t[4]>>
    BY <2>1, <1>1, Tuples, SMT
  <2>3. t[1] = ((cp \div 262144) % 8) + 240
    <3>1. t[1] = Bits(cp, Shift(1, 4), utf[Row(1, 4)].bits_stored, utf[Row(1, 4)].lead)
      BY <2>1, <1>1, SMT
    <3>2. Row(1, 4) = 4 /\ Shift(1, 4) = 18
      BY Rests, SMT
    <3>3. t[1] = Bits(cp, 18, 3, 240)
      BY <3>1, <3>2, Rows, SMT
    <3> QED BY <3>3, PowersOfTwo, SMT DEF Bits
  <2>4. t[2] = ((cp \div 4096) % 64) + 128
    <3>1. t[2] = Bits(cp, Shift(2, 4), utf[Row(2, 4)].bits_stored, utf[Row(2, 4)].lead)
      BY <2>1, <1>1, SMT
    <3>2. Row(2, 4) = 0 /\ Shift(2, 4) = 12
      BY Rests, SMT
    <3>3. t[2] = Bits(cp, 12, 6, 128)
      BY <3>1, <3>2, Rows, SMT
    <3> QED BY <3>3, PowersOfTwo, SMT DEF Bits
  <2>5. t[3] = ((cp \div 64) % 64) + 128
    <3>1. t[3] = Bits(cp, Shift(3, 4), utf[Row(3, 4)].bits_stored, utf[Row(3, 4)].lead)
      BY <2>1, <1>1, SMT
    <3>2. Row(3, 4) = 0 /\ Shift(3, 4) = 6
      BY Rests, SMT
    <3>3. t[3] = Bits(cp, 6, 6, 128)
      BY <3>1, <3>2, Rows, SMT
    <3> QED BY <3>3, PowersOfTwo, SMT DEF Bits
  <2>6. t[4] = ((cp \div 1) % 64) + 128
    <3>1. t[4] = Bits(cp, Shift(4, 4), utf[Row(4, 4)].bits_stored, utf[Row(4, 4)].lead)
      BY <2>1, <1>1, SMT
    <3>2. Row(4, 4) = 0 /\ Shift(4, 4) = 0
      BY Rests, SMT
    <3>3. t[4] = Bits(cp, 0, 6, 128)
      BY <3>1, <3>2, Rows, SMT
    <3> QED BY <3>3, PowersOfTwo, SMT DEF Bits
  <2> QED BY <1>0, <1>5, <2>2, <2>3, <2>4, <2>5, <2>6, Stored, SMT DEF InUtf8, t
<1> QED BY <1>0, <1>2, <1>3, <1>4, <1>5, SMT

\* The bytes that may begin a character of n bytes.
FirstByte(n, ch) ==
  \/ n = 1 /\ ch \in 0 .. 127
  \/ n = 2 /\ ch \in 192 .. 223
  \/ n = 3 /\ ch \in 224 .. 239
  \/ n = 4 /\ ch \in 240 .. 247

\* The first byte tells how many there are.
LEMMA LengthTold ==
  ASSUME NEW m \in 1 .. 4, NEW ch, FirstByte(m, ch)
  PROVE  utf8_len(ch) = m
<1> DEFINE Fits(n) == ch - (ch % 2^utf[n].bits_stored) = utf[n].lead
<1>1. ch \in 0 .. 255
  BY SMT DEF FirstByte
<1>2. /\ Fits(0) <=> ch - (ch % 64) = 128
      /\ Fits(1) <=> ch - (ch % 128) = 0
      /\ Fits(2) <=> ch - (ch % 32) = 192
      /\ Fits(3) <=> ch - (ch % 16) = 224
      /\ Fits(4) <=> ch - (ch % 8) = 240
  BY Rows, PowersOfTwo, SMT
<1>3. /\ ~ Fits(0) /\ (Fits(1) <=> ch <= 127) /\ (Fits(2) <=> (ch >= 192 /\ ch <= 223))
      /\ (Fits(3) <=> (ch >= 224 /\ ch <= 239)) /\ (Fits(4) => ch >= 240)
      /\ (ch >= 240 /\ ch <= 247 => Fits(4))
  <2>1. ch - (ch % 64) # 128
    BY <1>1, SMT DEF FirstByte
  <2>2. ch - (ch % 128) = 0 <=> ch <= 127
    BY <1>1, SMT
  <2>3. ch - (ch % 32) = 192 <=> (ch >= 192 /\ ch <= 223)
    BY <1>1, SMT
  <2>4. ch - (ch % 16) = 224 <=> (ch >= 224 /\ ch <= 239)
    BY <1>1, SMT
  <2>5. (ch - (ch % 8) = 240 => ch >= 240) /\ (ch >= 240 /\ ch <= 247 => ch - (ch % 8) = 240)
    BY <1>1, SMT
  <2> HIDE DEF Fits
  <2> QED BY <1>2, <2>1, <2>2, <2>3, <2>4, <2>5, SMT
<1>4. utf8_len(ch) =
        IF \E n \in 0 .. 4 : Fits(n)
        THEN CHOOSE n \in 0 .. 4 : Fits(n) /\ \A k \in 0 .. n - 1 : ~ Fits(k) ELSE OutOfTable
  BY Rows, SMT DEF utf8_len, FirstRow
<1> HIDE DEF Fits
<1>5. Fits(m) /\ \A n \in 0 .. 4 : Fits(n) => n = m
  <2>1. \A n \in 0 .. 4 : n = 0 \/ n = 1 \/ n = 2 \/ n = 3 \/ n = 4
    BY SMT
  <2>2. Fits(m)
    BY <1>3, SMT DEF FirstByte
  <2>3. ASSUME NEW n \in 0 .. 4, Fits(n) PROVE n = m
    BY <1>3, <2>1, <2>3, SMT DEF FirstByte
  <2> QED BY <2>2, <2>3, SMT
<1>6. m \in 0 .. 4 /\ \A k \in 0 .. m - 1 : ~ Fits(k)
  <2>1. \A k \in 0 .. m - 1 : k \in 0 .. 4 /\ k # m
    BY SMT
  <2> QED BY <1>5, <2>1, SMT
<1>7. (CHOOSE n \in 0 .. 4 : Fits(n) /\ \A k \in 0 .. n - 1 : ~ Fits(k)) = m
  BY <1>5, <1>6, Zenon
<1> QED BY <1>4, <1>5, <1>6, <1>7, SMT

\* What byte k of n adds to the code point.
Moved(byte, bits, shift) == (byte % 2^bits) * 2^shift
Adds(chr, k, n) == Moved(chr[k], utf[Row(k, n)].bits_stored, Shift(k, n))

\* The code point is the sum over the bytes.
LEMMA Summed ==
  ASSUME NEW n \in 1 .. 4, NEW chr, FirstByte(n, chr[1])
  PROVE  \E up : /\ to_cp(chr) = up[n] /\ up[0] = 0
                 /\ \A k \in 1 .. n : up[k] = up[k - 1] + Adds(chr, k, n)
<1> DEFINE Sum(g) == g = [k \in 0 .. n |-> IF k = 0 THEN 0 ELSE g[k - 1] + Adds(chr, k, n)]
           c == CHOOSE g : Sum(g)
           A(k) == Adds(chr, k, n)
           a == [k \in 0 .. n |-> IF k = 0 THEN 0 ELSE IF k = 1 THEN 0 + A(1) ELSE IF k = 2 THEN 0 + A(1) + A(2)
                                  ELSE IF k = 3 THEN 0 + A(1) + A(2) + A(3) ELSE 0 + A(1) + A(2) + A(3) + A(4)]
<1>1. to_cp(chr) = c[n]
  <2>1. utf8_len(chr[1]) = n
    BY LengthTold
  <2> QED BY <2>1, Zenon DEF to_cp, Adds, Moved
<1>2. Sum(a)
  <2> DEFINE b == [k \in 0 .. n |-> IF k = 0 THEN 0 ELSE a[k - 1] + A(k)]
  <2> HIDE DEF A
  <2>1. \A k \in 0 .. n : a[k] = b[k]
    <3>1. \A k \in 0 .. n : k = 0 \/ (k \in 1 .. 4 /\ k - 1 \in 0 .. n)
      BY SMT
    <3>2. \A k \in 0 .. n : k = 0 \/ k = 1 \/ k = 2 \/ k = 3 \/ k = 4
      BY SMT
    <3> QED BY <3>1, <3>2, SMT
  <2>2. a = [k \in 0 .. n |-> a[k]] /\ b = [k \in 0 .. n |-> b[k]]
    <3>1. a = [k \in 0 .. n |-> a[k]]
      OBVIOUS
    <3>2. b = [k \in 0 .. n |-> b[k]]
      <4> HIDE DEF a
      <4> QED BY Zenon
    <3> QED BY <3>1, <3>2, Zenon
  <2>3. a = b
    <3> HIDE DEF a, b
    <3> QED BY <2>1, <2>2, SMT
  <2> QED BY <2>3, Zenon DEF A
<1>3. Sum(c)
  <2> HIDE DEF Sum, a
  <2> QED BY <1>2, Zenon
<1>4. c[0] = 0 /\ \A k \in 1 .. n : c[k] = c[k - 1] + A(k)
  <2> HIDE DEF c, A
  <2> QED BY <1>3, SMT DEF A
<1> QED BY <1>1, <1>4, Zenon

\* A number is the sum of its digits, six bits each.
LEMMA Digits ==
  ASSUME NEW cp \in CodePoints
  PROVE  /\ cp = ((cp \div 64) * 64) + ((cp \div 1) % 64)
         /\ cp \div 64 = ((cp \div 4096) * 64) + ((cp \div 64) % 64)
         /\ cp \div 4096 = ((cp \div 262144) * 64) + ((cp \div 4096) % 64)
         /\ (cp \div 1) % 64 \in 0 .. 63 /\ (cp \div 64) % 64 \in 0 .. 63 /\ (cp \div 4096) % 64 \in 0 .. 63
         /\ cp <= 2047 => cp \div 64 \in 0 .. 31
         /\ cp <= 65535 => cp \div 4096 \in 0 .. 15
         /\ cp \div 262144 \in 0 .. 4
<1>1. cp \in Int /\ cp >= 1 /\ cp <= 1114111
  BY SMT DEF CodePoints, LastCodePoint
<1>2. cp = ((cp \div 64) * 64) + ((cp \div 1) % 64)
  BY <1>1, SMT
<1>3. cp \div 64 = ((cp \div 4096) * 64) + ((cp \div 64) % 64)
  BY <1>1, SMT
<1>4. cp \div 4096 = ((cp \div 262144) * 64) + ((cp \div 4096) % 64)
  BY <1>1, SMT
<1>5. (cp \div 1) % 64 \in 0 .. 63 /\ (cp \div 64) % 64 \in 0 .. 63 /\ (cp \div 4096) % 64 \in 0 .. 63
  BY <1>1, SMT
<1>6. /\ cp <= 2047 => cp \div 64 \in 0 .. 31
      /\ cp <= 65535 => cp \div 4096 \in 0 .. 15
      /\ cp \div 262144 \in 0 .. 4
  BY <1>1, SMT
<1> QED BY <1>2, <1>3, <1>4, <1>5, <1>6, SMT

\* What a byte that follows adds, and the first one.
LEMMA Parts ==
  ASSUME NEW x \in 0 .. 63
  PROVE  /\ (128 + x) % 64 = x
         /\ x <= 31 => (192 + x) % 32 = x
         /\ x <= 15 => (224 + x) % 16 = x
         /\ x <= 4 => (240 + x) % 8 = x
BY SMT

\* Read back, they give the code point.
LEMMA Decoded ==
  ASSUME NEW cp \in CodePoints
  PROVE  to_cp(InUtf8(cp)) = cp
<1>0. cp \in Int /\ cp >= 1 /\ cp <= 1114111
  BY SMT DEF CodePoints, LastCodePoint
<1> DEFINE t == InUtf8(cp)
<1>1. CASE cp <= 127
  <2>1. t = <<cp>>
    BY <1>0, <1>1, SMT DEF InUtf8
  <2> HIDE DEF t
  <2>2. PICK a \in 0 .. 127 : a = cp
    BY <1>0, <1>1, SMT
  <2>3. t[1] = a
    BY <2>1, <2>2, SMT
  <2>4. FirstByte(1, t[1])
    BY <2>2, <2>3, SMT DEF FirstByte
  <2>5. PICK up : /\ to_cp(t) = up[1] /\ up[0] = 0
                  /\ \A k \in 1 .. 1 : up[k] = up[k - 1] + Adds(t, k, 1)
    BY <2>4, Summed, SMT
  <2>6. Adds(t, 1, 1) = a * 1
    <3>1. Row(1, 1) = 1 /\ Shift(1, 1) = 0
      BY Rests, SMT
    <3>2. Adds(t, 1, 1) = Moved(t[1], 7, 0)
      BY <3>1, Rows, SMT DEF Adds
    <3>3. Adds(t, 1, 1) = (t[1] % 128) * 1
      BY <3>2, PowersOfTwo, SMT DEF Moved
    <3> QED BY <2>2, <2>3, <3>3, Parts, SMT
  <2>7. up[1] = a * 1
    BY <2>2, <2>5, <2>6, SMT
  <2>8. up[1] = cp
    BY <2>2, <2>7, SMT
  <2> QED BY <2>5, <2>8, SMT DEF t
<1>2. CASE cp >= 128 /\ cp <= 2047
  <2> DEFINE a == cp \div 64
             b == (cp \div 1) % 64
  <2>1. t = <<192 + a, 128 + b>>
    BY <1>0, <1>2, SMT DEF InUtf8
  <2>2. a \in 0 .. 31 /\ b \in 0 .. 63
    BY <1>0, <1>2, Digits, SMT
  <2>0. cp = a * 64 + b * 1
    BY <1>0, Digits, SMT
  <2> HIDE DEF t, a, b
  <2>3. t[1] = 192 + a /\ t[2] = 128 + b
    BY <2>1, <2>2, SMT
  <2>4. FirstByte(2, t[1])
    BY <2>2, <2>3, SMT DEF FirstByte
  <2>5. PICK up : /\ to_cp(t) = up[2] /\ up[0] = 0
                  /\ \A k \in 1 .. 2 : up[k] = up[k - 1] + Adds(t, k, 2)
    BY <2>4, Summed, SMT
  <2>6. Adds(t, 1, 2) = a * 64
    <3>1. Row(1, 2) = 2 /\ Shift(1, 2) = 6
      BY Rests, SMT
    <3>2. Adds(t, 1, 2) = Moved(t[1], 5, 6)
      BY <3>1, Rows, SMT DEF Adds
    <3>3. Adds(t, 1, 2) = (t[1] % 32) * 64
      BY <3>2, PowersOfTwo, SMT DEF Moved
    <3> QED BY <2>2, <2>3, <3>3, Parts, SMT
  <2>7. Adds(t, 2, 2) = b * 1
    <3>1. Row(2, 2) = 0 /\ Shift(2, 2) = 0
      BY Rests, SMT
    <3>2. Adds(t, 2, 2) = Moved(t[2], 6, 0)
      BY <3>1, Rows, SMT DEF Adds
    <3>3. Adds(t, 2, 2) = (t[2] % 64) * 1
      BY <3>2, PowersOfTwo, SMT DEF Moved
    <3> QED BY <2>2, <2>3, <3>3, Parts, SMT
  <2>8. up[2] = a * 64 + b * 1
    BY <2>2, <2>5, <2>6, <2>7, SMT
  <2>9. up[2] = cp
    BY <2>0, <2>2, <2>8, SMT
  <2> QED BY <2>5, <2>9, SMT DEF t
<1>3. CASE cp >= 2048 /\ cp <= 65535
  <2> DEFINE a == cp \div 4096
             b == (cp \div 64) % 64
             c == (cp \div 1) % 64
  <2>1. t = <<224 + a, 128 + b, 128 + c>>
    BY <1>0, <1>3, SMT DEF InUtf8
  <2>2. a \in 0 .. 15 /\ b \in 0 .. 63 /\ c \in 0 .. 63
    BY <1>0, <1>3, Digits, SMT
  <2>0. cp = a * 4096 + b * 64 + c * 1
    BY <1>0, Digits, SMT
  <2> HIDE DEF t, a, b, c
  <2>3. t[1] = 224 + a /\ t[2] = 128 + b /\ t[3] = 128 + c
    BY <2>1, <2>2, SMT
  <2>4. FirstByte(3, t[1])
    BY <2>2, <2>3, SMT DEF FirstByte
  <2>5. PICK up : /\ to_cp(t) = up[3] /\ up[0] = 0
                  /\ \A k \in 1 .. 3 : up[k] = up[k - 1] + Adds(t, k, 3)
    BY <2>4, Summed, SMT
  <2>6. Adds(t, 1, 3) = a * 4096
    <3>1. Row(1, 3) = 3 /\ Shift(1, 3) = 12
      BY Rests, SMT
    <3>2. Adds(t, 1, 3) = Moved(t[1], 4, 12)
      BY <3>1, Rows, SMT DEF Adds
    <3>3. Adds(t, 1, 3) = (t[1] % 16) * 4096
      BY <3>2, PowersOfTwo, SMT DEF Moved
    <3> QED BY <2>2, <2>3, <3>3, Parts, SMT
  <2>7. Adds(t, 2, 3) = b * 64
    <3>1. Row(2, 3) = 0 /\ Shift(2, 3) = 6
      BY Rests, SMT
    <3>2. Adds(t, 2, 3) = Moved(t[2], 6, 6)
      BY <3>1, Rows, SMT DEF Adds
    <3>3. Adds(t, 2, 3) = (t[2] % 64) * 64
      BY <3>2, PowersOfTwo, SMT DEF Moved
    <3> QED BY <2>2, <2>3, <3>3, Parts, SMT
  <2>8. Adds(t, 3, 3) = c * 1
    <3>1. Row(3, 3) = 0 /\ Shift(3, 3) = 0
      BY Rests, SMT
    <3>2. Adds(t, 3, 3) = Moved(t[3], 6, 0)
      BY <3>1, Rows, SMT DEF Adds
    <3>3. Adds(t, 3, 3) = (t[3] % 64) * 1
      BY <3>2, PowersOfTwo, SMT DEF Moved
    <3> QED BY <2>2, <2>3, <3>3, Parts, SMT
  <2>9. up[3] = a * 4096 + b * 64 + c * 1
    BY <2>2, <2>5, <2>6, <2>7, <2>8, SMT
  <2>10. up[3] = cp
    BY <2>0, <2>2, <2>9, SMT
  <2> QED BY <2>5, <2>10, SMT DEF t
<1>4. CASE cp >= 65536
  <2> DEFINE a == cp \div 262144
             b == (cp \div 4096) % 64
             c == (cp \div 64) % 64
             d == (cp \div 1) % 64
  <2>1. t = <<240 + a, 128 + b, 128 + c, 128 + d>>
    BY <1>0, <1>4, SMT DEF InUtf8
  <2>2. a \in 0 .. 4 /\ b \in 0 .. 63 /\ c \in 0 .. 63 /\ d \in 0 .. 63
    BY <1>0, <1>4, Digits, SMT
  <2>0. cp = a * 262144 + b * 4096 + c * 64 + d * 1
    BY <1>0, Digits, SMT
  <2> HIDE DEF t, a, b, c, d
  <2>3. t[1] = 240 + a /\ t[2] = 128 + b /\ t[3] = 128 + c /\ t[4] = 128 + d
    BY <2>1, <2>2, SMT
  <2>4. FirstByte(4, t[1])
    BY <2>2, <2>3, SMT DEF FirstByte
  <2>5. PICK up : /\ to_cp(t) = up[4] /\ up[0] = 0
                  /\ \A k \in 1 .. 4 : up[k] = up[k - 1] + Adds(t, k, 4)
    BY <2>4, Summed, SMT
  <2>6. Adds(t, 1, 4) = a * 262144
    <3>1. Row(1, 4) = 4 /\ Shift(1, 4) = 18
      BY Rests, SMT
    <3>2. Adds(t, 1, 4) = Moved(t[1], 3, 18)
      BY <3>1, Rows, SMT DEF Adds
    <3>3. Adds(t, 1, 4) = (t[1] % 8) * 262144
      BY <3>2, PowersOfTwo, SMT DEF Moved
    <3> QED BY <2>2, <2>3, <3>3, Parts, SMT
  <2>7. Adds(t, 2, 4) = b * 4096
    <3>1. Row(2, 4) = 0 /\ Shift(2, 4) = 12
      BY Rests, SMT
    <3>2. Adds(t, 2, 4) = Moved(t[2], 6, 12)
      BY <3>1, Rows, SMT DEF Adds
    <3>3. Adds(t, 2, 4) = (t[2] % 64) * 4096
      BY <3>2, PowersOfTwo, SMT DEF Moved
    <3> QED BY <2>2, <2>3, <3>3, Parts, SMT
  <2>8. Adds(t, 3, 4) = c * 64
    <3>1. Row(3, 4) = 0 /\ Shift(3, 4) = 6
      BY Rests, SMT
    <3>2. Adds(t, 3, 4) = Moved(t[3], 6, 6)
      BY <3>1, Rows, SMT DEF Adds
    <3>3. Adds(t, 3, 4) = (t[3] % 64) * 64
      BY <3>2, PowersOfTwo, SMT DEF Moved
    <3> QED BY <2>2, <2>3, <3>3, Parts, SMT
  <2>9. Adds(t, 4, 4) = d * 1
    <3>1. Row(4, 4) = 0 /\ Shift(4, 4) = 0
      BY Rests, SMT
    <3>2. Adds(t, 4, 4) = Moved(t[4], 6, 0)
      BY <3>1, Rows, SMT DEF Adds
    <3>3. Adds(t, 4, 4) = (t[4] % 64) * 1
      BY <3>2, PowersOfTwo, SMT DEF Moved
    <3> QED BY <2>2, <2>3, <3>3, Parts, SMT
  <2>10. up[4] = a * 262144 + b * 4096 + c * 64 + d * 1
    BY <2>2, <2>5, <2>6, <2>7, <2>8, <2>9, SMT
  <2>11. up[4] = cp
    BY <2>0, <2>2, <2>10, SMT
  <2> QED BY <2>5, <2>11, SMT DEF t
<1> QED BY <1>0, <1>1, <1>2, <1>3, <1>4, SMT

(* Every code point has the bytes that UTF-8 gives it, one to four of them, *)
(* and is read back from them: nothing of a name is lost on its way to the  *)
(* screen and back (unicode-utf8.c).                                        *)
THEOREM CharactersAlwaysKept ==
  \A cp \in CodePoints : to_utf8(cp) = InUtf8(cp) /\ to_cp(to_utf8(cp)) = cp
BY Encoded, Decoded, Zenon

\* Those at the ends of the table's rows, which a run checks, are among them.
LEMMA TextAlwaysKept == TextKept
<1>1. \A cp \in CodePoints : to_utf8(cp) = InUtf8(cp) /\ to_cp(to_utf8(cp)) = cp
  BY CharactersAlwaysKept
<1> DEFINE Ends == UNION {{utf[n].beg, utf[n].end} : n \in 1 .. 4}
<1>2. ASSUME NEW cp \in Ends, cp # 0 PROVE cp \in CodePoints
  <2>1. PICK n \in 1 .. 4 : cp \in {utf[n].beg, utf[n].end}
    BY SMT
  <2>2. n = 1 \/ n = 2 \/ n = 3 \/ n = 4
    BY SMT
  <2> HIDE DEF Ends
  <2> QED BY <1>2, <2>1, <2>2, Rows, SMT DEF CodePoints, LastCodePoint
<1>3. TextKept <=> \A cp \in Ends \ {0} : to_utf8(cp) = InUtf8(cp) /\ to_cp(to_utf8(cp)) = cp
  BY Zenon DEF TextKept
<1> HIDE DEF Ends
<1> QED BY <1>1, <1>2, <1>3, Zenon

-----------------------------------------------------------------------------
(* A file's long name, put together from its entries.                       *)

\* Sequences put one behind the other, each behind those before it.
Flattens(g, s, N) == g[0] = <<>> /\ \A n \in 1 .. N : g[n] = g[n - 1] \o s[n]

\* FlattenSeq is defined step by step.
LEMMA Flattened ==
  ASSUME NEW S, NEW N \in Nat, NEW s \in [1 .. N -> Seq(S)]
  PROVE  \E g \in [0 .. N -> Seq(S)] : Flattens(g, s, N) /\ FlattenSeq(s) = g[N]
<1> DEFINE V == Seq(S)
           step == [n \in 1 .. N |-> [v \in V |-> v \o s[n]]]
<1>1. \A n \in 1 .. N : \A v \in V : v \o s[n] \in V
  <2>1. \A n \in 1 .. N : s[n] \in Seq(S)
    OBVIOUS
  <2> QED BY <2>1, ConcatProperties
<1>2. PICK g \in [0 .. N -> V] : Follows(g, N, <<>>, step)
  <2>1. step \in [1 .. N -> [V -> V]]
    BY <1>1
  <2>2. <<>> \in V
    OBVIOUS
  <2> HIDE DEF step, V
  <2> QED BY <2>1, <2>2, Recursion
<1>3. Flattens(g, s, N)
  <2>1. g[0] = <<>> /\ \A n \in 1 .. N : g[n] = step[n][g[n - 1]]
    BY <1>2, Zenon DEF Follows
  <2>2. \A n \in 1 .. N : g[n - 1] \in V
    BY <1>2
  <2>3. \A n \in 1 .. N : \A v \in V : step[n][v] = v \o s[n]
    OBVIOUS
  <2> HIDE DEF step, V
  <2> QED BY <2>1, <2>2, <2>3, Zenon DEF Flattens
<1>4. Len(s) = N
  OBVIOUS
<1>5. CASE N = 0
  <2>1. s = <<>>
    BY <1>5
  <2>2. FlattenSeq(s) = s
    BY <1>4, <1>5 DEF FlattenSeq
  <2> QED BY <1>2, <1>3, <1>5, <2>1, <2>2 DEF Flattens
<1>6. CASE N # 0
  <2> DEFINE Flat(h) == h = [k \in 1 .. N |-> IF k = 1 THEN s[k] ELSE h[k - 1] \o s[k]]
             c == CHOOSE h : Flat(h)
             a == [k \in 1 .. N |-> g[k]]
  <2>1. FlattenSeq(s) = c[N]
    BY <1>4, <1>6 DEF FlattenSeq
  <2>2. ASSUME NEW k \in 1 .. N PROVE g[k] = IF k = 1 THEN s[k] ELSE a[k - 1] \o s[k]
    <3>1. g[k] = g[k - 1] \o s[k]
      BY <1>3 DEF Flattens
    <3>2. CASE k = 1
      <4>1. g[0] = <<>> /\ s[1] \in Seq(S)
        BY <1>3, <1>6 DEF Flattens
      <4>2. \A t \in Seq(S) : <<>> \o t = t
        OBVIOUS
      <4>3. g[k] = g[0] \o s[k]
        BY <3>1, <3>2
      <4>4. g[k] = s[k]
        BY <3>2, <4>1, <4>2, <4>3, Zenon
      <4> HIDE DEF a
      <4> QED BY <3>2, <4>4
    <3>3. CASE k # 1
      <4>1. k - 1 \in 1 .. N
        BY <3>3
      <4>2. a[k - 1] = g[k - 1]
        BY <4>1
      <4> QED BY <3>1, <3>3, <4>2, Zenon
    <3> HIDE DEF a
    <3> QED BY <3>2, <3>3
  <2>3. Flat(a)
    BY <2>2
  <2>4. Flat(c)
    <3> HIDE DEF Flat, a
    <3> QED BY <2>3 DEF c
  <2> HIDE DEF c
  <2>5. \A k \in 1 .. N : c[k] = IF k = 1 THEN s[k] ELSE c[k - 1] \o s[k]
    BY <2>4
  <2> DEFINE T == {k \in 0 .. N : k = 0 \/ c[k] = g[k]}
  <2>6. \A k \in 0 .. N : k \in T
    <3>1. 0 \in T
      OBVIOUS
    <3>2. ASSUME NEW k \in 1 .. N, k - 1 \in T PROVE k \in T
      <4>1. CASE k = 1
        <5> HIDE DEF a
        <5>1. c[k] = s[k] /\ g[k] = s[k]
          BY <2>2, <2>5, <4>1, Zenon
        <5> QED BY <5>1
      <4>2. CASE k # 1
        <5>1. k - 1 \in 1 .. N /\ a[k - 1] = g[k - 1] /\ c[k - 1] = g[k - 1]
          BY <3>2, <4>2
        <5>2. c[k] = c[k - 1] \o s[k]
          BY <2>5, <4>2
        <5>3. g[k] = a[k - 1] \o s[k]
          BY <2>2, <4>2
        <5>4. k \in 0 .. N
          OBVIOUS
        <5> QED BY <5>1, <5>2, <5>3, <5>4, Zenon
      <4> HIDE DEF a
      <4> QED BY <4>1, <4>2
    <3> HIDE DEF T
    <3> QED BY <3>1, <3>2, BoundedInduction
  <2>7. c[N] = g[N]
    BY <2>6, <1>6
  <2> QED BY <1>2, <1>3, <2>1, <2>7
<1> QED BY <1>5, <1>6

\* The last sequence comes last.
LEMMA FlattenedStep ==
  ASSUME NEW S, NEW N \in Nat, NEW s \in [1 .. N + 1 -> Seq(S)]
  PROVE  /\ FlattenSeq([n \in 1 .. N |-> s[n]]) \in Seq(S)
         /\ FlattenSeq(s) = FlattenSeq([n \in 1 .. N |-> s[n]]) \o s[N + 1]
<1> DEFINE r == [n \in 1 .. N |-> s[n]]
<1>1. r \in [1 .. N -> Seq(S)]
  OBVIOUS
<1>2. PICK g \in [0 .. N + 1 -> Seq(S)] : Flattens(g, s, N + 1) /\ FlattenSeq(s) = g[N + 1]
  BY Flattened
<1>3. \A n \in 1 .. N : r[n] = s[n]
  OBVIOUS
<1> HIDE DEF r
<1>4. PICK h \in [0 .. N -> Seq(S)] : Flattens(h, r, N) /\ FlattenSeq(r) = h[N]
  BY <1>1, Flattened
<1> DEFINE T == {n \in 0 .. N : g[n] = h[n]}
<1>5. 0 \in T
  BY <1>2, <1>4 DEF Flattens
<1>6. ASSUME NEW n \in 1 .. N, n - 1 \in T PROVE n \in T
  <2>1. g[n - 1] = h[n - 1] /\ n \in 1 .. N + 1 /\ n \in 0 .. N
    BY <1>6
  <2>2. g[n] = g[n - 1] \o s[n]
    BY <1>2, <2>1 DEF Flattens
  <2>3. h[n] = h[n - 1] \o r[n]
    BY <1>4 DEF Flattens
  <2> QED BY <1>3, <2>1, <2>2, <2>3
<1>7. \A n \in 0 .. N : n \in T
  <2> HIDE DEF T
  <2> QED BY <1>5, <1>6, BoundedInduction
<1>8. g[N] = h[N] /\ h[N] \in Seq(S)
  BY <1>4, <1>7
<1>9. g[N + 1] = g[N] \o s[N + 1]
  <2>1. N + 1 \in 1 .. N + 1 /\ (N + 1) - 1 = N
    OBVIOUS
  <2> QED BY <1>2, <2>1, Zenon DEF Flattens
<1> QED BY <1>2, <1>4, <1>8, <1>9 DEF r

\* What lies between two numbers.
LEMMA Between == \A b \in Int : \A c \in 1 .. b : c \in Int /\ c >= 1 /\ c <= b
OBVIOUS

\* Characters of names are code points that end no name.
LEMMA CharactersCoded ==
  ASSUME NEW c, c \in Characters
  PROVE  c \in Int /\ c \in CodePoints /\ ~ lfn_terminator(c) /\ InUtf8(c) \in Seq(Int) /\ to_utf8(c) = InUtf8(c)
<1>1. c \in Int /\ c >= 1 /\ c <= 65534
  <2>1. PICK top \in Int : top = 2^16 - 2
    BY SMT
  <2>2. c \in 1 .. top
    BY <2>1, Zenon DEF Characters
  <2>3. c \in Int /\ c >= 1 /\ c <= top
    BY <2>2, Between, Zenon
  <2>4. 2^16 = 65536
    BY SMT
  <2> QED BY <2>1, <2>3, <2>4, SMT
<1>2. c \in CodePoints
  BY <1>1, SMT DEF CodePoints, LastCodePoint
<1>3. ~ lfn_terminator(c)
  BY <1>1, SMT DEF lfn_terminator
<1>4. InUtf8(c) \in Seq(Int)
  BY <1>1, SMT DEF InUtf8
<1>5. c \in Int
  BY <1>1, SMT
<1> QED BY <1>2, <1>3, <1>4, <1>5, Encoded, Zenon

\* What fills up the last entry of a long name ends it.
LEMMA Terminators == lfn_terminator(0) /\ lfn_terminator(65535)
BY SMT DEF lfn_terminator

\* The characters of a name after the first a of them up to b, in UTF-8.
Shown(name, a, b) == FlattenSeq([c \in 1 .. b - a |-> InUtf8(name[a + c])])

\* A stretch of a name grows by a character at a time.
LEMMA ShownGrows ==
  ASSUME NEW m \in Nat, NEW name \in [1 .. m -> Characters], NEW a \in 0 .. m, NEW b \in a .. m
  PROVE  /\ Shown(name, a, b) \in Seq(Int)
         /\ a = b => Shown(name, a, b) = <<>>
         /\ b < m => Shown(name, a, b + 1) = Shown(name, a, b) \o InUtf8(name[b + 1])
<1> DEFINE s(k) == [c \in 1 .. k |-> InUtf8(name[a + c])]
<1>1. ASSUME NEW k \in Nat, a + k <= m PROVE s(k) \in [1 .. k -> Seq(Int)]
  <2> SUFFICES ASSUME NEW c \in 1 .. k PROVE InUtf8(name[a + c]) \in Seq(Int)
    OBVIOUS
  <2>1. a + c \in 1 .. m
    BY <1>1
  <2>2. name[a + c] \in Characters
    BY <2>1, Zenon
  <2> QED BY <2>2, CharactersCoded
<1> DEFINE k == b - a
<1>2. k \in Nat /\ a + k <= m /\ a + k = b /\ (b + 1) - a = k + 1
  OBVIOUS
<1>3. Shown(name, a, b) = FlattenSeq(s(k))
  BY DEF Shown
<1>4. Shown(name, a, b + 1) = FlattenSeq(s(k + 1))
  BY <1>2, Zenon DEF Shown
<1>5. [n \in 1 .. k |-> s(k + 1)[n]] = s(k) /\ s(k + 1)[k + 1] = InUtf8(name[a + (k + 1)])
  <2> HIDE DEF k
  <2> QED BY <1>2
<1>6. s(k) \in [1 .. k -> Seq(Int)] /\ (b < m => s(k + 1) \in [1 .. k + 1 -> Seq(Int)])
  <2>1. k + 1 \in Nat /\ (b < m => a + (k + 1) <= m)
    BY <1>2
  <2> HIDE DEF s, k
  <2> QED BY <1>1, <1>2, <2>1
<1>7. a + (k + 1) = b + 1
  OBVIOUS
<1> HIDE DEF s, k
<1>8. Shown(name, a, b) \in Seq(Int) /\ (k = 0 => Shown(name, a, b) = <<>>)
  <2>1. PICK g \in [0 .. k -> Seq(Int)] : Flattens(g, s(k), k) /\ FlattenSeq(s(k)) = g[k]
    BY <1>2, <1>6, Flattened
  <2>2. g[k] \in Seq(Int)
    BY <1>2, <2>1
  <2>3. k = 0 => g[k] = <<>>
    BY <2>1, Zenon DEF Flattens
  <2> QED BY <1>3, <2>1, <2>2, <2>3, Zenon
<1>9. ASSUME b < m PROVE Shown(name, a, b + 1) = Shown(name, a, b) \o InUtf8(name[b + 1])
  <2>1. FlattenSeq(s(k + 1)) = FlattenSeq([n \in 1 .. k |-> s(k + 1)[n]]) \o s(k + 1)[k + 1]
    BY <1>2, <1>6, <1>9, FlattenedStep
  <2> QED BY <2>1, <1>3, <1>4, <1>5, <1>7
<1>10. a = b => k = 0
  BY DEF k
<1> QED BY <1>8, <1>9, <1>10

\* Parts of a name are one behind the other.
LEMMA ShownJoins ==
  ASSUME NEW m \in Nat, NEW name \in [1 .. m -> Characters], NEW a \in 0 .. m, NEW b \in a .. m, NEW c \in b .. m
  PROVE  Shown(name, a, c) = Shown(name, a, b) \o Shown(name, b, c)
<1> DEFINE N == m - b
           T == {k \in 0 .. N : Shown(name, a, b + k) = Shown(name, a, b) \o Shown(name, b, b + k)}
<1>1. N \in Nat /\ b \in 0 .. m /\ a \in 0 .. b /\ a <= b
  OBVIOUS
<1>2. Shown(name, a, b) \in Seq(Int) /\ Shown(name, b, b) = <<>>
  BY <1>1, ShownGrows
<1>3. 0 \in T
  <2>1. Shown(name, a, b) = Shown(name, a, b) \o Shown(name, b, b)
    BY <1>2, ConcatEmptySeq
  <2>2. b + 0 = b /\ 0 \in 0 .. N
    OBVIOUS
  <2> QED BY <2>1, <2>2
<1>4. ASSUME NEW k \in 1 .. N, k - 1 \in T PROVE k \in T
  <2> DEFINE d == b + (k - 1)
  <2>1. d \in a .. m /\ d \in b .. m /\ d < m /\ d + 1 = b + k /\ d + 1 \in 1 .. m /\ k \in 0 .. N
    OBVIOUS
  <2>2. Shown(name, a, d) = Shown(name, a, b) \o Shown(name, b, d)
    BY <1>4
  <2> HIDE DEF d
  <2>3. Shown(name, a, d + 1) = Shown(name, a, d) \o InUtf8(name[d + 1])
    BY <2>1, ShownGrows
  <2>4. Shown(name, b, d) \in Seq(Int) /\ Shown(name, b, d + 1) = Shown(name, b, d) \o InUtf8(name[d + 1])
    BY <1>1, <2>1, ShownGrows
  <2>5. InUtf8(name[d + 1]) \in Seq(Int)
    <3>1. name[d + 1] \in Characters
      BY <2>1, Zenon
    <3> QED BY <3>1, CharactersCoded
  <2>6. (Shown(name, a, b) \o Shown(name, b, d)) \o InUtf8(name[d + 1])
           = Shown(name, a, b) \o (Shown(name, b, d) \o InUtf8(name[d + 1]))
    BY <1>2, <2>4, <2>5, ConcatAssociative, SMTT(30)
  <2>7. Shown(name, a, d + 1) = Shown(name, a, b) \o Shown(name, b, d + 1)
    BY <2>2, <2>3, <2>4, <2>6, Zenon
  <2> QED BY <2>1, <2>7
<1>5. c - b \in 0 .. N /\ b + (c - b) = c
  OBVIOUS
<1>6. \A k \in 0 .. N : k \in T
  <2> HIDE DEF T, N
  <2> QED BY <1>1, <1>3, <1>4, BoundedInduction
<1>7. c - b \in T
  BY <1>5, <1>6
<1> QED BY <1>5, <1>7

\* A place in a name, or its end.
Within(m, x) == IF x <= m THEN x ELSE m

\* A part of an entry has the characters of the name that lie in it, then terminators.
IsPart(part, len) == len \in Nat /\ DOMAIN part = 1 .. len /\ Len(part) = len /\ part \in Seq(Int)
IsName(name, m) == m \in Nat /\ name \in [1 .. m -> Characters]
Gives(part, len, name, m, a) ==
  a \in Nat /\ \A c \in 1 .. len : IF a + c <= m THEN part[c] = name[a + c] ELSE lfn_terminator(part[c])

\* A part of an entry, appended, carries the text on to the part's end or the name's.
LEMMA PartAppended ==
  ASSUME NEW m, NEW name, IsName(name, m), NEW a, NEW len,
         NEW part, IsPart(part, len), Gives(part, len, name, m, a)
  PROVE  utf8_append(part) = Shown(name, Within(m, a), Within(m, a + len))
<1>0. /\ m \in Nat /\ name \in [1 .. m -> Characters]
      /\ DOMAIN part = 1 .. len /\ Len(part) = len /\ part \in Seq(Int)
      /\ a \in Nat /\ len \in Nat
  BY DEF IsName, IsPart, Gives
<1> DEFINE stop == {c \in DOMAIN part : lfn_terminator(part[c])} \cup {Len(part) + 1}
           first == CHOOSE c \in stop : \A x \in stop : c <= x
           text == SubSeq(part, 1, first - 1)
           t == Within(m, a + len) - Within(m, a)
<1>1. /\ t \in Nat /\ t <= len /\ (t = len \/ a + (t + 1) > m) /\ Within(m, a) \in 0 .. m
      /\ \A c \in 1 .. t : a + c <= m /\ a + c \in 1 .. m /\ Within(m, a) + c = a + c
  BY <1>0 DEF Within
<1> HIDE DEF t
<1>2. \A c \in 1 .. t : c \in 1 .. len /\ part[c] = name[a + c] /\ name[a + c] \in Characters
  <2> SUFFICES ASSUME NEW c \in 1 .. t PROVE c \in 1 .. len /\ part[c] = name[a + c] /\ name[a + c] \in Characters
    OBVIOUS
  <2>1. c \in 1 .. len /\ a + c <= m /\ a + c \in 1 .. m
    <3>1. a + c <= m /\ a + c \in 1 .. m
      BY <1>1
    <3>2. c \in 1 .. len
      BY <1>0, <1>1
    <3> QED BY <3>1, <3>2
  <2>2. name[a + c] \in Characters
    BY <1>0, <2>1, Zenon
  <2>3. part[c] = name[a + c]
    BY <2>1, Zenon DEF Gives
  <2> QED BY <2>1, <2>2, <2>3
<1>3. t + 1 \in stop
  <2>1. CASE t = len
    BY <1>0, <2>1
  <2>2. CASE t # len
    <3>1. t + 1 \in 1 .. len /\ a + (t + 1) > m
      BY <1>0, <1>1, <2>2
    <3>2. ~ (a + (t + 1) <= m)
      BY <1>0, <1>1, <2>2
    <3>3. lfn_terminator(part[t + 1])
      BY <3>1, <3>2, Zenon DEF Gives
    <3> QED BY <1>0, <3>1, <3>3
  <2> QED BY <2>1, <2>2
<1>4. ASSUME NEW x \in stop PROVE x \in Int /\ t + 1 <= x
  <2>1. CASE x = len + 1
    BY <1>0, <1>1, <2>1
  <2>2. CASE x \in 1 .. len /\ lfn_terminator(part[x])
    <3>1. x \notin 1 .. t
      BY <1>2, <2>2, CharactersCoded
    <3> QED BY <1>1, <2>2, <3>1
  <2> QED BY <1>0, <2>1, <2>2
<1>5. first = t + 1
  <2> HIDE DEF stop
  <2>1. first \in stop /\ \A x \in stop : first <= x
    BY <1>3, <1>4, Zenon
  <2> HIDE DEF first
  <2>2. first <= t + 1 /\ t + 1 <= first /\ first \in Int
    BY <1>3, <1>4, <2>1
  <2> QED BY <1>1, <2>2
<1>6. first - 1 = t
  <2> HIDE DEF first
  <2> QED BY <1>1, <1>5
<1>7. utf8_append(part) = FlattenSeq([c \in DOMAIN text |-> to_utf8(text[c])])
  BY Zenon DEF utf8_append
<1>8. text = SubSeq(part, 1, t)
  BY <1>6, Zenon
<1> HIDE DEF stop, first, text
<1>9. DOMAIN text = 1 .. t /\ \A c \in 1 .. t : text[c] = part[c]
  BY <1>0, <1>1, <1>2, <1>8
<1> DEFINE mine == [c \in DOMAIN text |-> to_utf8(text[c])]
           theirs == [c \in 1 .. t |-> InUtf8(name[Within(m, a) + c])]
<1>10. \A c \in 1 .. t : to_utf8(text[c]) = InUtf8(name[Within(m, a) + c])
  <2> SUFFICES ASSUME NEW c \in 1 .. t PROVE to_utf8(text[c]) = InUtf8(name[Within(m, a) + c])
    OBVIOUS
  <2>1. text[c] = name[a + c] /\ name[a + c] \in Characters
    BY <1>2, <1>9, Zenon
  <2>2. Within(m, a) + c = a + c
    BY <1>1, Zenon
  <2> QED BY <2>1, <2>2, CharactersCoded
<1>11. mine = theirs
  BY <1>9, <1>10
<1>12. Shown(name, Within(m, a), Within(m, a + len)) = FlattenSeq(theirs)
  BY Zenon DEF Shown, t
<1> QED BY <1>7, <1>11, <1>12, Zenon

\* The length of a sequence that is given as a function, and a function that is given
\* value by value.
LEMMA LengthOfFunction == \A S : \A m \in Nat : \A s \in [1 .. m -> S] : Len(s) = m
OBVIOUS
LEMMA FunctionInto ==
  ASSUME NEW D, NEW S, NEW g, g = [k \in D |-> g[k]], \A k \in D : g[k] \in S
  PROVE  g \in [D -> S]
BY Zenon

\* The text of an entry: the next thirteen characters, then terminators.
LEMMA TextOfEntry ==
  ASSUME NEW f \in Lfn, NEW m \in 1 .. 255, Long[f] \in [1 .. m -> Characters], NEW n \in Nat, n # 0
  PROVE  /\ LfnText(f, n) \in [1 .. 13 -> Int]
         /\ Gives(LfnText(f, n), 13, Long[f], m, 13 * (n - 1))
<1> DEFINE name == Long[f]
           at(c) == 13 * (n - 1) + c
           V(c) == IF at(c) <= m THEN name[at(c)] ELSE IF at(c) = m + 1 THEN 0 ELSE 65535
<1>1. Len(name) = m /\ m \in Nat
  <2>1. m \in Nat
    BY SMT
  <2> QED BY <2>1, LengthOfFunction, Zenon
<1>2. LfnText(f, n) = [c \in 1 .. 13 |-> V(c)]
  BY <1>1, SMT DEF LfnText
<1>0. \A x \in Characters : x \in Int
  BY CharactersCoded
<1>3. ASSUME NEW c \in 1 .. 13
      PROVE  V(c) \in Int /\ (at(c) > m => lfn_terminator(V(c)))
  <2>1. CASE at(c) <= m
    <3>1. at(c) \in 1 .. m
      BY <2>1, SMT
    <3>2. name[at(c)] \in Characters
      BY <3>1, Zenon
    <3>3. name[at(c)] \in Int
      BY <1>0, <3>2, Zenon
    <3> QED BY <1>1, <2>1, <3>1, <3>3, SMT
  <2>2. CASE ~ (at(c) <= m)
    <3>1. V(c) = 0 \/ V(c) = 65535
      BY <2>2, SMT
    <3> QED BY <2>2, <3>1, Terminators, SMT
  <2> QED BY <2>1, <2>2
<1>4. LfnText(f, n) \in [1 .. 13 -> Int]
  <2> HIDE DEF V
  <2> QED BY <1>2, <1>3, SMT
<1>5. \A c \in 1 .. 13 : LfnText(f, n)[c] = V(c)
  <2> HIDE DEF V
  <2> QED BY <1>2, Zenon
<1>6. \A c \in 1 .. 13 : at(c) <= m => V(c) = name[at(c)]
  OBVIOUS
<1>7. 13 * (n - 1) \in Nat /\ \A c \in 1 .. 13 : at(c) <= m \/ at(c) > m
  BY SMT
<1> HIDE DEF V
<1>8. Gives(LfnText(f, n), 13, name, m, 13 * (n - 1))
  BY <1>3, <1>5, <1>6, <1>7, Zenon DEF Gives
<1> QED BY <1>4, <1>8, Zenon

\* Places in a name keep their order.
LEMMA WithinGrows ==
  ASSUME NEW m \in Nat, NEW a \in Nat, NEW b \in Nat, a <= b
  PROVE  Within(m, a) \in 0 .. m /\ Within(m, b) \in Within(m, a) .. m
BY DEF Within

\* The three parts of an entry are stretches of its thirteen characters.
LEMMA PartOf ==
  ASSUME NEW text \in [1 .. 13 -> Int], NEW lo \in 1 .. 13, NEW hi \in lo .. 13
  PROVE  \E len \in Nat :
           /\ len = hi - lo + 1
           /\ DOMAIN SubSeq(text, lo, hi) = 1 .. len /\ Len(SubSeq(text, lo, hi)) = len
           /\ SubSeq(text, lo, hi) \in Seq(Int)
           /\ \A c \in 1 .. len : c + (lo - 1) \in 1 .. 13 /\ SubSeq(text, lo, hi)[c] = text[c + (lo - 1)]
<1>1. PICK l \in Int, h \in Int : l = lo /\ h = hi /\ 1 <= l /\ l <= h /\ h <= 13
  OBVIOUS
<1>2. PICK len \in Nat : len = h - l + 1
  BY <1>1
<1>3. \A k \in l .. h : text[k] \in Int
  <2>1. \A k \in l .. h : k \in 1 .. 13
    BY <1>1
  <2> QED BY <2>1
<1> DEFINE p == SubSeq(text, l, h)
<1>4. p \in Seq(Int) /\ Len(p) = len
  BY <1>1, <1>2, <1>3, SubSeqProperties
<1>5. \A c \in 1 .. len : p[c] = text[l + c - 1]
  BY <1>1, <1>2, <1>3, SubSeqProperties
<1>6. \A c \in 1 .. len : c + (l - 1) \in 1 .. 13 /\ l + c - 1 = c + (l - 1)
  BY <1>1, <1>2
<1>7. DOMAIN p = 1 .. len
  BY <1>4, LenProperties
<1> HIDE DEF p
<1>8. \A c \in 1 .. len : c + (l - 1) \in 1 .. 13 /\ p[c] = text[c + (l - 1)]
  BY <1>5, <1>6
<1>9. len = hi - lo + 1
  BY <1>1, <1>2
<1> QED BY <1>1, <1>4, <1>7, <1>8, <1>9 DEF p

\* The text of an entry is appended in three parts.
LEMMA EntryAppended ==
  ASSUME NEW m \in Nat, NEW name \in [1 .. m -> Characters], NEW at \in Nat, NEW text \in [1 .. 13 -> Int],
         Gives(text, 13, name, m, at)
  PROVE  lfn_append(text) = Shown(name, Within(m, at), Within(m, at + 13))
<1>1. ASSUME NEW lo \in 1 .. 13, NEW hi \in lo .. 13
      PROVE  utf8_append(SubSeq(text, lo, hi)) = Shown(name, Within(m, at + (lo - 1)), Within(m, at + hi))
  <2> DEFINE part == SubSeq(text, lo, hi)
  <2>1. PICK len \in Nat :
          /\ len = hi - lo + 1
          /\ DOMAIN part = 1 .. len /\ Len(part) = len /\ part \in Seq(Int)
          /\ \A c \in 1 .. len : c + (lo - 1) \in 1 .. 13 /\ part[c] = text[c + (lo - 1)]
    BY PartOf
  <2> HIDE DEF part
  <2>2. PICK b \in Nat : b = at + (lo - 1)
    OBVIOUS
  <2>3. Gives(part, len, name, m, b)
    <3> SUFFICES ASSUME NEW c \in 1 .. len
                 PROVE  IF b + c <= m THEN part[c] = name[b + c] ELSE lfn_terminator(part[c])
      BY Zenon DEF Gives
    <3>1. PICK e \in 1 .. 13 : e = c + (lo - 1) /\ part[c] = text[e]
      BY <2>1, Zenon
    <3>2. at + e = b + c
      BY <2>2, <3>1
    <3>3. IF at + e <= m THEN text[e] = name[at + e] ELSE lfn_terminator(text[e])
      BY Zenon DEF Gives
    <3> QED BY <3>1, <3>2, <3>3, Zenon
  <2>7. utf8_append(part) = Shown(name, Within(m, b), Within(m, b + len))
    <3>1. IsPart(part, len)
      BY <2>1, Zenon DEF IsPart
    <3>2. IsName(name, m)
      BY Zenon DEF IsName
    <3> QED BY <2>3, <3>1, <3>2, PartAppended, Zenon
  <2>8. b + len = at + hi
    BY <2>1, <2>2
  <2> QED BY <2>2, <2>7, <2>8 DEF part
<1>2. /\ utf8_append(SubSeq(text, 1, 5)) = Shown(name, Within(m, at), Within(m, at + 5))
      /\ utf8_append(SubSeq(text, 6, 11)) = Shown(name, Within(m, at + 5), Within(m, at + 11))
      /\ utf8_append(SubSeq(text, 12, 13)) = Shown(name, Within(m, at + 11), Within(m, at + 13))
  <2>1. utf8_append(SubSeq(text, 1, 5)) = Shown(name, Within(m, at + (1 - 1)), Within(m, at + 5))
    BY <1>1
  <2>2. utf8_append(SubSeq(text, 6, 11)) = Shown(name, Within(m, at + (6 - 1)), Within(m, at + 11))
    BY <1>1
  <2>3. utf8_append(SubSeq(text, 12, 13)) = Shown(name, Within(m, at + (12 - 1)), Within(m, at + 13))
    BY <1>1
  <2>4. at + (1 - 1) = at /\ at + (6 - 1) = at + 5 /\ at + (12 - 1) = at + 11
    OBVIOUS
  <2> QED BY <2>1, <2>2, <2>3, <2>4
<1> DEFINE p == Within(m, at)
           q == Within(m, at + 5)
           r == Within(m, at + 11)
           s == Within(m, at + 13)
<1>3. p \in 0 .. m /\ q \in p .. m /\ r \in q .. m /\ r \in p .. m /\ s \in r .. m
  <2>1. /\ at <= at + 5 /\ at <= at + 11 /\ at + 5 <= at + 11 /\ at + 11 <= at + 13
        /\ at + 5 \in Nat /\ at + 11 \in Nat /\ at + 13 \in Nat
    OBVIOUS
  <2> QED BY <2>1, WithinGrows, Zenon
<1>4. lfn_append(text) = (Shown(name, p, q) \o Shown(name, q, r)) \o Shown(name, r, s)
  BY <1>2, Zenon DEF lfn_append
<1> HIDE DEF p, q, r
<1>5. p \in 0 .. m /\ q \in 0 .. m /\ r \in 0 .. m
  BY <1>3
<1>6. Shown(name, p, q) \o Shown(name, q, r) = Shown(name, p, r)
  BY <1>3, <1>5, ShownJoins
<1>7. Shown(name, p, r) \o Shown(name, r, s) = Shown(name, p, s)
  <2> HIDE DEF s
  <2> QED BY <1>3, <1>5, ShownJoins
<1> QED BY <1>4, <1>6, <1>7, Zenon DEF p

\* The entries of a long name, from its first character on, give it in UTF-8.
LEMMA LongNameAppended ==
  ASSUME NEW f \in Lfn, f \in Files
  PROVE  FlattenSeq([n \in 1 .. Chain(f) |-> lfn_append(LfnText(f, n))])
           = FlattenSeq([c \in DOMAIN Long[f] |-> InUtf8(Long[f][c])])
<1>1. PICK m \in 1 .. 255 : Long[f] \in [1 .. m -> Characters]
  BY FilesAssumption, ZenonT(30)
<1>2. PICK name : name = Long[f]
  OBVIOUS
<1>3. name \in [1 .. m -> Characters] /\ m \in Nat
  BY <1>1, <1>2
<1>4. PICK cnt \in 0 .. 20 : cnt = Chain(f)
  BY ChainRange
<1>5. 13 * cnt >= m
  <2>1. Len(Long[f]) = m
    <3>1. \A s \in [1 .. m -> Characters] : Len(s) = m
      OBVIOUS
    <3> QED BY <1>1, <3>1, Zenon
  <2>2. cnt = (m + 12) \div 13
    BY <1>4, <2>1 DEF Chain
  <2> QED BY <2>2
<1> DEFINE to(n) == Within(m, 13 * n)
           A(n) == lfn_append(LfnText(f, n))
           s(k) == [n \in 1 .. k |-> A(n)]
           T == {k \in 0 .. cnt : FlattenSeq(s(k)) = Shown(name, 0, to(k))}
<1>6. ASSUME NEW n \in 1 .. 20
      PROVE  /\ to(n - 1) \in 0 .. m /\ to(n) \in to(n - 1) .. m
             /\ A(n) = Shown(name, to(n - 1), to(n))
  <2>1. PICK a \in Nat : a = 13 * (n - 1) /\ a + 13 = 13 * n /\ n # 0 /\ n \in Nat
    OBVIOUS
  <2>2. /\ LfnText(f, n) \in [1 .. 13 -> Int]
        /\ Gives(LfnText(f, n), 13, name, m, a)
    BY <1>1, <1>2, <2>1, TextOfEntry
  <2>3. lfn_append(LfnText(f, n)) = Shown(name, Within(m, a), Within(m, a + 13))
    BY <1>3, <2>1, <2>2, EntryAppended
  <2>4. Within(m, a) \in 0 .. m /\ Within(m, a + 13) \in Within(m, a) .. m
    <3>1. a + 13 \in Nat /\ a <= a + 13
      OBVIOUS
    <3> QED BY <1>3, <3>1, WithinGrows
  <2> QED BY <2>1, <2>3, <2>4, Zenon
<1>7. ASSUME NEW n \in 1 .. 20 PROVE A(n) \in Seq(Int)
  <2>1. to(n - 1) \in 0 .. m /\ to(n) \in to(n - 1) .. m /\ A(n) = Shown(name, to(n - 1), to(n))
    BY <1>6
  <2> HIDE DEF A, to
  <2> QED BY <1>3, <2>1, ShownGrows
<1>8. to(0) = 0
  BY <1>3 DEF Within
<1> HIDE DEF A, to
<1>9. \A k \in 0 .. cnt : s(k) \in [1 .. k -> Seq(Int)]
  <2> SUFFICES ASSUME NEW k \in 0 .. cnt, NEW n \in 1 .. k PROVE A(n) \in Seq(Int)
    OBVIOUS
  <2>1. n \in 1 .. 20
    OBVIOUS
  <2> QED BY <1>7, <2>1
<1>10. 0 \in T
  <2>1. FlattenSeq(s(0)) = <<>>
    <3>1. PICK g : Flattens(g, s(0), 0) /\ FlattenSeq(s(0)) = g[0]
      <4>1. 0 \in Nat /\ 0 \in 0 .. cnt
        OBVIOUS
      <4> HIDE DEF s
      <4> QED BY <1>9, <4>1, Flattened, ZenonT(30)
    <3> HIDE DEF s
    <3> QED BY <3>1, Zenon DEF Flattens
  <2>2. Shown(name, 0, 0) = <<>>
    BY <1>3, ShownGrows
  <2> HIDE DEF s
  <2> QED BY <2>1, <2>2, <1>8
<1>11. ASSUME NEW k \in 1 .. cnt, k - 1 \in T PROVE k \in T
  <2>1. k \in 1 .. 20 /\ k \in 0 .. cnt /\ (k - 1) + 1 = k /\ k - 1 \in Nat
    OBVIOUS
  <2>2. [n \in 1 .. k - 1 |-> s(k)[n]] = s(k - 1) /\ s(k)[k] = A(k)
    OBVIOUS
  <2>3. s(k) \in [1 .. k -> Seq(Int)]
    BY <1>9, <2>1
  <2>4. FlattenSeq(s(k - 1)) = Shown(name, 0, to(k - 1))
    BY <1>11
  <2> HIDE DEF s
  <2>5. FlattenSeq(s(k)) = FlattenSeq([n \in 1 .. k - 1 |-> s(k)[n]]) \o s(k)[k]
    <3>1. PICK j \in Nat : j = k - 1 /\ j + 1 = k
      BY <2>1
    <3>2. s(k) \in [1 .. j + 1 -> Seq(Int)]
      BY <2>3, <3>1
    <3>3. FlattenSeq(s(k)) = FlattenSeq([n \in 1 .. j |-> s(k)[n]]) \o s(k)[j + 1]
      BY <3>2, FlattenedStep
    <3> QED BY <3>1, <3>3
  <2>6. FlattenSeq(s(k)) = Shown(name, 0, to(k - 1)) \o Shown(name, to(k - 1), to(k))
    BY <1>6, <2>1, <2>2, <2>4, <2>5, Zenon
  <2>7. Shown(name, 0, to(k - 1)) \o Shown(name, to(k - 1), to(k)) = Shown(name, 0, to(k))
    <3>1. to(k - 1) \in 0 .. m /\ to(k) \in to(k - 1) .. m
      BY <1>6, <2>1, Zenon
    <3>2. 0 \in 0 .. m /\ to(k - 1) \in 0 .. m
      BY <1>3, <3>1
    <3> QED BY <1>3, <3>1, <3>2, ShownJoins
  <2> QED BY <2>1, <2>6, <2>7
<1>12. \A k \in 0 .. cnt : k \in T
  <2>1. cnt \in Nat
    OBVIOUS
  <2> HIDE DEF T
  <2> QED BY <1>10, <1>11, <2>1, BoundedInduction
<1>13. FlattenSeq(s(cnt)) = Shown(name, 0, to(cnt))
  <2>1. cnt \in 0 .. cnt
    OBVIOUS
  <2> QED BY <1>12, <2>1
<1>14. to(cnt) = m
  BY <1>3, <1>5 DEF to, Within
<1>15. Shown(name, 0, m) = FlattenSeq([c \in DOMAIN name |-> InUtf8(name[c])])
  <2>1. m - 0 = m /\ \A c \in 1 .. m : 0 + c = c
    BY <1>3
  <2>2. DOMAIN name = 1 .. m
    BY <1>3
  <2>3. [c \in 1 .. m - 0 |-> InUtf8(name[0 + c])] = [c \in DOMAIN name |-> InUtf8(name[c])]
    BY <2>1, <2>2
  <2> QED BY <2>3, Zenon DEF Shown
<1> QED BY <1>2, <1>4, <1>13, <1>14, <1>15, Zenon DEF A

-----------------------------------------------------------------------------
(* A file's short name, and the names of what the walk prints.              *)

\* A sequence of single bytes.
LEMMA Singles ==
  ASSUME NEW N \in Nat, NEW t \in [1 .. N -> Int]
  PROVE  FlattenSeq([c \in 1 .. N |-> <<t[c]>>]) = t
<1> DEFINE s(k) == [c \in 1 .. k |-> <<t[c]>>]
           p(k) == [c \in 1 .. k |-> t[c]]
           T == {k \in 0 .. N : FlattenSeq(s(k)) = p(k)}
<1>1. \A k \in 0 .. N : s(k) \in [1 .. k -> Seq(Int)]
  <2> SUFFICES ASSUME NEW k \in 0 .. N, NEW c \in 1 .. k PROVE <<t[c]>> \in Seq(Int)
    OBVIOUS
  <2>1. t[c] \in Int
    OBVIOUS
  <2> QED BY <2>1
<1>2. 0 \in T
  <2>1. FlattenSeq(s(0)) = <<>>
    <3>1. PICK g : Flattens(g, s(0), 0) /\ FlattenSeq(s(0)) = g[0]
      <4>1. 0 \in Nat /\ 0 \in 0 .. N
        OBVIOUS
      <4> HIDE DEF s
      <4> QED BY <1>1, <4>1, Flattened, Zenon
    <3> HIDE DEF s
    <3> QED BY <3>1, Zenon DEF Flattens
  <2>2. p(0) = <<>> /\ 0 \in 0 .. N
    OBVIOUS
  <2> HIDE DEF s, p
  <2> QED BY <2>1, <2>2
<1>3. ASSUME NEW k \in 1 .. N, k - 1 \in T PROVE k \in T
  <2>1. PICK j \in Nat : j = k - 1 /\ j + 1 = k /\ k \in 0 .. N
    OBVIOUS
  <2>2. [c \in 1 .. j |-> s(k)[c]] = s(j) /\ s(k)[j + 1] = <<t[k]>>
    BY <2>1
  <2>3. s(k) \in [1 .. j + 1 -> Seq(Int)]
    BY <1>1, <2>1
  <2>4. FlattenSeq(s(j)) = p(j)
    BY <1>3, <2>1
  <2>5. p(j) \o <<t[k]>> = p(k)
    BY <2>1
  <2> HIDE DEF s, p
  <2>6. FlattenSeq(s(k)) = FlattenSeq([c \in 1 .. j |-> s(k)[c]]) \o s(k)[j + 1]
    BY <2>3, FlattenedStep
  <2> QED BY <2>1, <2>2, <2>4, <2>5, <2>6
<1>4. \A k \in 0 .. N : k \in T
  <2> HIDE DEF T
  <2> QED BY <1>2, <1>3, BoundedInduction
<1>5. p(N) = t /\ N \in 0 .. N
  OBVIOUS
<1> QED BY <1>4, <1>5

\* A character below 128 is its own byte in UTF-8.
LEMMA AsciiIsItself ==
  ASSUME NEW c \in 0 .. 127
  PROVE  InUtf8(c) = <<c>>
BY SMT DEF InUtf8

\* The name that is shown, of a base of m characters, in the parts it is put together from.
Base(n, m) == [k \in 1 .. m |-> n[k]]

\* The dot and the extension.
LEMMA OneAndThree ==
  ASSUME NEW x \in Int, NEW y \in Int, NEW z \in Int, NEW u \in Int
  PROVE  <<x>> \o <<y, z, u>> = <<x, y, z, u>>
<1> DEFINE c == <<x>> \o <<y, z, u>>
           s == <<x>>
           t == <<y, z, u>>
<1>1. s \in Seq(Int) /\ t \in Seq(Int) /\ Len(s) = 1 /\ Len(t) = 3 /\ s[1] = x /\ t[1] = y /\ t[2] = z /\ t[3] = u
  OBVIOUS
<1>2. c = s \o t
  OBVIOUS
<1> HIDE DEF c, s, t
<1>3. c \in Seq(Int) /\ Len(c) = 4
  <2>1. c \in Seq(Int) /\ Len(c) = Len(s) + Len(t)
    BY <1>1, <1>2, ConcatProperties, Zenon
  <2> QED BY <1>1, <2>1
<1>4. \A k \in 1 .. Len(s) + Len(t) : c[k] = IF k <= Len(s) THEN s[k] ELSE t[k - Len(s)]
  BY <1>1, <1>2, ConcatProperties, Zenon
<1>5. c[1] = x /\ c[2] = y /\ c[3] = z /\ c[4] = u
  BY <1>1, <1>4
<1>6. c = <<c[1], c[2], c[3], c[4]>>
  BY <1>3
<1> QED BY <1>5, <1>6 DEF c

\* The extension of a short name.
LEMMA LastThree ==
  ASSUME NEW n \in [1 .. 11 -> Int]
  PROVE  SubSeq(n, 9, 11) = <<n[9], n[10], n[11]>> /\ n[9] \in Int /\ n[10] \in Int /\ n[11] \in Int
<1> DEFINE z == SubSeq(n, 9, 11)
<1>1. n[9] \in Int /\ n[10] \in Int /\ n[11] \in Int
  OBVIOUS
<1>2. \A k \in 9 .. 11 : n[k] \in Int
  OBVIOUS
<1>3. z \in Seq(Int) /\ Len(z) = 3
  BY <1>2, SubSeqProperties
<1>4. \A k \in 1 .. 3 : z[k] = n[9 + k - 1]
  BY <1>2, SubSeqProperties
<1> HIDE DEF z
<1>5. z[1] = n[9] /\ z[2] = n[10] /\ z[3] = n[11]
  BY <1>4
<1>6. z = <<z[1], z[2], z[3]>>
  BY <1>3
<1> QED BY <1>1, <1>5, <1>6 DEF z

LEMMA ThreeJoined == \A s, t, u \in Seq(Int) : (s \o t) \o u = s \o (t \o u)
BY ConcatAssociative, SMTT(30)

\* The base, the dot and the extension, character by character.
LEMMA NameParts ==
  ASSUME NEW n \in [1 .. 11 -> Int], NEW m \in 1 .. 8
  PROVE  Base(n, m) \o <<46>> \o SubSeq(n, 9, 11)
           = [k \in 1 .. m + 4 |-> IF k <= m THEN n[k] ELSE IF k = m + 1 THEN 46 ELSE n[k - m + 7]]
<1> DEFINE z == SubSeq(n, 9, 11)
           b == Base(n, m)
           w == [k \in 1 .. m + 4 |-> IF k <= m THEN n[k] ELSE IF k = m + 1 THEN 46 ELSE n[k - m + 7]]
<1>1. z = <<n[9], n[10], n[11]>> /\ n[9] \in Int /\ n[10] \in Int /\ n[11] \in Int
  BY LastThree
<1>2. b \in Seq(Int) /\ Len(b) = m /\ \A k \in 1 .. m : b[k] = n[k]
  <2> SUFFICES ASSUME NEW k \in 1 .. m PROVE n[k] \in Int
    BY DEF Base
  <2> QED OBVIOUS
<1> HIDE DEF z, b
<1>3. b \o <<46>> \o z = b \o <<46, n[9], n[10], n[11]>>
  <2>1. <<46>> \o <<n[9], n[10], n[11]>> = <<46, n[9], n[10], n[11]>>
    BY <1>1, OneAndThree
  <2>2. <<46>> \in Seq(Int) /\ z \in Seq(Int)
    BY <1>1
  <2>3. b \in Seq(Int)
    BY <1>2, Zenon
  <2>4. (b \o <<46>>) \o z = b \o (<<46>> \o z)
    <3>1. PICK d : d = <<46>>
      OBVIOUS
    <3>2. d \in Seq(Int)
      BY <2>2, <3>1
    <3>3. z \in Seq(Int)
      BY <2>2, Zenon
    <3>4. (b \o d) \o z = b \o (d \o z)
      BY <2>3, <3>2, <3>3, ThreeJoined, Zenon
    <3> QED BY <3>1, <3>4
  <2> QED BY <1>1, <2>1, <2>4, Zenon
<1> DEFINE e == <<46, n[9], n[10], n[11]>>
<1>4. e \in Seq(Int) /\ Len(e) = 4 /\ e[1] = 46 /\ e[2] = n[9] /\ e[3] = n[10] /\ e[4] = n[11]
  BY <1>1
<1> HIDE DEF e
<1>5. /\ b \o e \in Seq(Int) /\ Len(b \o e) = m + 4
      /\ \A k \in 1 .. m + 4 : (b \o e)[k] = IF k <= m THEN b[k] ELSE e[k - m]
  <2>1. b \in Seq(Int) /\ e \in Seq(Int) /\ Len(b) = m /\ Len(e) = 4
    BY <1>2, <1>4, Zenon
  <2>2. /\ b \o e \in Seq(Int) /\ Len(b \o e) = Len(b) + Len(e)
        /\ \A k \in 1 .. Len(b) + Len(e) : (b \o e)[k] = IF k <= Len(b) THEN b[k] ELSE e[k - Len(b)]
    BY <2>1, ConcatProperties, Zenon
  <2> QED BY <2>1, <2>2, Zenon
<1>6. ASSUME NEW k \in 1 .. m + 4 PROVE (b \o e)[k] = w[k]
  <2>1. CASE k <= m
    <3>1. k \in 1 .. m /\ w[k] = n[k]
      BY <2>1
    <3>2. (b \o e)[k] = b[k]
      BY <1>5, <2>1
    <3> QED BY <1>2, <3>1, <3>2, Zenon
  <2>2. CASE k \in m + 1 .. m + 4
    <3>1. ~ (k <= m) /\ (k = m + 1 \/ k = m + 2 \/ k = m + 3 \/ k = m + 4)
      BY <2>2
    <3>2. w[k] = e[k - m]
      <4>1. CASE k = m + 1
        <5>1. k - m = 1 /\ w[k] = 46
          BY <4>1, <3>1
        <5> HIDE DEF w
        <5> QED BY <5>1, <1>4
      <4>2. CASE k = m + 2
        <5>1. k - m = 2 /\ w[k] = n[9]
          BY <4>2, <3>1
        <5> HIDE DEF w
        <5> QED BY <5>1, <1>4
      <4>3. CASE k = m + 3
        <5>1. k - m = 3 /\ w[k] = n[10]
          BY <4>3, <3>1
        <5> HIDE DEF w
        <5> QED BY <5>1, <1>4
      <4>4. CASE k = m + 4
        <5>1. k - m = 4 /\ w[k] = n[11]
          BY <4>4, <3>1
        <5> HIDE DEF w
        <5> QED BY <5>1, <1>4
      <4> QED BY <3>1, <4>1, <4>2, <4>3, <4>4
    <3>3. (b \o e)[k] = e[k - m]
      BY <1>5, <3>1
    <3> QED BY <3>2, <3>3, Zenon
  <2>3. k <= m \/ k \in m + 1 .. m + 4
    OBVIOUS
  <2> QED BY <2>1, <2>2, <2>3, Zenon
<1>7. w \in Seq(Int) /\ Len(w) = m + 4
  <2> SUFFICES ASSUME NEW k \in 1 .. m + 4 PROVE w[k] \in Int
    OBVIOUS
  <2>1. (b \o e)[k] \in Int
    <3> DEFINE c == b \o e
    <3>1. c \in Seq(Int) /\ Len(c) = m + 4
      BY <1>5
    <3> HIDE DEF c
    <3>2. c[k] \in Int
      BY <3>1
    <3> QED BY <3>2 DEF c
  <2> QED BY <1>6, <2>1
<1>8. b \o e = w
  <2> HIDE DEF w
  <2>1. PICK u, v : u = b \o e /\ v = w
    OBVIOUS
  <2>2. u \in Seq(Int) /\ v \in Seq(Int) /\ Len(u) = m + 4 /\ Len(v) = m + 4
    BY <1>5, <1>7, <2>1, Zenon
  <2>3. \A k \in 1 .. Len(u) : u[k] = v[k]
    BY <1>6, <2>1, <2>2, Zenon
  <2>4. u = v
    BY <2>2, <2>3, SeqEqual
  <2> QED BY <2>1, <2>4
<1> QED BY <1>3, <1>8 DEF e, z, b

\* Leaving out the spaces that fill up the base.
KeptOf(n) == CHOOSE h : h = [k \in 0 .. 8 |->
               IF k = 0 THEN <<>> ELSE IF n[k] = 32 THEN h[k - 1] ELSE Append(h[k - 1], n[k])]
FilledUp(n, m) == \A k \in 1 .. 8 : n[k] = 32 <=> k > m

\* A base of one character more.
LEMMA BaseGrows ==
  ASSUME NEW n \in [1 .. 11 -> Int], NEW k \in 1 .. 8
  PROVE  Base(n, k) = Append(Base(n, k - 1), n[k])
<1>1. PICK j \in 0 .. 7 : j = k - 1 /\ k = j + 1
  OBVIOUS
<1>2. \A c \in 1 .. 8 : n[c] \in Int
  OBVIOUS
<1> DEFINE u == Base(n, k)
           b == Base(n, j)
           v == Append(b, n[k])
<1>3. \A c \in 1 .. k : c \in 1 .. 8
  OBVIOUS
<1>4. u \in Seq(Int) /\ Len(u) = k /\ \A c \in 1 .. k : u[c] = n[c]
  BY <1>2, <1>3 DEF Base
<1>5. b \in Seq(Int) /\ Len(b) = j /\ \A c \in 1 .. j : b[c] = n[c]
  BY <1>1, <1>2 DEF Base
<1> HIDE DEF u, b
<1>6. /\ v \in Seq(Int) /\ Len(v) = Len(b) + 1
      /\ \A c \in 1 .. Len(b) : v[c] = b[c]
      /\ v[Len(b) + 1] = n[k]
  <2>1. b \in Seq(Int)
    BY <1>5, Zenon
  <2>2. PICK e \in Int : e = n[k]
    BY <1>2
  <2>3. /\ Append(b, e) \in Seq(Int) /\ Len(Append(b, e)) = Len(b) + 1
        /\ \A c \in 1 .. Len(b) : Append(b, e)[c] = b[c]
        /\ Append(b, e)[Len(b) + 1] = e
    BY <2>1, <2>2, AppendProperties
  <2> QED BY <2>2, <2>3, Zenon
<1> HIDE DEF v
<1>7. Len(v) = k /\ \A c \in 1 .. k : v[c] = n[c]
  <2>1. Len(v) = k /\ v[k] = n[k]
    BY <1>1, <1>5, <1>6
  <2>2. \A c \in 1 .. k : c = k \/ c \in 1 .. j
    BY <1>1
  <2>3. \A c \in 1 .. j : v[c] = n[c]
    BY <1>5, <1>6
  <2> QED BY <2>1, <2>2, <2>3
<1>8. u = v
  <2>1. Len(u) = Len(v) /\ \A c \in 1 .. Len(u) : u[c] = v[c]
    BY <1>4, <1>7
  <2> QED BY <1>4, <1>6, <2>1, SeqEqual
<1> QED BY <1>1, <1>8 DEF u, v, b

\* What is left is the base.
LEMMA BaseKept ==
  ASSUME NEW n \in [1 .. 11 -> Int], NEW m \in 1 .. 8, FilledUp(n, m)
  PROVE  KeptOf(n)[8] = Base(n, m)
<1> DEFINE Kept(h) == h = [k \in 0 .. 8 |->
             IF k = 0 THEN <<>> ELSE IF n[k] = 32 THEN h[k - 1] ELSE Append(h[k - 1], n[k])]
           a == [k \in 0 .. 8 |-> Base(n, Within(m, k))]
           kept == KeptOf(n)
<1>1. ASSUME NEW k \in 1 .. 8
      PROVE  a[k] = IF n[k] = 32 THEN a[k - 1] ELSE Append(a[k - 1], n[k])
  <2>1. a[k] = Base(n, Within(m, k)) /\ a[k - 1] = Base(n, Within(m, k - 1))
    OBVIOUS
  <2> HIDE DEF a
  <2>2. CASE k <= m
    <3>1. Within(m, k) = k /\ Within(m, k - 1) = k - 1 /\ n[k] # 32
      BY <2>2 DEF Within, FilledUp
    <3>2. Base(n, k) = Append(Base(n, k - 1), n[k])
      BY BaseGrows
    <3> QED BY <2>1, <3>1, <3>2
  <2>3. CASE ~ (k <= m)
    <3>1. Within(m, k) = m /\ Within(m, k - 1) = m /\ n[k] = 32
      BY <2>3 DEF Within, FilledUp
    <3> QED BY <2>1, <3>1
  <2> QED BY <2>2, <2>3
<1>2. a[0] = <<>>
  <2>1. Within(m, 0) = 0
    BY DEF Within
  <2>2. Base(n, 0) = <<>>
    BY DEF Base
  <2> QED BY <2>1, <2>2
<1>3. Kept(a)
  <2> DEFINE C == [k \in 0 .. 8 |->
                     IF k = 0 THEN <<>> ELSE IF n[k] = 32 THEN a[k - 1] ELSE Append(a[k - 1], n[k])]
  <2>1. \A k \in 0 .. 8 : k = 0 \/ k \in 1 .. 8
    OBVIOUS
  <2>2. a = [k \in 0 .. 8 |-> a[k]]
    OBVIOUS
  <2> HIDE DEF a
  <2>3. \A k \in 0 .. 8 : C[k] = a[k]
    BY <1>1, <1>2, <2>1, Zenon
  <2>4. C = [k \in 0 .. 8 |-> C[k]]
    BY Zenon
  <2>5. C = a
    <3> HIDE DEF C
    <3> QED BY <2>2, <2>3, <2>4
  <2> QED BY <2>5, Zenon
<1>4. Kept(kept)
  <2> HIDE DEF a
  <2>1. kept = CHOOSE h : Kept(h)
    BY Zenon DEF KeptOf
  <2> HIDE DEF Kept, kept
  <2> QED BY <1>3, <2>1, Zenon
<1> HIDE DEF kept
<1>5. kept[0] = <<>> /\ \A k \in 1 .. 8 : kept[k] = IF n[k] = 32 THEN kept[k - 1] ELSE Append(kept[k - 1], n[k])
  <2>1. \A k \in 0 .. 8 : kept[k] = IF k = 0 THEN <<>> ELSE IF n[k] = 32 THEN kept[k - 1]
                                   ELSE Append(kept[k - 1], n[k])
    BY <1>4, Zenon
  <2>2. 0 \in 0 .. 8 /\ \A k \in 1 .. 8 : k \in 0 .. 8 /\ k # 0
    OBVIOUS
  <2> QED BY <2>1, <2>2, Zenon
<1> DEFINE T == {k \in 0 .. 8 : kept[k] = a[k]}
<1> HIDE DEF a
<1>6. \A k \in 0 .. 8 : k \in T
  <2>1. 0 \in T
    <3>1. kept[0] = a[0]
      BY <1>2, <1>5, Zenon
    <3>2. 0 \in 0 .. 8
      OBVIOUS
    <3> QED BY <3>1, <3>2, Zenon
  <2>2. ASSUME NEW k \in 1 .. 8, k - 1 \in T PROVE k \in T
    <3>1. kept[k - 1] = a[k - 1] /\ k \in 0 .. 8
      BY <2>2
    <3>2. kept[k] = a[k]
      <4>1. a[k] = IF n[k] = 32 THEN a[k - 1] ELSE Append(a[k - 1], n[k])
        BY <1>1
      <4>2. kept[k] = IF n[k] = 32 THEN kept[k - 1] ELSE Append(kept[k - 1], n[k])
        BY <1>5, Zenon
      <4> QED BY <3>1, <4>1, <4>2, Zenon
    <3> QED BY <3>1, <3>2
  <2> HIDE DEF T
  <2> QED BY <2>1, <2>2, BoundedInduction
<1>7. kept[8] = a[8]
  BY <1>6
<1>8. Within(m, 8) = m
  BY DEF Within
<1> QED BY <1>7, <1>8 DEF a, kept

\* A short name is read as the host shows it.
LEMMA ShortNameShown ==
  ASSUME NEW f \in Files \ Lfn, Short[f][11] # 32, NEW d,
         dirs[d].text = Short[f], dirs[d].reserved0 = IF f \in Lower THEN 24 ELSE 0
  PROVE  ShortName(d) = FlattenSeq([c \in DOMAIN Long[f] |-> InUtf8(Long[f][c])])
<1> DEFINE Lowered(c) == IF f \in Lower /\ c \in 65 .. 90 THEN c + 32 ELSE c
           Lower2(c) == IF dirs[d].reserved0 = 24 /\ c \in 65 .. 90 THEN c + 32 ELSE c
           n == [k \in 1 .. 11 |-> Lower2(dirs[d].text[k])]
<1>1. Shows83(f, Long[f])
  BY FilesAssumption, Zenon
<1>2. PICK m \in 1 .. 8 :
        /\ \A k \in 1 .. 11 : IF k \in m + 1 .. 8 THEN Short[f][k] = 32 ELSE Short[f][k] \in 33 .. 127
        /\ Long[f] = [k \in 1 .. m + 4 |-> IF k <= m THEN Lowered(Short[f][k])
                                           ELSE IF k = m + 1 THEN 46 ELSE Lowered(Short[f][k - m + 7])]
  BY <1>1, Zenon DEF Shows83
<1>3. \A c : Lower2(c) = Lowered(c)
  <2>1. dirs[d].reserved0 = 24 <=> f \in Lower
    OBVIOUS
  <2> QED BY <2>1
<1>4. \A k \in 1 .. 11 : n[k] = Lowered(Short[f][k])
  <2> HIDE DEF Lowered, Lower2
  <2> QED BY <1>3
<1>5. \A c \in 32 .. 127 : Lowered(c) \in 32 .. 127 /\ (Lowered(c) = 32 <=> c = 32)
  OBVIOUS
<1>6. \A k \in 1 .. 11 : Short[f][k] \in 32 .. 127 /\ (k <= 8 => (Short[f][k] = 32 <=> k > m))
  <2> SUFFICES ASSUME NEW k \in 1 .. 11
               PROVE  Short[f][k] \in 32 .. 127 /\ (k <= 8 => (Short[f][k] = 32 <=> k > m))
    OBVIOUS
  <2>1. PICK c : c = Short[f][k]
    OBVIOUS
  <2>2. IF k \in m + 1 .. 8 THEN c = 32 ELSE c \in 33 .. 127
    BY <1>2, <2>1, Zenon
  <2>3. c \in 32 .. 127 /\ (k <= 8 => (c = 32 <=> k > m))
    BY <2>2
  <2> QED BY <2>1, <2>3
<1>7. n \in [1 .. 11 -> 32 .. 127]
  <2>1. \A k \in 1 .. 11 : n[k] \in 32 .. 127
    <3> SUFFICES ASSUME NEW k \in 1 .. 11 PROVE n[k] \in 32 .. 127
      OBVIOUS
    <3>1. Short[f][k] \in 32 .. 127
      BY <1>6, Zenon
    <3>2. Lowered(Short[f][k]) \in 32 .. 127
      <4> HIDE DEF Lowered, n
      <4> QED BY <1>5, <3>1
    <3>3. n[k] = Lowered(Short[f][k])
      BY <1>4, Zenon
    <3> HIDE DEF Lowered, n
    <3> QED BY <3>2, <3>3
  <2>2. n = [k \in 1 .. 11 |-> n[k]]
    BY Zenon
  <2> HIDE DEF n
  <2> QED BY <2>1, <2>2, FunctionInto, Zenon
<1>8. ShortName(d) = KeptOf(n)[8] \o <<46>> \o SubSeq(n, 9, 11)
  BY Zenon DEF ShortName, KeptOf
<1> HIDE DEF n, Lowered, Lower2
<1>9. FilledUp(n, m)
  <2> SUFFICES ASSUME NEW k \in 1 .. 8 PROVE n[k] = 32 <=> k > m
    BY DEF FilledUp
  <2>1. k \in 1 .. 11 /\ k <= 8
    OBVIOUS
  <2>2. n[k] = Lowered(Short[f][k]) /\ Short[f][k] \in 32 .. 127 /\ (Short[f][k] = 32 <=> k > m)
    BY <1>4, <1>6, <2>1, Zenon
  <2>3. n[k] = 32 <=> Short[f][k] = 32
    BY <1>5, <2>2, Zenon
  <2> QED BY <2>2, <2>3, Zenon
<1>10. n \in [1 .. 11 -> Int]
  BY <1>7
<1> DEFINE name == [k \in 1 .. m + 4 |-> IF k <= m THEN n[k] ELSE IF k = m + 1 THEN 46 ELSE n[k - m + 7]]
<1>11. ShortName(d) = name
  BY <1>8, <1>9, <1>10, BaseKept, NameParts, ZenonT(30)
<1>12. name = Long[f]
  <2> DEFINE L(k) == IF k <= m THEN Lowered(Short[f][k])
                     ELSE IF k = m + 1 THEN 46 ELSE Lowered(Short[f][k - m + 7])
             M(k) == IF k <= m THEN n[k] ELSE IF k = m + 1 THEN 46 ELSE n[k - m + 7]
  <2>1. ASSUME NEW k \in 1 .. m + 4 PROVE L(k) = M(k)
    <3>1. CASE k <= m
      <4>1. k \in 1 .. 11
        BY <3>1
      <4> QED BY <1>4, <3>1, <4>1
    <3>2. CASE k = m + 1
      BY <3>2
    <3>3. CASE ~ (k <= m) /\ k # m + 1
      <4>1. k - m + 7 \in 1 .. 11
        BY <3>3
      <4> QED BY <1>4, <3>3, <4>1
    <3> QED BY <3>1, <3>2, <3>3
  <2>2. Long[f] = [k \in 1 .. m + 4 |-> L(k)]
    BY <1>2, Zenon
  <2>3. name = [k \in 1 .. m + 4 |-> M(k)]
    BY Zenon
  <2> HIDE DEF L, M, name
  <2> QED BY <2>1, <2>2, <2>3
<1>13. name \in [1 .. m + 4 -> 0 .. 127]
  <2> SUFFICES ASSUME NEW k \in 1 .. m + 4
               PROVE (IF k <= m THEN n[k] ELSE IF k = m + 1 THEN 46 ELSE n[k - m + 7]) \in 0 .. 127
    OBVIOUS
  <2>1. \A j \in 1 .. 11 : n[j] \in 0 .. 127
    BY <1>7
  <2>2. (k <= m => k \in 1 .. 11) /\ (~ (k <= m) /\ k # m + 1 => k - m + 7 \in 1 .. 11)
    OBVIOUS
  <2> QED BY <2>1, <2>2
<1> HIDE DEF name
<1>14. DOMAIN name = 1 .. m + 4 /\ m + 4 \in Nat /\ name \in [1 .. m + 4 -> Int]
  <2>1. m + 4 \in Nat /\ \A c \in 0 .. 127 : c \in Int
    OBVIOUS
  <2>2. \A c \in 1 .. m + 4 : name[c] \in Int
    BY <1>13, <2>1, Zenon
  <2>3. DOMAIN name = 1 .. m + 4 /\ name = [c \in 1 .. m + 4 |-> name[c]]
    BY <1>13, Zenon
  <2> QED BY <2>1, <2>2, <2>3, Zenon
<1>15. [c \in DOMAIN name |-> InUtf8(name[c])] = [c \in 1 .. m + 4 |-> <<name[c]>>]
  <2>1. \A c \in 1 .. m + 4 : InUtf8(name[c]) = <<name[c]>>
    BY <1>13, AsciiIsItself
  <2> QED BY <1>14, <2>1
<1>16. FlattenSeq([c \in 1 .. m + 4 |-> <<name[c]>>]) = name
  <2>1. PICK N \in Nat : N = m + 4
    BY <1>14
  <2>2. FlattenSeq([c \in 1 .. N |-> <<name[c]>>]) = name
    BY <1>14, <2>1, Singles
  <2> QED BY <2>1, <2>2
<1> QED BY <1>11, <1>12, <1>15, <1>16

\* Read back from its run, the name of a file is the one that is shown for it.
LEMMA NameShown ==
  ASSUME NEW f \in Files, NEW s, Laid(f, s), f \in Lfn \/ Short[f][11] # 32
  PROVE  fat32_dir_filename(s) = FlattenSeq([c \in DOMAIN Long[f] |-> InUtf8(Long[f][c])])
<1>1. PICK cnt \in 0 .. 20 : cnt = Chain(f) /\ (f \in Lfn <=> cnt > 0)
  BY ChainRange
<1>2. /\ s \in 1 .. Slots /\ Slots \in Nat /\ s \in Nat
      /\ \A k \in s .. s + cnt : dirs[k] = Entries[f][k - s + 1]
  BY <1>1, Fat32Assumption DEF Laid, Run
<1>3. CASE f \in Lfn
  <2>1. AfterLfn(s) = s + cnt
    BY <1>1, <1>3, AfterRun
  <2>2. dirs[s].attr = FAT32_LONG_FILE_NAME
    <3>1. s \in s .. s + cnt /\ s - s + 1 = 1 /\ 1 \in 1 .. cnt
      BY <1>1, <1>2, <1>3
    <3>2. dirs[s] = Entries[f][1]
      BY <1>2, <3>1
    <3> QED BY <1>1, <3>1, <3>2, LongEntry
  <2>3. AfterLfn(s) - s = cnt
    BY <1>2, <2>1
  <2>4. fat32_dir_filename(s) = lfn_get_name(s, cnt)
    BY <2>2, <2>3, Zenon DEF fat32_dir_filename
  <2>5. \A n \in 1 .. cnt : dirs[s + cnt - n].text = LfnText(f, n)
    <3> SUFFICES ASSUME NEW n \in 1 .. cnt PROVE dirs[s + cnt - n].text = LfnText(f, n)
      OBVIOUS
    <3>1. PICK e \in 1 .. cnt : e = cnt - n + 1 /\ cnt + 1 - e = n
      OBVIOUS
    <3>2. s + cnt - n \in s .. s + cnt /\ (s + cnt - n) - s + 1 = e
      BY <1>2, <3>1
    <3>3. dirs[s + cnt - n] = Entries[f][e]
      BY <1>2, <3>2
    <3>4. Entries[f][e].text = LfnText(f, cnt + 1 - e)
      BY <1>1, LongEntry
    <3> QED BY <3>1, <3>3, <3>4
  <2>6. lfn_get_name(s, cnt) = FlattenSeq([n \in 1 .. cnt |-> lfn_append(LfnText(f, n))])
    <3>1. [n \in 1 .. cnt |-> lfn_append(dirs[s + cnt - n].text)] = [n \in 1 .. cnt |-> lfn_append(LfnText(f, n))]
      BY <2>5
    <3> QED BY <3>1, Zenon DEF lfn_get_name
  <2> QED BY <1>1, <1>3, <2>4, <2>6, LongNameAppended, Zenon
<1>4. CASE f \notin Lfn
  <2>1. cnt = 0
    BY <1>1, <1>4
  <2>2. dirs[s] = Entries[f][1] /\ Chain(f) + 1 = 1
    <3>1. s \in s .. s + cnt /\ s - s + 1 = 1
      BY <1>2, <2>1
    <3> QED BY <1>1, <1>2, <2>1, <3>1
  <2>3. /\ dirs[s].attr = Attr[f] /\ dirs[s].text = Short[f]
        /\ dirs[s].reserved0 = IF f \in Lower THEN 24 ELSE 0
    BY <2>2, ShortEntry
  <2>4. Attr[f] # FAT32_LONG_FILE_NAME
    BY FileNamed DEF FAT32_LONG_FILE_NAME
  <2>5. fat32_dir_filename(s) = ShortName(s)
    BY <2>3, <2>4, Zenon DEF fat32_dir_filename
  <2> QED BY <1>4, <2>3, <2>5, ShortNameShown
<1> QED BY <1>3, <1>4

\* So each name printed is the one its host shows.
LEMMA NamesShown == ASSUME NEW place, AllPrinted(place) PROVE NamesReconstructed
<1> SUFFICES ASSUME NEW n \in DOMAIN printed, NEW f \in live,
                    dirs[printed[n][2]].text = Short[f], f \in Lfn \/ Short[f][11] # 32
             PROVE  fat32_dir_filename(printed[n][1])
                      = FlattenSeq([c \in DOMAIN Long[f] |-> InUtf8(Long[f][c])])
  BY Zenon DEF NamesReconstructed
<1>1. n \in 1 .. Len(printed)
  BY DEF AllPrinted
<1>2. PICK g \in live : printed[n] = <<place[g], place[g] + Chain(g)>>
  BY <1>1, Zenon DEF AllPrinted
<1>3. f \in Files /\ g \in Files /\ Laid(g, place[g])
  BY DEF AllPrinted, Tiled
<1>4. printed[n][1] = place[g] /\ printed[n][2] = place[g] + Chain(g)
  BY <1>2
<1>5. dirs[place[g] + Chain(g)].text = Short[g]
  BY <1>3, LastOfRun
<1>6. f = g
  <2>1. \A a, b \in Files : Short[a] = Short[b] => a = b
    BY FilesAssumption, Zenon
  <2>2. Short[f] = Short[g]
    BY <1>4, <1>5
  <2> QED BY <1>3, <2>1, <2>2, Zenon
<1> QED BY <1>3, <1>4, <1>6, NameShown, Zenon

(* A walk that ends printed the entry of every file once, in order, under   *)
(* the name that its host shows, in UTF-8, and the array for the directory  *)
(* has room for just as many (fat32-helpers.c:200-470, unicode-utf8.c).     *)
THEOREM DirectoryAlwaysRead == Spec => []DirectoryRead
<1>1. IInv => DirectoryRead
  <2> SUFFICES ASSUME IInv PROVE EachFileOnce /\ NamesReconstructed /\ CountAgrees /\ TextKept
    BY Zenon DEF DirectoryRead
  <2>1. CASE phase = "done" /\ ~ Torn
    BY <2>1, DoneAllPrinted, PrintedOnce, CountedOnce, NamesShown, TextAlwaysKept
  <2>2. CASE ~ (phase = "done" /\ ~ Torn)
    BY <2>2, TextAlwaysKept DEF EachFileOnce, NamesReconstructed, CountAgrees
  <2> QED BY <2>1, <2>2
<1> QED BY Invariant, <1>1, PTL
=============================================================================
