----------------------------- MODULE PamSetupProofs -----------------------------
(***************************************************************************)
(* Proofs about PamSetup and Doctor for any services, files and accidents: *)
(* nobody's lines are lost, a backup is the file as it was before tbctl,   *)
(* whoever was let in before is let in while the module stands aside, a    *)
(* reported success lasts, and a doctor who finds nothing to say speaks of *)
(* an installation that refuses a child whose time is up.                  *)
(***************************************************************************)
EXTENDS PamSetup, FoldLemmas, SequenceTheorems

-----------------------------------------------------------------------------
(***************************************************************************)
(* The lines of a file that are not ours, and the files that have no       *)
(* other.                                                                  *)
(***************************************************************************)
IsOwn(line) == line.does \notin {"begin", "veto", "end"}

Plain(file) == file \in File /\ \A i \in 1 .. Len(file) : IsOwn(file[i])

LEMMA FileFacts ==
  ASSUME NEW f \in File
  PROVE  /\ Len(f) \in Nat /\ DOMAIN f = 1 .. Len(f)
         /\ \A i \in 1 .. Len(f) : f[i] \in Line
BY LenProperties, ElementOfSeq DEF File

(***************************************************************************)
(* Own goes through a file line by line; c[k] is what it has kept of the   *)
(* first k lines.                                                          *)
(***************************************************************************)
KeptChain(c, f) ==
  /\ c \in [0 .. Len(f) -> File]
  /\ c[0] = <<>>
  /\ \A k \in 1 .. Len(f) : c[k] = Kept(c[k - 1], f[k])

LEMMA KeptType ==
  ASSUME NEW text \in File, NEW line \in Line
  PROVE  Kept(text, line) \in File
BY DEF Kept, File

LEMMA OwnIsChain ==
  ASSUME NEW f \in File
  PROVE  \E c : KeptChain(c, f) /\ Own(f) = c[Len(f)]
<1> DEFINE n == Len(f)
           step == [p \in File \X (1 .. n) |-> Kept(p[1], f[p[2]])]
           IsIter(it) ==
             it = [t \in SUBSET DOMAIN f |->
                     IF t = {} THEN <<>> ELSE Kept(it[t \ {Max(t)}], f[Max(t)])]
           iter == CHOOSE it : IsIter(it)
<1>1. n \in Nat /\ DOMAIN f = 1 .. n /\ \A i \in 1 .. n : f[i] \in Line
  BY FileFacts
<1>2. step \in [File \X (1 .. n) -> File] /\ <<>> \in File
  BY <1>1, KeptType DEF File
<1>3. \A text \in File, i \in 1 .. n : step[<<text, i>>] = Kept(text, f[i])
  OBVIOUS
<1>4. Own(f) = iter[DOMAIN f]
  BY DEF Own, FoldLeft, MapThenFoldSet
<1> HIDE DEF step, n
<1>5. \E it : IsIter(it)
  <2>1. PICK it \in [SUBSET (1 .. n) -> File] : Folds(it, n, <<>>, step)
    BY <1>1, <1>2, FoldExists, Zenon
  <2>2. ASSUME NEW t \in SUBSET (1 .. n), t # {}
        PROVE  step[<<it[t \ {Max(t)}], Max(t)>>] = Kept(it[t \ {Max(t)}], f[Max(t)])
    <3>1. Max(t) \in 1 .. n
      BY <1>1, <2>2, MaxIsLast
    <3>2. it[t \ {Max(t)}] \in File
      OBVIOUS
    <3>3. QED
      BY <1>3, <3>1, <3>2
  <2>3. IsIter(it)
    BY <1>1, <2>1, <2>2 DEF Folds
  <2>4. QED
    BY <2>3
<1>6. IsIter(iter)
  <2> HIDE DEF IsIter
  <2> QED
    BY <1>5
<1>7. iter = [t \in SUBSET (1 .. n) |->
                IF t = {} THEN <<>> ELSE Kept(iter[t \ {Max(t)}], f[Max(t)])]
  <2> HIDE DEF iter
  <2> QED
    BY <1>1, <1>6
<1> HIDE DEF iter
<1>8. iter[{}] = <<>>
  BY <1>7
<1>9. ASSUME NEW k \in 1 .. n
      PROVE  iter[1 .. k] = Kept(iter[1 .. k - 1], f[k])
  <2>1. /\ 1 .. k \in SUBSET (1 .. n) /\ 1 .. k # {}
        /\ Max(1 .. k) = k /\ (1 .. k) \ {k} = 1 .. k - 1
    BY <1>1, FirstOnes
  <2>2. QED
    BY <1>7, <2>1
<1>10. PICK c : Chain(c, File, n, <<>>, step) /\ c[n] = iter[1 .. n]
  <2>1. \A k \in 1 .. n : iter[1 .. k - 1] \in File
                           => iter[1 .. k] = step[<<iter[1 .. k - 1], k>>]
    BY <1>3, <1>9
  <2>2. Follows(iter, File, n, <<>>, step)
    BY <1>8, <2>1 DEF Follows
  <2>3. QED
    BY <1>1, <1>2, <2>2, ChainOfFold
<1>11. ASSUME NEW k \in 1 .. n
       PROVE  c[k] = Kept(c[k - 1], f[k])
  <2>1. k - 1 \in 0 .. n
    BY <1>1
  <2>2. QED
    BY <1>3, <1>10, <2>1 DEF Chain
<1>12. KeptChain(c, f)
  BY <1>10, <1>11 DEF KeptChain, Chain, n
<1>13. QED
  BY <1>1, <1>4, <1>10, <1>12 DEF n

(***************************************************************************)
(* remove_block, line by line in the same way.                             *)
(***************************************************************************)
Pass == [inside : BOOLEAN, out : File]

PassChain(c, f) ==
  /\ c \in [0 .. Len(f) -> Pass]
  /\ c[0] = [inside |-> FALSE, out |-> <<>>]
  /\ \A k \in 1 .. Len(f) : c[k] = Passed(c[k - 1], f[k])

LEMMA PassedType ==
  ASSUME NEW pass \in Pass, NEW line \in Line
  PROVE  Passed(pass, line) \in Pass
BY DEF Passed, Pass, File

LEMMA RemoveIsChain ==
  ASSUME NEW f \in File
  PROVE  \E c : PassChain(c, f) /\ RemoveBlock(f) = c[Len(f)].out
<1> DEFINE n == Len(f)
           base == [inside |-> FALSE, out |-> <<>>]
           step == [p \in Pass \X (1 .. n) |-> Passed(p[1], f[p[2]])]
           IsIter(it) ==
             it = [t \in SUBSET DOMAIN f |->
                     IF t = {} THEN base ELSE Passed(it[t \ {Max(t)}], f[Max(t)])]
           iter == CHOOSE it : IsIter(it)
<1>1. n \in Nat /\ DOMAIN f = 1 .. n /\ \A i \in 1 .. n : f[i] \in Line
  BY FileFacts
<1>2. step \in [Pass \X (1 .. n) -> Pass] /\ base \in Pass
  <2>1. base \in Pass
    BY DEF Pass, File
  <2>2. \A pass \in Pass, i \in 1 .. n : Passed(pass, f[i]) \in Pass
    BY <1>1, PassedType
  <2>3. QED
    BY <2>1, <2>2
<1>3. \A pass \in Pass, i \in 1 .. n : step[<<pass, i>>] = Passed(pass, f[i])
  OBVIOUS
<1>4. RemoveBlock(f) = iter[DOMAIN f].out
  BY DEF RemoveBlock, FoldLeft, MapThenFoldSet
<1> HIDE DEF step, n, base
<1>5. \E it : IsIter(it)
  <2>1. PICK it \in [SUBSET (1 .. n) -> Pass] : Folds(it, n, base, step)
    BY <1>1, <1>2, FoldExists, Zenon
  <2>2. ASSUME NEW t \in SUBSET (1 .. n), t # {}
        PROVE  step[<<it[t \ {Max(t)}], Max(t)>>] = Passed(it[t \ {Max(t)}], f[Max(t)])
    <3>1. Max(t) \in 1 .. n
      BY <1>1, <2>2, MaxIsLast
    <3>2. it[t \ {Max(t)}] \in Pass
      OBVIOUS
    <3>3. QED
      BY <1>3, <3>1, <3>2
  <2>3. IsIter(it)
    BY <1>1, <2>1, <2>2 DEF Folds
  <2>4. QED
    BY <2>3
<1>6. IsIter(iter)
  <2> HIDE DEF IsIter
  <2> QED
    BY <1>5
<1>7. iter = [t \in SUBSET (1 .. n) |->
                IF t = {} THEN base ELSE Passed(iter[t \ {Max(t)}], f[Max(t)])]
  <2> HIDE DEF iter
  <2> QED
    BY <1>1, <1>6
<1> HIDE DEF iter
<1>8. iter[{}] = base
  BY <1>7
<1>9. ASSUME NEW k \in 1 .. n
      PROVE  iter[1 .. k] = Passed(iter[1 .. k - 1], f[k])
  <2>1. /\ 1 .. k \in SUBSET (1 .. n) /\ 1 .. k # {}
        /\ Max(1 .. k) = k /\ (1 .. k) \ {k} = 1 .. k - 1
    BY <1>1, FirstOnes
  <2>2. QED
    BY <1>7, <2>1
<1>10. PICK c : Chain(c, Pass, n, base, step) /\ c[n] = iter[1 .. n]
  <2>1. \A k \in 1 .. n : iter[1 .. k - 1] \in Pass
                           => iter[1 .. k] = step[<<iter[1 .. k - 1], k>>]
    BY <1>3, <1>9
  <2>2. Follows(iter, Pass, n, base, step)
    BY <1>8, <2>1 DEF Follows
  <2>3. n \in Nat /\ base \in Pass /\ step \in [Pass \X (1 .. n) -> Pass]
    BY <1>1, <1>2
  <2>4. QED
    BY <2>2, <2>3, ChainOfFold
<1>11. ASSUME NEW k \in 1 .. n
       PROVE  c[k] = Passed(c[k - 1], f[k])
  <2>1. k - 1 \in 0 .. n
    BY <1>1
  <2>2. QED
    BY <1>3, <1>10, <2>1 DEF Chain
<1>12. PassChain(c, f)
  BY <1>10, <1>11 DEF PassChain, Chain, n, base
<1>13. QED
  BY <1>1, <1>4, <1>10, <1>12 DEF n

(***************************************************************************)
(* What Own returns: lines that are not ours only, all of a file that has  *)
(* no other, and of two files put together what it returns of each.        *)
(***************************************************************************)
LEMMA KeptPlain ==
  ASSUME NEW text, Plain(text), NEW line \in Line
  PROVE  Plain(Kept(text, line))
BY DEF Plain, Kept, IsOwn, File

LEMMA OwnIsPlain ==
  ASSUME NEW f \in File
  PROVE  Plain(Own(f)) /\ Own(f) \in File
<1>1. PICK c : KeptChain(c, f) /\ Own(f) = c[Len(f)]
  BY OwnIsChain
<1> DEFINE n == Len(f)
           S == {k \in 0 .. n : Plain(c[k])}
<1>2. n \in Nat /\ \A i \in 1 .. n : f[i] \in Line
  BY FileFacts
<1>3. 0 \in S
  BY <1>1, <1>2 DEF KeptChain, Plain, File
<1>4. ASSUME NEW k \in 0 .. n - 1, k \in S
      PROVE  k + 1 \in S
  <2>1. k + 1 \in 1 .. n /\ k + 1 - 1 = k /\ k + 1 \in 0 .. n
    BY <1>2
  <2>2. c[k + 1] = Kept(c[k], f[k + 1])
    BY <1>1, <2>1 DEF KeptChain
  <2>3. Plain(c[k + 1])
    BY <1>2, <1>4, <2>1, <2>2, KeptPlain
  <2>4. QED
    BY <2>1, <2>3
<1>5. \A k \in 0 .. n : k \in S
  <2> HIDE DEF S, n
  <2> QED
    BY <1>2, <1>3, <1>4, Climb
<1>6. Plain(c[n])
  BY <1>2, <1>5
<1>7. QED
  BY <1>1, <1>6 DEF Plain

LEMMA OwnOfPlain ==
  ASSUME NEW f, Plain(f)
  PROVE  Own(f) = f
<1>1. f \in File /\ \A i \in 1 .. Len(f) : IsOwn(f[i])
  BY DEF Plain
<1>2. PICK c : KeptChain(c, f) /\ Own(f) = c[Len(f)]
  BY <1>1, OwnIsChain
<1> DEFINE n == Len(f)
           S == {k \in 0 .. n :
                   Len(c[k]) = k /\ \A i \in 1 .. k : c[k][i] = f[i]}
<1>3. n \in Nat /\ \A i \in 1 .. n : f[i] \in Line
  BY <1>1, FileFacts
<1>4. 0 \in S
  BY <1>2, <1>3 DEF KeptChain
<1>5. ASSUME NEW k \in 0 .. n - 1, k \in S
      PROVE  k + 1 \in S
  <2>1. k + 1 \in 1 .. n /\ k + 1 - 1 = k /\ k + 1 \in 0 .. n /\ k \in 0 .. n
    BY <1>3
  <2>2. c[k + 1] = Append(c[k], f[k + 1])
    <3>1. c[k + 1] = Kept(c[k + 1 - 1], f[k + 1])
      BY <1>2, <2>1 DEF KeptChain
    <3>2. IsOwn(f[k + 1])
      BY <1>1, <2>1
    <3>3. QED
      BY <2>1, <3>1, <3>2 DEF Kept, IsOwn
  <2>3. c[k] \in Seq(Line)
    BY <1>2, <2>1 DEF KeptChain, File
  <2>4. Len(c[k + 1]) = k + 1 /\ \A i \in 1 .. k + 1 : c[k + 1][i] = f[i]
    BY <1>3, <1>5, <2>1, <2>2, <2>3
  <2>5. QED
    BY <2>1, <2>4
<1>6. \A k \in 0 .. n : k \in S
  <2> HIDE DEF S, n
  <2> QED
    BY <1>3, <1>4, <1>5, Climb
<1>7. /\ c[n] \in Seq(Line) /\ f \in Seq(Line) /\ Len(c[n]) = Len(f)
      /\ \A i \in 1 .. Len(c[n]) : c[n][i] = f[i]
  BY <1>1, <1>2, <1>3, <1>6 DEF KeptChain, File
<1>8. c[n] = f
  <2> HIDE DEF n
  <2> QED
    BY <1>7, SeqEqual
<1>9. QED
  BY <1>2, <1>8

LEMMA Joined ==
  ASSUME NEW f \in File, NEW g \in File
  PROVE  /\ f \o g \in File /\ Len(f \o g) = Len(f) + Len(g)
         /\ \A i \in 1 .. Len(f) : (f \o g)[i] = f[i]
         /\ \A i \in 1 .. Len(g) : (f \o g)[Len(f) + i] = g[i]
BY ConcatProperties, FileFacts DEF File

LEMMA AppendToConcat ==
  ASSUME NEW s \in Seq(Line), NEW t \in Seq(Line), NEW x \in Line
  PROVE  Append(s \o t, x) = s \o Append(t, x)
<1> DEFINE left == Append(s \o t, x)
           right == s \o Append(t, x)
<1>1. /\ Len(s) \in Nat /\ Len(t) \in Nat
      /\ left \in Seq(Line) /\ right \in Seq(Line)
      /\ Len(left) = Len(s) + Len(t) + 1 /\ Len(right) = Len(left)
  OBVIOUS
<1>2. ASSUME NEW i \in 1 .. Len(left)
      PROVE  left[i] = right[i]
  <2>1. CASE i <= Len(s)
    BY <1>1, <2>1
  <2>2. CASE i > Len(s) /\ i <= Len(s) + Len(t)
    BY <1>1, <2>2
  <2>3. CASE i = Len(s) + Len(t) + 1
    BY <1>1, <2>3
  <2>4. QED
    BY <1>1, <2>1, <2>2, <2>3
<1> HIDE DEF left, right
<1>3. left = right
  BY <1>1, <1>2, SeqEqual
<1>4. QED
  BY <1>3 DEF left, right

LEMMA OwnConcat ==
  ASSUME NEW f \in File, NEW g \in File
  PROVE  Own(f \o g) = Own(f) \o Own(g)
<1> DEFINE h == f \o g
           m == Len(f)
           n == Len(g)
<1>1. /\ m \in Nat /\ n \in Nat /\ h \in File /\ Len(h) = m + n
      /\ \A i \in 1 .. m : h[i] = f[i]
      /\ \A i \in 1 .. n : h[m + i] = g[i]
      /\ \A i \in 1 .. n : g[i] \in Line
  BY ConcatProperties, FileFacts DEF File
<1> HIDE DEF h
<1>2. PICK a : KeptChain(a, f) /\ Own(f) = a[m]
  BY OwnIsChain
<1>3. PICK b : KeptChain(b, g) /\ Own(g) = b[n]
  BY OwnIsChain
<1>4. PICK c : KeptChain(c, h) /\ Own(h) = c[m + n]
  BY <1>1, OwnIsChain
<1> HIDE DEF m, n
<1>5. c[m] = a[m]
  <2> DEFINE S == {k \in 0 .. m : c[k] = a[k]}
  <2>1. 0 \in S
    BY <1>1, <1>2, <1>4 DEF KeptChain
  <2>2. ASSUME NEW k \in 0 .. m - 1, k \in S
        PROVE  k + 1 \in S
    <3>1. k + 1 \in 1 .. m /\ k + 1 \in 1 .. m + n /\ k + 1 - 1 = k
      BY <1>1
    <3>2. c[k + 1] = Kept(c[k], h[k + 1]) /\ a[k + 1] = Kept(a[k], f[k + 1])
      BY <1>1, <1>2, <1>4, <3>1 DEF KeptChain, m
    <3>3. QED
      BY <1>1, <2>2, <3>1, <3>2
  <2>3. \A k \in 0 .. m : k \in S
    <3> HIDE DEF S
    <3> QED
      BY <1>1, <2>1, <2>2, Climb
  <2>4. QED
    BY <1>1, <2>3
<1>6. a[m] \in Seq(Line) /\ \A k \in 0 .. n : b[k] \in Seq(Line)
  BY <1>1, <1>2, <1>3 DEF KeptChain, File, m, n
<1>7. c[m + n] = a[m] \o b[n]
  <2> DEFINE S == {k \in 0 .. n : c[m + k] = a[m] \o b[k]}
  <2>1. 0 \in S
    <3>1. b[0] = <<>> /\ c[m + 0] = c[m] /\ 0 \in 0 .. n
      BY <1>1, <1>3 DEF KeptChain
    <3>2. a[m] \o <<>> = a[m]
      BY <1>6, ConcatEmptySeq
    <3>3. QED
      BY <1>5, <3>1, <3>2
  <2>2. ASSUME NEW k \in 0 .. n - 1, k \in S
        PROVE  k + 1 \in S
    <3>1. /\ k + 1 \in 1 .. n /\ k \in 0 .. n /\ k + 1 \in 0 .. n
          /\ k + 1 - 1 = k
          /\ m + (k + 1) \in 1 .. m + n /\ m + (k + 1) - 1 = m + k
      BY <1>1
    <3>2. c[m + (k + 1)] = Kept(c[m + (k + 1) - 1], h[m + (k + 1)])
      BY <1>1, <1>4, <3>1 DEF KeptChain
    <3>3. b[k + 1] = Kept(b[k + 1 - 1], g[k + 1])
      BY <1>3, <3>1 DEF KeptChain, n
    <3>4. /\ c[m + (k + 1)] = Kept(a[m] \o b[k], g[k + 1])
          /\ b[k + 1] = Kept(b[k], g[k + 1])
      BY <1>1, <2>2, <3>1, <3>2, <3>3
    <3>5. /\ a[m] \in Seq(Line) /\ b[k] \in Seq(Line) /\ g[k + 1] \in Line
      BY <1>1, <1>6, <3>1
    <3>6. Append(a[m] \o b[k], g[k + 1]) = a[m] \o Append(b[k], g[k + 1])
      BY <3>5, AppendToConcat
    <3>7. Kept(a[m] \o b[k], g[k + 1]) = a[m] \o Kept(b[k], g[k + 1])
      BY <3>6 DEF Kept
    <3>8. QED
      BY <3>1, <3>4, <3>7
  <2>3. \A k \in 0 .. n : k \in S
    <3> HIDE DEF S
    <3> QED
      BY <1>1, <2>1, <2>2, Climb
  <2>4. n \in S
    <3> HIDE DEF S
    <3> QED
      BY <1>1, <2>3
  <2>5. QED
    BY <2>4
<1>8. QED
  BY <1>2, <1>3, <1>4, <1>7 DEF h

LEMMA OwnOfBlock ==
  ASSUME NEW stack \in Stack
  PROVE  Block(stack) \in File /\ Own(Block(stack)) = <<>>
<1> DEFINE b == Block(stack)
<1>1. b \in File /\ Len(b) = 3 /\ b[1] = Begin /\ b[2] = Veto(stack) /\ b[3] = End
  BY DEF Block, File, Line, Begin, Veto, End
<1> HIDE DEF b
<1>2. PICK c : KeptChain(c, b) /\ Own(b) = c[Len(b)]
  BY <1>1, OwnIsChain
<1>3. c[0] = <<>> /\ \A k \in 1 .. 3 : c[k] = Kept(c[k - 1], b[k])
  BY <1>1, <1>2 DEF KeptChain
<1>4. \A k \in 1 .. 3 : Kept(c[k - 1], b[k]) = c[k - 1]
  BY <1>1 DEF Kept, Begin, Veto, End
<1>5. c[1] = c[0] /\ c[2] = c[1] /\ c[3] = c[2]
  <2>1. c[1] = c[1 - 1] /\ c[2] = c[2 - 1] /\ c[3] = c[3 - 1]
    BY <1>3, <1>4
  <2>2. 1 - 1 = 0 /\ 2 - 1 = 1 /\ 3 - 1 = 2
    OBVIOUS
  <2>3. QED
    BY <2>1, <2>2
<1>6. QED
  BY <1>1, <1>2, <1>3, <1>5 DEF b

(***************************************************************************)
(* A file as tbctl and people who keep out of the markers leave it: blocks *)
(* are whole.                                                              *)
(***************************************************************************)
WellFormed(file, stack) ==
  /\ file \in File
  /\ \A i \in 1 .. Len(file) :
       /\ file[i].does = "begin" => /\ i + 1 \in 1 .. Len(file)
                                    /\ file[i + 1].does = "veto"
       /\ file[i].does = "veto" => /\ file[i] = Veto(stack)
                                   /\ i > 1 /\ file[i - 1].does = "begin"
                                   /\ i + 1 \in 1 .. Len(file)
                                   /\ file[i + 1].does = "end"
       /\ file[i].does = "end" => i > 1 /\ file[i - 1].does = "veto"

(***************************************************************************)
(* remove_block takes the blocks out of such a file and nothing else.      *)
(***************************************************************************)
LEMMA LineCases ==
  ASSUME NEW line \in Line
  PROVE  /\ line.does = "begin" <=> line = Begin
         /\ line.does = "end" <=> line = End
         /\ line.does \in {"require", "suffice", "veto", "nothing", "begin", "end"}
         /\ line.stack \in Stack \cup {"none"}
BY DEF Line, Begin, End, Stack

LEMMA RemoveIsOwn ==
  ASSUME NEW stack, NEW f, WellFormed(f, stack)
  PROVE  RemoveBlock(f) = Own(f)
<1>1. f \in File
  BY DEF WellFormed
<1>2. PICK a : KeptChain(a, f) /\ Own(f) = a[Len(f)]
  BY <1>1, OwnIsChain
<1>3. PICK c : PassChain(c, f) /\ RemoveBlock(f) = c[Len(f)].out
  BY <1>1, RemoveIsChain
<1> DEFINE n == Len(f)
           Inside(k) == k > 0 /\ f[k].does \in {"begin", "veto"}
           S == {k \in 0 .. n : c[k].out = a[k] /\ c[k].inside = Inside(k)}
<1>4. n \in Nat /\ \A i \in 1 .. n : f[i] \in Line
  BY <1>1, FileFacts
<1>5. 0 \in S
  <2>1. a[0] = <<>> /\ c[0] = [inside |-> FALSE, out |-> <<>>] /\ 0 \in 0 .. n
    BY <1>2, <1>3, <1>4 DEF KeptChain, PassChain
  <2>2. c[0].out = a[0] /\ c[0].inside = FALSE
    BY <2>1
  <2>3. Inside(0) = FALSE
    OBVIOUS
  <2>4. c[0].out = a[0] /\ c[0].inside = Inside(0)
    BY <2>2, <2>3
  <2>5. QED
    BY <2>1, <2>4
<1>6. ASSUME NEW k \in 0 .. n - 1, k \in S
      PROVE  k + 1 \in S
  <2>1. k + 1 \in 1 .. n /\ k + 1 - 1 = k /\ k + 1 \in 0 .. n /\ k \in 0 .. n
    BY <1>4
  <2>2. /\ c[k + 1] = Passed(c[k], f[k + 1])
        /\ a[k + 1] = Kept(a[k], f[k + 1])
    BY <1>2, <1>3, <2>1 DEF KeptChain, PassChain
  <2>3. /\ c[k] \in Pass /\ f[k + 1] \in Line
        /\ c[k].out = a[k] /\ c[k].inside = Inside(k)
    BY <1>3, <1>4, <1>6, <2>1 DEF PassChain
  <2>4. CASE f[k + 1].does \in {"begin", "end"}
    <3>1. f[k + 1] \in {Begin, End} /\ (f[k + 1] = Begin <=> f[k + 1].does = "begin")
      BY <2>3, <2>4, LineCases
    <3>2. c[k + 1] = [inside |-> f[k + 1] = Begin, out |-> c[k].out]
      BY <2>2, <3>1 DEF Passed
    <3>3. a[k + 1] = a[k]
      BY <2>2, <2>4 DEF Kept
    <3>4. c[k + 1].out = a[k + 1]
      BY <2>3, <3>2, <3>3
    <3>5. c[k + 1].inside = Inside(k + 1)
      BY <2>1, <2>4, <3>1, <3>2
    <3>6. QED
      BY <2>1, <3>4, <3>5
  <2>5. CASE f[k + 1].does \notin {"begin", "end"}
    <3>1. f[k + 1] \notin {Begin, End}
      BY <2>3, <2>5, LineCases
    <3>2. c[k + 1] = [c[k] EXCEPT !.out = IF c[k].inside THEN c[k].out
                                          ELSE Append(c[k].out, f[k + 1])]
      BY <2>2, <3>1, Zenon DEF Passed
    <3>3. /\ c[k + 1].inside = c[k].inside
          /\ c[k + 1].out = IF c[k].inside THEN c[k].out
                            ELSE Append(c[k].out, f[k + 1])
      BY <2>3, <3>2, Zenon DEF Pass
    <3>4. c[k].inside = (f[k + 1].does = "veto")
      <4>1. f[k + 1].does = "veto" => k > 0 /\ f[k].does = "begin"
        <5>1. f[k + 1].does = "veto"
                => k + 1 > 1 /\ f[k + 1 - 1].does = "begin"
          BY <2>1 DEF WellFormed
        <5>2. QED
          BY <1>4, <2>1, <5>1
      <4>2. k > 0 /\ f[k].does \in {"begin", "veto"}
              => f[k + 1].does \in {"veto", "end"}
        <5> SUFFICES ASSUME k > 0, f[k].does \in {"begin", "veto"}
                     PROVE  f[k + 1].does \in {"veto", "end"}
          OBVIOUS
        <5>1. k \in 1 .. n
          BY <1>4
        <5>2. QED
          BY <5>1 DEF WellFormed
      <4>3. Inside(k) <=> f[k + 1].does = "veto"
        BY <2>5, <4>1, <4>2
      <4>4. QED
        BY <2>3, <4>3
    <3>5. c[k + 1].out = a[k + 1]
      BY <2>2, <2>3, <2>5, <3>3, <3>4 DEF Kept
    <3>6. c[k + 1].inside = Inside(k + 1)
      BY <2>1, <2>5, <3>3, <3>4
    <3>7. QED
      BY <2>1, <3>5, <3>6
  <2>6. QED
    BY <2>4, <2>5
<1>7. \A k \in 0 .. n : k \in S
  <2> HIDE DEF S, n
  <2> QED
    BY <1>4, <1>5, <1>6, Climb
<1>8. n \in S
  <2> HIDE DEF S
  <2> QED
    BY <1>4, <1>7
<1>9. QED
  BY <1>2, <1>3, <1>8

-----------------------------------------------------------------------------
(***************************************************************************)
(* Where insert_block puts its block, and that this is all it does.        *)
(***************************************************************************)
LEMMA PlainParts ==
  ASSUME NEW f, Plain(f), NEW m \in 1 .. Len(f) + 1, NEW n \in 0 .. Len(f)
  PROVE  Plain(SubSeq(f, m, n))
<1>1. /\ Len(f) \in Nat /\ m \in Int /\ n \in Int
      /\ \A i \in m .. n : f[i] \in Line /\ IsOwn(f[i])
  BY FileFacts DEF Plain
<1>2. /\ SubSeq(f, m, n) \in Seq(Line)
      /\ Len(SubSeq(f, m, n)) = IF m <= n THEN n - m + 1 ELSE 0
      /\ \A i \in 1 .. n - m + 1 : SubSeq(f, m, n)[i] = f[m + i - 1]
  BY <1>1, SubSeqProperties
<1>3. ASSUME NEW i \in 1 .. Len(SubSeq(f, m, n))
      PROVE  IsOwn(SubSeq(f, m, n)[i])
  <2>1. i \in 1 .. n - m + 1 /\ m + i - 1 \in m .. n
    BY <1>1, <1>2
  <2>2. QED
    BY <1>1, <1>2, <2>1
<1>4. QED
  BY <1>2, <1>3 DEF Plain, File

LEMMA FirstOfFacts ==
  ASSUME NEW f \in File, NEW stack,
         \E i \in DOMAIN f : f[i].stack = stack
  PROVE  /\ FirstOf(f, stack) \in 1 .. Len(f)
         /\ \A j \in 1 .. FirstOf(f, stack) - 1 : f[j].stack # stack
<1> DEFINE T == {i \in DOMAIN f : f[i].stack = stack}
<1>1. Len(f) \in Nat /\ DOMAIN f = 1 .. Len(f)
  BY FileFacts
<1>2. T # {} /\ T \in SUBSET Nat
  BY <1>1
<1>3. PICK i \in T : \A k \in T : i <= k
  <2> HIDE DEF T
  <2> QED
    BY <1>2, LeastExists
<1>4. \A j \in 1 .. i - 1 : f[j].stack # stack
  <2> SUFFICES ASSUME NEW j \in 1 .. i - 1, f[j].stack = stack
               PROVE  FALSE
    OBVIOUS
  <2>1. j \in T /\ j < i
    BY <1>1
  <2>2. QED
    BY <1>1, <1>3, <2>1
<1>5. \E k \in DOMAIN f :
        f[k].stack = stack /\ \A j \in 1 .. k - 1 : f[j].stack # stack
  BY <1>3, <1>4
<1>6. QED
  BY <1>1, <1>5 DEF FirstOf

LEMMA RemoveFacts ==
  ASSUME NEW stack, NEW f, WellFormed(f, stack)
  PROVE  /\ Plain(RemoveBlock(f)) /\ RemoveBlock(f) = Own(f)
         /\ Own(RemoveBlock(f)) = Own(f)
<1>1. f \in File /\ RemoveBlock(f) = Own(f)
  BY RemoveIsOwn DEF WellFormed
<1>2. QED
  BY <1>1, OwnIsPlain, OwnOfPlain

LEMMA PlainFacts ==
  ASSUME NEW f, Plain(f)
  PROVE  /\ ~HasBlock(f)
         /\ \A stack : WellFormed(f, stack)
<1>1. f \in File /\ DOMAIN f = 1 .. Len(f) /\ \A i \in 1 .. Len(f) : IsOwn(f[i])
  BY FileFacts DEF Plain
<1>2. ~HasBlock(f)
  BY <1>1 DEF HasBlock, IsOwn, Begin
<1>3. QED
  BY <1>1, <1>2 DEF WellFormed, IsOwn

Around(g, stack, h) == (g \o Block(stack)) \o h

LEMMA InsertIsPlaced ==
  ASSUME NEW stack \in Stack, NEW f, WellFormed(f, stack)
  PROVE  \E g, h : /\ Plain(g) /\ Plain(h) /\ Own(f) = g \o h
                   /\ \A j \in 1 .. Len(g) : g[j].stack # stack
                   /\ InsertBlock(f, stack) = Around(g, stack, h)
<1> DEFINE c == Own(f)
           spot == FirstOf(c, stack)
<1>1. f \in File /\ RemoveBlock(f) = c /\ Plain(c) /\ c \in File
  <2>1. f \in File
    BY DEF WellFormed
  <2>2. Plain(RemoveBlock(f)) /\ RemoveBlock(f) = Own(f)
    BY RemoveFacts
  <2>3. QED
    BY <2>1, <2>2 DEF Plain
<1>2. Len(c) \in Nat /\ DOMAIN c = 1 .. Len(c)
  BY <1>1, FileFacts
<1>3. CASE \E i \in DOMAIN c : c[i].stack = stack
  <2>1. spot \in 1 .. Len(c) /\ \A j \in 1 .. spot - 1 : c[j].stack # stack
    BY <1>1, <1>3, FirstOfFacts
  <2>2. InsertBlock(f, stack)
          = (SubSeq(c, 1, spot - 1) \o Block(stack)) \o SubSeq(c, spot, Len(c))
    BY <1>1, <1>3 DEF InsertBlock
  <2> DEFINE g == SubSeq(c, 1, spot - 1)
             h == SubSeq(c, spot, Len(c))
  <2> HIDE DEF c, spot
  <2>3. Plain(g) /\ Plain(h)
    BY <1>1, <1>2, <2>1, PlainParts
  <2>4. c = g \o h
    <3>1. /\ c \in Seq(Line) /\ 1 \in 1 .. Len(c) + 1
          /\ spot - 1 \in 1 - 1 .. Len(c) /\ Len(c) \in spot - 1 .. Len(c)
          /\ spot - 1 + 1 = spot
      BY <1>1, <1>2, <2>1 DEF File
    <3>2. SubSeq(c, 1, spot - 1) \o SubSeq(c, spot - 1 + 1, Len(c))
            = SubSeq(c, 1, Len(c))
      BY <3>1, ConcatAdjacentSubSeq
    <3>3. SubSeq(c, 1, Len(c)) = c
      BY <3>1, SubSeqFull
    <3>4. QED
      BY <3>1, <3>2, <3>3
  <2>5. \A j \in 1 .. Len(g) : g[j].stack # stack
    <3>1. c \in Seq(Line)
      BY <1>1 DEF File
    <3>2. Len(g) = spot - 1 /\ \A j \in 1 .. spot - 1 : g[j] = c[j]
      BY <1>2, <2>1, <3>1
    <3>3. QED
      BY <2>1, <3>2
  <2>6. QED
    BY <2>2, <2>3, <2>4, <2>5 DEF c, Around
<1>4. CASE ~ \E i \in DOMAIN c : c[i].stack = stack
  <2>1. InsertBlock(f, stack) = c \o Block(stack)
    BY <1>1, <1>4 DEF InsertBlock
  <2>2. Plain(<<>>) /\ c \o <<>> = c
    BY <1>1 DEF Plain, File
  <2>3. (c \o Block(stack)) \o <<>> = c \o Block(stack)
    <3>1. c \o Block(stack) \in Seq(Line)
      BY <1>1, OwnOfBlock DEF File
    <3>2. QED
      BY <3>1, ConcatEmptySeq
  <2>4. \A j \in 1 .. Len(c) : c[j].stack # stack
    BY <1>2, <1>4
  <2>5. QED
    BY <1>1, <2>1, <2>2, <2>3, <2>4 DEF Around
<1>5. QED
  BY <1>3, <1>4

\* A whole block between lines of others.
BlockStandsAfter(g, stack, h, b) ==
  /\ WellFormed(b, stack) /\ Own(b) = g \o h
  /\ b[Len(g) + 2] = Veto(stack) /\ Len(g) + 2 \in DOMAIN b
  /\ b[Len(g) + 1] = Begin
  /\ \A i \in 1 .. Len(g) : b[i] = g[i]
  /\ \A i \in 1 .. Len(b) : b[i].does = "veto" => i = Len(g) + 2

LEMMA BlockBetween ==
  ASSUME NEW stack \in Stack, NEW g, NEW h, Plain(g), Plain(h)
  PROVE  BlockStandsAfter(g, stack, h, Around(g, stack, h))
<1> DEFINE b == Around(g, stack, h)
           m == Len(g)
           n == Len(h)
<1>1. /\ g \in File /\ h \in File /\ m \in Nat /\ n \in Nat
      /\ \A i \in 1 .. m : g[i] \in Line /\ IsOwn(g[i])
      /\ \A i \in 1 .. n : h[i] \in Line /\ IsOwn(h[i])
  BY FileFacts DEF Plain
<1> DEFINE k == Block(stack)
           gb == g \o k
<1>2. /\ k \in File /\ Own(k) = <<>> /\ Len(k) = 3
      /\ k[1] = Begin /\ k[2] = Veto(stack) /\ k[3] = End
  BY OwnOfBlock DEF Block
<1> HIDE DEF k
<1>3. /\ gb \in File /\ Len(gb) = m + 3
      /\ \A i \in 1 .. m : gb[i] = g[i]
      /\ gb[m + 1] = Begin /\ gb[m + 2] = Veto(stack) /\ gb[m + 3] = End
  <2>1. /\ gb \in File /\ Len(gb) = Len(g) + Len(k)
        /\ \A i \in 1 .. Len(g) : gb[i] = g[i]
        /\ \A i \in 1 .. Len(k) : gb[Len(g) + i] = k[i]
    BY <1>1, <1>2, Joined
  <2>2. 1 \in 1 .. Len(k) /\ 2 \in 1 .. Len(k) /\ 3 \in 1 .. Len(k)
    BY <1>2
  <2> HIDE DEF gb
  <2>3. QED
    BY <1>2, <2>1, <2>2
<1>4. b = gb \o h
  BY DEF k, Around
<1> HIDE DEF gb, b
<1>5. /\ b \in File /\ Len(b) = m + 3 + n
      /\ \A i \in 1 .. m : b[i] = g[i]
      /\ b[m + 1] = Begin /\ b[m + 2] = Veto(stack) /\ b[m + 3] = End
      /\ \A i \in 1 .. n : b[m + 3 + i] = h[i]
  <2>1. /\ b \in File /\ Len(b) = Len(gb) + Len(h)
        /\ \A i \in 1 .. Len(gb) : b[i] = gb[i]
        /\ \A i \in 1 .. Len(h) : b[Len(gb) + i] = h[i]
    BY <1>1, <1>3, <1>4, Joined
  <2>2. /\ \A i \in 1 .. m : i \in 1 .. Len(gb)
        /\ m + 1 \in 1 .. Len(gb) /\ m + 2 \in 1 .. Len(gb)
        /\ m + 3 \in 1 .. Len(gb)
    BY <1>1, <1>3
  <2>3. QED
    BY <1>1, <1>3, <2>1, <2>2
<1>6. Own(b) = g \o h
  <2>1. Own(b) = Own(gb) \o Own(h) /\ Own(gb) = Own(g) \o Own(k)
    BY <1>1, <1>2, <1>3, <1>4, OwnConcat DEF gb
  <2>2. Own(g) = g /\ Own(h) = h /\ g \o <<>> = g
    <3>1. g \o <<>> = g
      BY <1>1, ConcatEmptySeq DEF File
    <3>2. QED
      BY <3>1, OwnOfPlain
  <2>3. QED
    BY <1>2, <2>1, <2>2
<1>7. ASSUME NEW i \in 1 .. Len(b)
      PROVE  /\ i \notin m + 1 .. m + 3 => IsOwn(b[i])
             /\ i = m + 1 => b[i].does = "begin"
             /\ i = m + 2 => b[i].does = "veto"
             /\ i = m + 3 => b[i].does = "end"
  <2>1. CASE i \in 1 .. m
    BY <1>1, <1>5, <2>1
  <2>2. CASE i \in m + 4 .. m + 3 + n
    <3>1. i - (m + 3) \in 1 .. n /\ m + 3 + (i - (m + 3)) = i
      BY <1>1, <2>2
    <3>2. b[i] = h[i - (m + 3)]
      BY <1>5, <3>1
    <3>3. QED
      BY <1>1, <2>2, <3>1, <3>2
  <2>3. CASE i \in m + 1 .. m + 3
    BY <1>1, <1>5, <2>3 DEF Begin, Veto, End
  <2>4. QED
    BY <1>1, <1>5, <2>1, <2>2, <2>3
<1>8. WellFormed(b, stack)
  <2> SUFFICES ASSUME NEW i \in 1 .. Len(b)
               PROVE  /\ b[i].does = "begin" => /\ i + 1 \in 1 .. Len(b)
                                                /\ b[i + 1].does = "veto"
                      /\ b[i].does = "veto" => /\ b[i] = Veto(stack)
                                               /\ i > 1
                                               /\ b[i - 1].does = "begin"
                                               /\ i + 1 \in 1 .. Len(b)
                                               /\ b[i + 1].does = "end"
                      /\ b[i].does = "end" => i > 1 /\ b[i - 1].does = "veto"
    BY <1>5 DEF WellFormed
  <2>1. /\ m + 1 \in 1 .. Len(b) /\ m + 2 \in 1 .. Len(b)
        /\ m + 3 \in 1 .. Len(b)
    BY <1>1, <1>5
  <2>2. /\ b[m + 1].does = "begin" /\ b[m + 2].does = "veto"
        /\ b[m + 3].does = "end"
    BY <1>7, <2>1
  <2>3. CASE i \notin m + 1 .. m + 3
    BY <1>7, <2>3 DEF IsOwn
  <2>4. CASE i = m + 1
    <3>1. i + 1 = m + 2
      BY <1>1, <2>4
    <3>2. QED
      BY <2>1, <2>2, <2>4, <3>1
  <2>5. CASE i = m + 2
    <3>1. i + 1 = m + 3 /\ i - 1 = m + 1 /\ i > 1
      BY <1>1, <2>5
    <3>2. QED
      BY <1>5, <2>1, <2>2, <2>5, <3>1
  <2>6. CASE i = m + 3
    <3>1. i - 1 = m + 2 /\ i > 1
      BY <1>1, <2>6
    <3>2. QED
      BY <2>2, <2>6, <3>1
  <2>7. i \in m + 1 .. m + 3 => i = m + 1 \/ i = m + 2 \/ i = m + 3
    BY <1>1
  <2>8. QED
    BY <2>3, <2>4, <2>5, <2>6, <2>7
<1>9. m + 2 \in DOMAIN b
  BY <1>1, <1>5, FileFacts
<1>10. ASSUME NEW i \in 1 .. Len(b), b[i].does = "veto"
       PROVE  i = m + 2
  <2>1. i \in m + 1 .. m + 3
    BY <1>7, <1>10 DEF IsOwn
  <2>2. i = m + 1 \/ i = m + 2 \/ i = m + 3
    BY <1>1, <2>1
  <2>3. QED
    BY <1>7, <1>10, <2>2
<1>11. QED
  BY <1>5, <1>6, <1>8, <1>9, <1>10 DEF b, BlockStandsAfter

(***************************************************************************)
(* A rule that nothing overtakes refuses a caller whose time is up: libpam *)
(* either reaches the first rule or has been stopped before by none.       *)
(***************************************************************************)
LEMMA VetoRefuses ==
  ASSUME NEW stack \in Stack, NEW f \in File, NEW v \in DOMAIN f,
         f[v] = Veto(stack), ~Overtaken(f, stack)
  PROVE  ~Admits(f, stack, "refusal")
<1> DEFINE mine == {i \in DOMAIN f : f[i].stack = stack}
           act(i) == Does(f[i], "refusal")
           reached == {i \in mine :
                         \A j \in mine : j < i => act(j) \notin {"done", "die"}}
           T == {i \in DOMAIN f : f[i] = Veto(stack)}
<1>1. Len(f) \in Nat /\ DOMAIN f = 1 .. Len(f) /\ \A i \in 1 .. Len(f) : f[i] \in Line
  BY FileFacts
<1>2. T # {} /\ T \in SUBSET Nat
  BY <1>1
<1>3. PICK w \in T : \A k \in T : w <= k
  <2> HIDE DEF T
  <2> QED
    BY <1>2, LeastExists
<1>4. w \in mine /\ w \in DOMAIN f /\ f[w] = Veto(stack)
  BY DEF Veto
<1>5. act(w) \in {"bad", "die"}
  BY <1>4 DEF Does, Veto, Control
<1>6. ASSUME NEW j \in mine, j < w
      PROVE  act(j) \notin {"done", "die"}
  <2>1. f[j].does # "suffice"
    BY <1>4, <1>6 DEF Overtaken, Veto
  <2>2. f[j].does # "veto"
    <3>1. f[j].does = "veto" => f[j] = Veto(stack)
      BY <1>1 DEF Line, Veto
    <3>2. f[j] # Veto(stack)
      BY <1>1, <1>3, <1>6
    <3>3. QED
      BY <3>1, <3>2
  <2>3. QED
    BY <2>1, <2>2 DEF Does
<1>7. w \in reached
  BY <1>4, <1>6
<1>8. QED
  BY <1>4, <1>5, <1>7 DEF Admits

LEMMA InsertFacts ==
  ASSUME NEW stack \in Stack, NEW f, WellFormed(f, stack)
  PROVE  /\ WellFormed(InsertBlock(f, stack), stack)
         /\ Own(InsertBlock(f, stack)) = Own(f)
         /\ InsertBlock(InsertBlock(f, stack), stack) = InsertBlock(f, stack)
         /\ ~Admits(InsertBlock(f, stack), stack, "refusal")
<1> DEFINE b == InsertBlock(f, stack)
<1>1. PICK g, h : /\ Plain(g) /\ Plain(h) /\ Own(f) = g \o h
                  /\ \A j \in 1 .. Len(g) : g[j].stack # stack
                  /\ b = Around(g, stack, h)
  BY InsertIsPlaced
<1> HIDE DEF b
<1>2. Plain(g) /\ Plain(h) /\ b = Around(g, stack, h)
  BY <1>1
<1>3. /\ WellFormed(b, stack) /\ Own(b) = g \o h
      /\ b[Len(g) + 2] = Veto(stack) /\ Len(g) + 2 \in DOMAIN b
      /\ b[Len(g) + 1] = Begin
      /\ \A i \in 1 .. Len(g) : b[i] = g[i]
      /\ \A i \in 1 .. Len(b) : b[i].does = "veto" => i = Len(g) + 2
  <2>1. BlockStandsAfter(g, stack, h, Around(g, stack, h))
    BY <1>2, BlockBetween
  <2>2. QED
    BY <1>2, <2>1 DEF BlockStandsAfter
<1>4. InsertBlock(b, stack) = b
  <2>1. RemoveBlock(b) = RemoveBlock(f)
    BY <1>1, <1>3, RemoveFacts
  <2>2. InsertBlock(b, stack) = InsertBlock(f, stack)
    BY <2>1 DEF InsertBlock
  <2>3. QED
    BY <2>2 DEF b
<1>5. b \in File /\ Len(b) \in Nat /\ DOMAIN b = 1 .. Len(b) /\ Len(g) \in Nat
  BY <1>1, <1>3, FileFacts DEF WellFormed, Plain
<1>6. ~Overtaken(b, stack)
  <2> SUFFICES ASSUME NEW i \in DOMAIN b, NEW j \in DOMAIN b, i < j,
                      b[i].stack = stack, b[i].does = "suffice",
                      b[j].stack = stack, b[j].does = "veto"
               PROVE  FALSE
    BY DEF Overtaken
  <2>1. ASSUME NEW k \in 1 .. Len(g) + 1
        PROVE  b[k].stack # stack
    <3>1. CASE k \in 1 .. Len(g)
      BY <1>1, <1>3, <3>1
    <3>2. CASE k = Len(g) + 1
      BY <1>3, <3>2 DEF Begin, Stack
    <3>3. QED
      BY <1>5, <3>1, <3>2
  <2>2. j = Len(g) + 2
    BY <1>3, <1>5
  <2>3. i \in 1 .. Len(g) + 1
    BY <1>5, <2>2
  <2>4. QED
    BY <2>1, <2>3
<1>7. ~Admits(b, stack, "refusal")
  BY <1>3, <1>5, <1>6, VetoRefuses
<1>8. QED
  BY <1>1, <1>3, <1>4, <1>7 DEF b

-----------------------------------------------------------------------------
(***************************************************************************)
(* Lines put in or taken out by people who keep out of the markers leave   *)
(* the blocks whole.                                                       *)
(***************************************************************************)
LEMMA InsertedLines ==
  ASSUME NEW f \in File, NEW l \in Line, NEW i \in 1 .. Len(f) + 1
  PROVE  /\ InsertAt(f, i, l) \in File /\ Len(InsertAt(f, i, l)) = Len(f) + 1
         /\ \A j \in 1 .. Len(f) + 1 :
              InsertAt(f, i, l)[j] = IF j < i THEN f[j]
                                     ELSE IF j = i THEN l ELSE f[j - 1]
<1> DEFINE a == SubSeq(f, 1, i - 1)
           b == <<l>>
           c == SubSeq(f, i, Len(f))
           n == Len(f)
<1>1. /\ f \in Seq(Line) /\ n \in Nat /\ i \in 1 .. n + 1
      /\ \A j \in 1 .. n : f[j] \in Line
  BY FileFacts DEF File
<1>2. /\ a \in File /\ Len(a) = i - 1
      /\ \A j \in 1 .. i - 1 : a[j] = f[j]
  BY <1>1, SubSeqProperties DEF File
<1>3. /\ c \in File /\ Len(c) = n - i + 1
      /\ \A j \in 1 .. n - i + 1 : c[j] = f[i + j - 1]
  BY <1>1, SubSeqProperties DEF File
<1>4. b \in File /\ Len(b) = 1 /\ b[1] = l
  BY DEF File
<1> DEFINE ab == a \o b
<1> HIDE DEF a, b, c, n
<1>5. /\ ab \in File /\ Len(ab) = i
      /\ \A j \in 1 .. i - 1 : ab[j] = f[j]
      /\ ab[i] = l
  <2>1. /\ ab \in File /\ Len(ab) = Len(a) + Len(b)
        /\ \A j \in 1 .. Len(a) : ab[j] = a[j]
        /\ \A j \in 1 .. Len(b) : ab[Len(a) + j] = b[j]
    BY <1>2, <1>4, Joined
  <2>2. 1 \in 1 .. Len(b) /\ Len(a) + 1 = i
    BY <1>1, <1>2, <1>4
  <2> HIDE DEF ab
  <2>3. QED
    BY <1>2, <1>4, <2>1, <2>2
<1> HIDE DEF ab
<1>6. InsertAt(f, i, l) = ab \o c
  BY DEF InsertAt, ab, a, b, c
<1> DEFINE r == ab \o c
<1>7. /\ r \in File /\ Len(r) = Len(ab) + Len(c)
      /\ \A j \in 1 .. Len(ab) : r[j] = ab[j]
      /\ \A j \in 1 .. Len(c) : r[Len(ab) + j] = c[j]
  BY <1>3, <1>5, Joined
<1> HIDE DEF r
<1>8. Len(r) = n + 1
  BY <1>1, <1>3, <1>5, <1>7
<1>9. ASSUME NEW j \in 1 .. n + 1
      PROVE  r[j] = IF j < i THEN f[j] ELSE IF j = i THEN l ELSE f[j - 1]
  <2>1. CASE j < i
    BY <1>1, <1>5, <1>7, <2>1
  <2>2. CASE j = i
    BY <1>1, <1>5, <1>7, <2>2
  <2>3. CASE j > i
    <3>1. j - i \in 1 .. Len(c) /\ Len(ab) + (j - i) = j /\ i + (j - i) - 1 = j - 1
      BY <1>1, <1>3, <1>5, <2>3
    <3>2. r[j] = c[j - i] /\ c[j - i] = f[j - 1]
      BY <1>3, <1>7, <3>1
    <3>3. QED
      BY <1>1, <2>3, <3>2
  <2>4. QED
    BY <1>1, <2>1, <2>2, <2>3
<1>10. QED
  BY <1>6, <1>7, <1>8, <1>9 DEF n, r

LEMMA RemovedLines ==
  ASSUME NEW f \in File, NEW i \in 1 .. Len(f)
  PROVE  /\ RemoveAt(f, i) \in File /\ Len(RemoveAt(f, i)) = Len(f) - 1
         /\ \A j \in 1 .. Len(f) - 1 :
              RemoveAt(f, i)[j] = IF j < i THEN f[j] ELSE f[j + 1]
<1> DEFINE a == SubSeq(f, 1, i - 1)
           c == SubSeq(f, i + 1, Len(f))
           n == Len(f)
<1>1. /\ f \in Seq(Line) /\ n \in Nat /\ i \in 1 .. n
      /\ \A j \in 1 .. n : f[j] \in Line
  BY FileFacts DEF File
<1>2. /\ a \in File /\ Len(a) = i - 1
      /\ \A j \in 1 .. i - 1 : a[j] = f[j]
  BY <1>1, SubSeqProperties DEF File
<1>3. /\ c \in File /\ Len(c) = n - i
      /\ \A j \in 1 .. n - i : c[j] = f[i + j]
  BY <1>1, SubSeqProperties DEF File
<1> DEFINE r == a \o c
<1>4. RemoveAt(f, i) = r
  BY DEF RemoveAt
<1> HIDE DEF a, c, n
<1>5. /\ r \in File /\ Len(r) = Len(a) + Len(c)
      /\ \A j \in 1 .. Len(a) : r[j] = a[j]
      /\ \A j \in 1 .. Len(c) : r[Len(a) + j] = c[j]
  BY <1>2, <1>3, Joined
<1> HIDE DEF r
<1>6. ASSUME NEW j \in 1 .. n - 1
      PROVE  r[j] = IF j < i THEN f[j] ELSE f[j + 1]
  <2>1. CASE j < i
    BY <1>1, <1>2, <1>5, <2>1
  <2>2. CASE j >= i
    <3> DEFINE k == j - (i - 1)
    <3>1. k \in 1 .. Len(c) /\ Len(a) + k = j /\ i + k = j + 1 /\ k \in 1 .. n - i
      BY <1>1, <1>2, <1>3, <2>2
    <3> HIDE DEF k
    <3>2. r[j] = c[k] /\ c[k] = f[j + 1]
      BY <1>3, <1>5, <3>1
    <3>3. QED
      BY <1>1, <2>2, <3>2
  <2>3. QED
    BY <1>1, <2>1, <2>2
<1>7. Len(r) = n - 1
  BY <1>1, <1>2, <1>3, <1>5
<1>8. QED
  BY <1>4, <1>5, <1>6, <1>7 DEF n

\* What WellFormed asks of one line.
Whole(f, stack, i) ==
  /\ f[i].does = "begin" => i + 1 \in 1 .. Len(f) /\ f[i + 1].does = "veto"
  /\ f[i].does = "veto" => /\ f[i] = Veto(stack)
                           /\ i > 1 /\ f[i - 1].does = "begin"
                           /\ i + 1 \in 1 .. Len(f) /\ f[i + 1].does = "end"
  /\ f[i].does = "end" => i > 1 /\ f[i - 1].does = "veto"

LEMMA WholeLines ==
  ASSUME NEW f, NEW stack
  PROVE  WellFormed(f, stack)
           <=> f \in File /\ \A i \in 1 .. Len(f) : Whole(f, stack, i)
BY DEF WellFormed, Whole

LEMMA InsertedWellFormed ==
  ASSUME NEW stack, NEW f, WellFormed(f, stack), NEW l \in Line, IsOwn(l),
         NEW i \in 1 .. Len(f) + 1,
         i = 1 \/ f[i - 1].does \notin {"begin", "veto"}
  PROVE  WellFormed(InsertAt(f, i, l), stack)
<1> DEFINE n == Len(f)
           r == InsertAt(f, i, l)
<1>1. f \in File /\ n \in Nat /\ \A j \in 1 .. n : Whole(f, stack, j)
  BY WholeLines, FileFacts
<1>2. /\ r \in File /\ Len(r) = n + 1
      /\ \A j \in 1 .. n + 1 : r[j] = IF j < i THEN f[j]
                                      ELSE IF j = i THEN l ELSE f[j - 1]
  BY <1>1, InsertedLines
<1> HIDE DEF n, r
<1>3. ASSUME NEW j \in 1 .. n + 1
      PROVE  Whole(r, stack, j)
  <2>1. CASE j < i - 1
    <3>1. /\ j \in 1 .. n /\ j + 1 \in 1 .. n + 1 /\ j + 1 < i
          /\ i \in 1 .. n + 1 /\ i \in Int
      BY <1>1, <2>1 DEF n
    <3>2. r[j] = f[j] /\ r[j + 1] = f[j + 1] /\ (j > 1 => r[j - 1] = f[j - 1])
      BY <1>1, <1>2, <3>1
    <3>3. Whole(f, stack, j)
      BY <1>1, <3>1
    <3>4. QED
      BY <1>1, <1>2, <3>1, <3>2, <3>3 DEF Whole, n
  <2>2. CASE j = i - 1
    <3>1. j \in 1 .. n /\ j < i /\ i \in Int /\ i # 1
      BY <1>1, <2>2 DEF n
    <3>2. r[j] = f[j] /\ (j > 1 => r[j - 1] = f[j - 1])
      BY <1>1, <1>2, <3>1
    <3>3. Whole(f, stack, j) /\ f[j].does \notin {"begin", "veto"}
      BY <1>1, <2>2, <3>1
    <3>4. QED
      BY <3>2, <3>3 DEF Whole
  <2>3. CASE j = i
    <3>1. r[j] = l
      BY <1>2, <2>3
    <3>2. QED
      BY <3>1 DEF Whole, IsOwn
  <2>4. CASE j = i + 1
    <3>1. i \in 1 .. n /\ i + 1 > i /\ i + 1 # i
      BY <1>1, <2>4 DEF n
    <3>2. r[j] = f[i] /\ (i + 1 \in 1 .. n => r[j + 1] = f[i + 1])
      BY <1>1, <1>2, <2>4, <3>1
    <3>3. Whole(f, stack, i) /\ f[i].does \notin {"veto", "end"}
      <4>1. Whole(f, stack, i)
        BY <1>1, <3>1
      <4>2. f[i].does \in {"veto", "end"}
              => i > 1 /\ f[i - 1].does \in {"begin", "veto"}
        BY <4>1 DEF Whole
      <4>3. i > 1 => f[i - 1].does \notin {"begin", "veto"}
        OBVIOUS
      <4>4. QED
        BY <4>1, <4>2, <4>3
    <3>4. QED
      BY <1>1, <1>2, <2>4, <3>1, <3>2, <3>3 DEF Whole, n
  <2>5. CASE j > i + 1
    <3> DEFINE k == j - 1
    <3>1. /\ k \in 1 .. n /\ k - 1 \in 1 .. n /\ j = k + 1 /\ k > i /\ k > 1
          /\ j - 1 = k /\ j - 1 > i
      BY <1>1, <2>5 DEF n
    <3>2. r[j] = f[k] /\ r[j - 1] = f[k - 1]
      BY <1>1, <1>2, <3>1
    <3>3. k + 1 \in 1 .. n => j + 1 \in 1 .. n + 1 /\ r[j + 1] = f[k + 1]
      BY <1>1, <1>2, <3>1
    <3>4. Whole(f, stack, k)
      BY <1>1, <3>1
    <3> HIDE DEF k
    <3>5. QED
      BY <1>1, <1>2, <3>1, <3>2, <3>3, <3>4 DEF Whole, n
  <2>6. QED
    BY <1>1, <2>1, <2>2, <2>3, <2>4, <2>5 DEF n
<1>4. WellFormed(r, stack)
  BY <1>2, <1>3, WholeLines
<1>5. QED
  BY <1>4 DEF r

LEMMA RemovedWellFormed ==
  ASSUME NEW stack, NEW f, WellFormed(f, stack), NEW i \in 1 .. Len(f),
         IsOwn(f[i])
  PROVE  WellFormed(RemoveAt(f, i), stack)
<1> DEFINE n == Len(f)
           r == RemoveAt(f, i)
<1>1. f \in File /\ n \in Nat /\ \A j \in 1 .. n : Whole(f, stack, j)
  BY WholeLines, FileFacts
<1>2. /\ r \in File /\ Len(r) = n - 1
      /\ \A j \in 1 .. n - 1 : r[j] = IF j < i THEN f[j] ELSE f[j + 1]
  BY <1>1, RemovedLines
<1> HIDE DEF n, r
<1>3. ASSUME NEW j \in 1 .. n - 1
      PROVE  Whole(r, stack, j)
  <2>1. CASE j < i
    <3>1. j \in 1 .. n /\ i \in 1 .. n
      BY <1>1 DEF n
    <3>2. r[j] = f[j] /\ (j > 1 => r[j - 1] = f[j - 1])
      BY <1>1, <1>2, <2>1, <3>1
    <3>3. Whole(f, stack, j)
      BY <1>1, <3>1
    <3>4. CASE j + 1 = i
      BY <3>2, <3>3, <3>4 DEF Whole, IsOwn
    <3>5. CASE j + 1 # i
      <4>1. j + 1 < i /\ j + 1 \in 1 .. n - 1
        BY <1>1, <2>1, <3>1, <3>5
      <4>2. r[j + 1] = f[j + 1]
        BY <1>2, <4>1
      <4>3. QED
        BY <1>2, <3>2, <3>3, <4>1, <4>2 DEF Whole
    <3>6. QED
      BY <3>4, <3>5
  <2>2. CASE j >= i
    <3> DEFINE k == j + 1
    <3>1. /\ k \in 1 .. n /\ i \in 1 .. n /\ k > 1 /\ k - 1 = j
      BY <1>1, <2>2 DEF n
    <3>2. r[j] = f[k]
      BY <1>1, <1>2, <2>2, <3>1
    <3>3. Whole(f, stack, k)
      BY <1>1, <3>1
    <3>4. k + 1 \in 1 .. n => j + 1 \in 1 .. n - 1 /\ r[j + 1] = f[k + 1]
      BY <1>1, <1>2, <2>2, <3>1
    <3>5. CASE j = i
      <4>1. f[k].does \notin {"veto", "end"}
        BY <3>1, <3>3, <3>5 DEF Whole, IsOwn
      <4>2. QED
        BY <1>2, <3>2, <3>3, <3>4, <4>1 DEF Whole, n
    <3>6. CASE j > i
      <4>1. j - 1 >= i /\ j - 1 \in 1 .. n - 1 /\ j - 1 + 1 = k - 1 /\ j > 1
        BY <1>1, <3>1, <3>6
      <4>2. r[j - 1] = f[k - 1]
        BY <1>1, <1>2, <3>1, <4>1
      <4>3. QED
        BY <1>2, <3>2, <3>3, <3>4, <4>1, <4>2 DEF Whole, n
    <3>7. QED
      BY <2>2, <3>1, <3>5, <3>6
  <2>3. QED
    BY <1>1, <2>1, <2>2 DEF n
<1>4. WellFormed(r, stack)
  BY <1>2, <1>3, WholeLines
<1>5. QED
  BY <1>4 DEF r

-----------------------------------------------------------------------------
(***************************************************************************)
(* The lines Own keeps are those of the file that are not ours, in order:  *)
(* e gives for each the place it has in the file.                          *)
(***************************************************************************)
Places(e, text, f, k) ==
  /\ e \in [1 .. Len(text) -> 1 .. k]
  /\ \A p, q \in 1 .. Len(text) : p < q => e[p] < e[q]
  /\ \A p \in 1 .. Len(text) : text[p] = f[e[p]]
  /\ \A i \in 1 .. k : IsOwn(f[i]) => \E p \in 1 .. Len(text) : e[p] = i

LEMMA OwnPlaces ==
  ASSUME NEW f \in File
  PROVE  \E e : Places(e, Own(f), f, Len(f))
<1>1. PICK c : KeptChain(c, f) /\ Own(f) = c[Len(f)]
  BY OwnIsChain
<1> DEFINE n == Len(f)
           S == {k \in 0 .. n : \E e : Places(e, c[k], f, k)}
<1>2. n \in Nat /\ \A i \in 1 .. n : f[i] \in Line
  BY FileFacts
<1>3. 0 \in S
  <2> DEFINE e == [p \in 1 .. 0 |-> p]
  <2>1. c[0] = <<>> /\ Len(c[0]) = 0 /\ 1 .. 0 = {} /\ 0 \in 0 .. n
    BY <1>1, <1>2 DEF KeptChain
  <2>2. e \in [1 .. 0 -> 1 .. 0]
    OBVIOUS
  <2>3. Places(e, c[0], f, 0)
    BY <2>1, <2>2 DEF Places
  <2>4. QED
    BY <2>1, <2>3
<1>4. ASSUME NEW k \in 0 .. n - 1, k \in S
      PROVE  k + 1 \in S
  <2>1. k + 1 \in 1 .. n /\ k + 1 - 1 = k /\ k + 1 \in 0 .. n /\ k \in 0 .. n
    BY <1>2
  <2>2. c[k + 1] = Kept(c[k], f[k + 1])
    BY <1>1, <2>1 DEF KeptChain
  <2>3. PICK e : Places(e, c[k], f, k)
    BY <1>4
  <2> DEFINE o == c[k]
             m == Len(o)
  <2>4. o \in Seq(Line) /\ m \in Nat /\ f[k + 1] \in Line /\ k \in Nat
    BY <1>1, <1>2, <2>1 DEF KeptChain, File
  <2>5. /\ e \in [1 .. m -> 1 .. k]
        /\ \A p, q \in 1 .. m : p < q => e[p] < e[q]
        /\ \A p \in 1 .. m : o[p] = f[e[p]]
        /\ \A i \in 1 .. k : IsOwn(f[i]) => \E p \in 1 .. m : e[p] = i
    BY <2>3 DEF Places
  <2>6. CASE ~IsOwn(f[k + 1])
    <3>1. c[k + 1] = o
      BY <2>2, <2>6 DEF Kept, IsOwn
    <3> HIDE DEF m, o
    <3>2. e \in [1 .. m -> 1 .. k + 1]
      BY <2>4, <2>5
    <3>3. ASSUME NEW i \in 1 .. k + 1, IsOwn(f[i])
          PROVE  \E p \in 1 .. m : e[p] = i
      <4>1. i \in 1 .. k
        BY <2>4, <2>6, <3>3
      <4>2. QED
        BY <2>5, <3>3, <4>1
    <3>4. Places(e, o, f, k + 1)
      BY <2>5, <3>2, <3>3 DEF Places, m
    <3>5. QED
      BY <2>1, <3>1, <3>4
  <2>7. CASE IsOwn(f[k + 1])
    <3> DEFINE d == [p \in 1 .. m + 1 |-> IF p <= m THEN e[p] ELSE k + 1]
               r == c[k + 1]
    <3>1. r = Append(o, f[k + 1])
      BY <2>2, <2>7 DEF Kept, IsOwn
    <3>2. /\ Len(r) = m + 1 /\ r[m + 1] = f[k + 1]
          /\ \A p \in 1 .. m : r[p] = o[p]
      BY <2>4, <3>1, AppendProperties
    <3> HIDE DEF m, o, r
    <3>3. /\ d \in [1 .. m + 1 -> 1 .. k + 1]
          /\ \A p \in 1 .. m : d[p] = e[p] /\ d[p] \in 1 .. k /\ p \in 1 .. m + 1
          /\ d[m + 1] = k + 1 /\ m + 1 \in 1 .. m + 1
      BY <2>4, <2>5
    <3>4. ASSUME NEW p \in 1 .. m + 1
          PROVE  p \in 1 .. m \/ p = m + 1
      BY <2>4
    <3> HIDE DEF d
    <3>5. ASSUME NEW p \in 1 .. m + 1, NEW q \in 1 .. m + 1, p < q
          PROVE  d[p] < d[q]
      <4>1. p \in 1 .. m
        BY <2>4, <3>5
      <4>2. CASE q \in 1 .. m
        BY <2>5, <3>3, <3>5, <4>1, <4>2
      <4>3. CASE q = m + 1
        BY <2>4, <3>3, <4>1, <4>3
      <4>4. QED
        BY <3>4, <4>2, <4>3
    <3>6. ASSUME NEW p \in 1 .. m + 1
          PROVE  r[p] = f[d[p]]
      BY <2>5, <3>2, <3>3, <3>4
    <3>7. ASSUME NEW i \in 1 .. k + 1, IsOwn(f[i])
          PROVE  \E p \in 1 .. m + 1 : d[p] = i
      <4>1. CASE i \in 1 .. k
        <5>1. PICK p \in 1 .. m : e[p] = i
          BY <2>5, <3>7, <4>1
        <5>2. QED
          BY <3>3, <5>1
      <4>2. CASE i = k + 1
        BY <3>3, <4>2
      <4>3. QED
        BY <2>4, <4>1, <4>2
    <3>8. Places(d, r, f, k + 1)
      BY <3>2, <3>3, <3>5, <3>6, <3>7 DEF Places
    <3>9. QED
      BY <2>1, <3>8 DEF r
  <2>8. QED
    BY <2>6, <2>7
<1>5. \A k \in 0 .. n : k \in S
  <2> HIDE DEF S, n
  <2> QED
    BY <1>2, <1>3, <1>4, Climb
<1>6. n \in S
  <2> HIDE DEF S
  <2> QED
    BY <1>2, <1>5
<1>7. QED
  BY <1>1, <1>6

(***************************************************************************)
(* A rule that is told to ignore the answer is as if it were not there.    *)
(***************************************************************************)
LEMMA AdmitsOwn ==
  ASSUME NEW f \in File, NEW stack \in Stack, NEW answer \in {"ignore", "unknown"},
         \E i \in DOMAIN Own(f) : Own(f)[i].stack = stack
  PROVE  Admits(f, stack, answer) <=> Admits(Own(f), stack, answer)
<1> DEFINE o == Own(f)
           m == Len(o)
           n == Len(f)
           actF(i) == Does(f[i], answer)
           actO(p) == Does(o[p], answer)
           mineF == {i \in DOMAIN f : f[i].stack = stack}
           mineO == {p \in DOMAIN o : o[p].stack = stack}
           reachedF == {i \in mineF :
                          \A j \in mineF : j < i => actF(j) \notin {"done", "die"}}
           reachedO == {p \in mineO :
                          \A q \in mineO : q < p => actO(q) \notin {"done", "die"}}
<1>1. /\ n \in Nat /\ DOMAIN f = 1 .. n /\ \A i \in 1 .. n : f[i] \in Line
  BY FileFacts
<1>2. Plain(o) /\ o \in File
  BY OwnIsPlain
<1> HIDE DEF o
<1>3. m \in Nat /\ DOMAIN o = 1 .. m /\ \A p \in 1 .. m : IsOwn(o[p])
  BY <1>2, FileFacts DEF Plain
<1>4. PICK e : Places(e, o, f, n)
  BY OwnPlaces DEF o
<1> HIDE DEF m, n
<1>5. /\ \A p \in 1 .. m : e[p] \in 1 .. n /\ o[p] = f[e[p]]
      /\ \A p, q \in 1 .. m : p < q => e[p] < e[q]
      /\ \A i \in 1 .. n : IsOwn(f[i]) => \E p \in 1 .. m : e[p] = i
  BY <1>4 DEF Places, m
<1>6. ASSUME NEW p \in mineO
      PROVE  e[p] \in mineF /\ actF(e[p]) = actO(p) /\ p \in 1 .. m
  BY <1>1, <1>3, <1>5
<1>7. ASSUME NEW i \in mineF
      PROVE  \/ actF(i) = "ignore"
             \/ \E p \in mineO : e[p] = i
  <2>1. f[i] \in Line /\ i \in 1 .. n /\ f[i].stack \in Stack
    BY <1>1
  <2>2. CASE IsOwn(f[i])
    <3>1. PICK p \in 1 .. m : e[p] = i
      BY <1>5, <2>1, <2>2
    <3>2. p \in mineO
      BY <1>3, <1>5, <3>1
    <3>3. QED
      BY <3>1, <3>2
  <2>3. CASE ~IsOwn(f[i])
    <3>1. f[i].does = "veto"
      BY <2>1, <2>3 DEF Line, Stack, IsOwn
    <3>2. actF(i) = "ignore"
      BY <2>1, <3>1 DEF Does, Control
    <3>3. QED
      BY <3>2
  <2>4. QED
    BY <2>2, <2>3
<1>8. ASSUME NEW p \in mineO, NEW q \in mineO
      PROVE  p < q <=> e[p] < e[q]
  <2>1. p \in 1 .. m /\ q \in 1 .. m /\ e[p] \in 1 .. n /\ e[q] \in 1 .. n
    BY <1>5, <1>6
  <2>2. CASE p < q
    BY <1>5, <2>1, <2>2
  <2>3. CASE p = q
    BY <1>1, <1>3, <2>1, <2>3
  <2>4. CASE q < p
    <3>1. e[q] < e[p]
      BY <1>5, <2>1, <2>4
    <3>2. QED
      BY <1>1, <1>3, <2>1, <2>4, <3>1
  <2>5. QED
    BY <1>3, <2>1, <2>2, <2>3, <2>4
<1>9. ASSUME NEW p \in mineO
      PROVE  p \in reachedO <=> e[p] \in reachedF
  <2>1. ASSUME p \in reachedO
        PROVE  e[p] \in reachedF
    <3>1. ASSUME NEW j \in mineF, j < e[p]
          PROVE  actF(j) \notin {"done", "die"}
      <4>1. CASE actF(j) = "ignore"
        BY <4>1
      <4>2. CASE \E q \in mineO : e[q] = j
        <5>1. PICK q \in mineO : e[q] = j
          BY <4>2
        <5>2. q < p
          BY <1>8, <3>1, <5>1
        <5>3. actO(q) \notin {"done", "die"}
          BY <2>1, <5>2
        <5>4. actF(j) = actO(q)
          BY <1>6, <5>1
        <5>5. QED
          BY <5>3, <5>4
      <4>3. QED
        BY <1>7, <4>1, <4>2
    <3>2. QED
      BY <1>6, <3>1
  <2>2. ASSUME e[p] \in reachedF
        PROVE  p \in reachedO
    <3>1. ASSUME NEW q \in mineO, q < p
          PROVE  actO(q) \notin {"done", "die"}
      <4>1. e[q] \in mineF /\ e[q] < e[p] /\ actF(e[q]) = actO(q)
        BY <1>6, <1>8, <3>1
      <4>2. actF(e[q]) \notin {"done", "die"}
        BY <2>2, <4>1
      <4>3. QED
        BY <4>1, <4>2
    <3>2. QED
      BY <3>1
  <2>3. QED
    BY <2>1, <2>2
<1>10. mineO # {} /\ mineF # {}
  <2>1. PICK p \in DOMAIN o : o[p].stack = stack
    BY DEF o
  <2>2. p \in mineO
    BY <2>1
  <2>3. QED
    BY <1>6, <2>2
<1>11. ASSUME NEW i \in reachedF
       PROVE  \/ actF(i) = "ignore"
              \/ \E p \in reachedO : actO(p) = actF(i)
  <2>1. CASE actF(i) = "ignore"
    BY <2>1
  <2>2. CASE \E p \in mineO : e[p] = i
    <3>1. PICK p \in mineO : e[p] = i
      BY <2>2
    <3>2. p \in reachedO /\ actO(p) = actF(i)
      BY <1>6, <1>9, <3>1
    <3>3. QED
      BY <3>2
  <2>3. i \in mineF
    OBVIOUS
  <2>4. QED
    BY <1>7, <2>1, <2>2, <2>3
<1>12. ASSUME NEW p \in reachedO
       PROVE  \E i \in reachedF : actF(i) = actO(p)
  <2>1. p \in mineO
    OBVIOUS
  <2>2. e[p] \in reachedF /\ actF(e[p]) = actO(p)
    BY <1>6, <1>9, <2>1
  <2>3. QED
    BY <2>2
<1>13. Admits(f, stack, answer)
         <=> /\ \E i \in reachedF : actF(i) \in {"ok", "done"}
             /\ \A i \in reachedF : actF(i) \notin {"bad", "die"}
  BY <1>10 DEF Admits
<1>14. Admits(o, stack, answer)
         <=> /\ \E p \in reachedO : actO(p) \in {"ok", "done"}
             /\ \A p \in reachedO : actO(p) \notin {"bad", "die"}
  BY <1>10 DEF Admits
<1> HIDE DEF reachedF, reachedO, actF, actO, mineF, mineO
<1>15. Admits(f, stack, answer) <=> Admits(o, stack, answer)
  BY <1>11, <1>12, <1>13, <1>14
<1>16. QED
  BY <1>15 DEF o

-----------------------------------------------------------------------------
(***************************************************************************)
(* The strengthening.  As long as there is no backup of a service, its     *)
(* file and what a power loss brings back of it are free of blocks; so is  *)
(* everything in the vendor directory; and the process does not write      *)
(* before there is a backup.                                               *)
(***************************************************************************)
Clean(file) == file = None \/ (file \in File /\ ~HasBlock(file))

VendorIsClean == \A s \in Service : Clean(vendor[s])

UntouchedIsClean ==
  \A s \in Service \ spoiled :
    backup[s] = None => Clean(etc[s]) /\ Clean(stored[s])

BackupIsClean ==
  \A s \in Service \ spoiled : backup[s] # None => ~HasBlock(backup[s])

BackupFirst ==
  /\ pc = "rename" => backup[Here] # None \/ Here \in spoiled
  /\ pc = "adopt" => Clean(seen)

Shape ==
  /\ DOMAIN etc = Service /\ DOMAIN stored = Service
  /\ DOMAIN vendor = Service /\ DOMAIN backup = Service
  /\ spoiled \subseteq Service /\ loose \subseteq Service
  /\ at \in 1 .. Len(Managed)

IInv ==
  /\ Shape
  /\ VendorIsClean
  /\ UntouchedIsClean
  /\ BackupIsClean
  /\ BackupFirst

-----------------------------------------------------------------------------
(* Files without a block. *)

LEMMA HereIsService ==
  ASSUME at \in 1 .. Len(Managed)
  PROVE  Here \in Service
BY PamSetupAssumption DEF PamSetupAssumption, Here, Service

LEMMA NoneIsNoFile == None \notin File
BY PamSetupAssumption DEF PamSetupAssumption

LEMMA ShippedIsClean ==
  ASSUME NEW s \in Service
  PROVE  Clean(Shipped[s]) /\ Shipped[s] # None
<1>1. /\ Shipped[s] \in File
      /\ \A i \in DOMAIN Shipped[s] :
           Shipped[s][i].does \in {"require", "suffice"}
  BY PamSetupAssumption DEF PamSetupAssumption
<1>2. \A i \in DOMAIN Shipped[s] : Shipped[s][i] # Begin
  BY <1>1 DEF Begin
<1> QED BY <1>1, <1>2, NoneIsNoFile DEF Clean, HasBlock

NoBlock(f) == f \in Seq(Line) /\ \A k \in 1 .. Len(f) : f[k] # Begin

LEMMA NoBlockIsClean ==
  ASSUME NEW f
  PROVE  /\ f \in File /\ ~HasBlock(f) => NoBlock(f)
         /\ NoBlock(f) => Clean(f)
<1>1. f \in Seq(Line) => DOMAIN f = 1 .. Len(f)
  OBVIOUS
<1> QED BY <1>1 DEF NoBlock, File, HasBlock, Clean

LEMMA NoBlockInParts ==
  ASSUME NEW f, NoBlock(f), NEW m \in Nat, NEW n \in Nat,
         m \in 1 .. Len(f) + 1, n <= Len(f)
  PROVE  NoBlock(SubSeq(f, m, n))
BY DEF NoBlock

LEMMA NoBlockJoined ==
  ASSUME NEW f, NoBlock(f), NEW g, NoBlock(g)
  PROVE  NoBlock(f \o g)
<1>1. /\ f \in Seq(Line) /\ g \in Seq(Line)
      /\ f \o g \in Seq(Line) /\ Len(f \o g) = Len(f) + Len(g)
  BY DEF NoBlock
<1>2. ASSUME NEW k \in 1 .. Len(f \o g)
      PROVE  (f \o g)[k] # Begin
  <2>1. CASE k <= Len(f)
    BY <1>1, <2>1 DEF NoBlock
  <2>2. CASE k > Len(f)
    <3>1. k - Len(f) \in 1 .. Len(g) /\ (f \o g)[k] = g[k - Len(f)]
      BY <1>1, <2>2
    <3> QED BY <3>1 DEF NoBlock
  <2> QED BY <1>1, <2>1, <2>2
<1> QED BY <1>1, <1>2 DEF NoBlock

LEMMA EditedIsClean ==
  ASSUME NEW s \in Service, etc[s] \in File, ~HasBlock(etc[s]),
         NEW text \in Edited(s)
  PROVE  Clean(text)
<1>1. PICK f : f = etc[s]
  OBVIOUS
<1>2. NoBlock(f) /\ Len(f) \in Nat /\ DOMAIN f = 1 .. Len(f)
  BY <1>1, NoBlockIsClean DEF NoBlock
<1>3. ASSUME NEW l \in OwnLines[s], NEW i \in 1 .. Len(f) + 1,
             text = InsertAt(f, i, l)
      PROVE  Clean(text)
  <2>1. NoBlock(<<l>>)
    <3>1. l \in Line /\ l # Begin
      BY PamSetupAssumption DEF PamSetupAssumption, Begin
    <3> QED BY <3>1 DEF NoBlock
  <2>2. NoBlock(SubSeq(f, 1, i - 1)) /\ NoBlock(SubSeq(f, i, Len(f)))
    BY <1>2, NoBlockInParts
  <2>3. NoBlock(SubSeq(f, 1, i - 1) \o <<l>>)
    BY <2>1, <2>2, NoBlockJoined
  <2>4. NoBlock((SubSeq(f, 1, i - 1) \o <<l>>) \o SubSeq(f, i, Len(f)))
    BY <2>2, <2>3, NoBlockJoined
  <2> QED BY <1>3, <2>4, NoBlockIsClean DEF InsertAt
<1>4. ASSUME NEW i \in 1 .. Len(f), text = RemoveAt(f, i)
      PROVE  Clean(text)
  <2>1. NoBlock(SubSeq(f, 1, i - 1)) /\ NoBlock(SubSeq(f, i + 1, Len(f)))
    BY <1>2, NoBlockInParts
  <2>2. NoBlock(SubSeq(f, 1, i - 1) \o SubSeq(f, i + 1, Len(f)))
    BY <2>1, NoBlockJoined
  <2> QED BY <1>4, <2>2, NoBlockIsClean DEF RemoveAt
<1> QED BY <1>1, <1>2, <1>3, <1>4 DEF Edited

-----------------------------------------------------------------------------
(* The invariant. *)

LEMMA InitHolds == Init => IInv
<1> SUFFICES ASSUME Init PROVE IInv
  OBVIOUS
<1>1. PICK where \in Placements :
        /\ etc = [s \in Service |-> IF where[s] = "etc" THEN Shipped[s] ELSE None]
        /\ vendor =
             [s \in Service |-> IF where[s] = "vendor" THEN Shipped[s] ELSE None]
  BY DEF Init
<1>2. /\ stored = etc /\ backup = [s \in Service |-> None]
      /\ loose = {} /\ spoiled = {} /\ pc = "idle" /\ at = 1
  BY DEF Init
<1>3. \A s \in Service : Clean(etc[s]) /\ Clean(vendor[s])
  BY <1>1, ShippedIsClean DEF Clean
<1>4. 1 \in 1 .. Len(Managed)
  BY PamSetupAssumption DEF PamSetupAssumption
<1> QED
  BY <1>1, <1>2, <1>3, <1>4
  DEF IInv, Shape, VendorIsClean, UntouchedIsClean, BackupIsClean, BackupFirst

\* Steps of the process that leave files and copies alone.
LEMMA QuietSteps ==
  ASSUME IInv, UNCHANGED <<etc, vendor, copies, spoiled>>,
         stored' \in {etc, stored}, at' \in 1 .. Len(Managed),
         pc' \notin {"rename", "adopt"}
  PROVE  IInv'
BY DEF IInv, Shape, VendorIsClean, UntouchedIsClean, BackupIsClean, BackupFirst,
       copies

LEMMA AdvanceIsQuiet ==
  ASSUME IInv, NEW sure, Advance(sure)
  PROVE  at' \in 1 .. Len(Managed) /\ pc' \notin {"rename", "adopt"}
<1>1. at \in 1 .. Len(Managed) /\ Len(Managed) \in Nat
  BY PamSetupAssumption DEF PamSetupAssumption, IInv, Shape
<1> QED BY <1>1 DEF Advance, Over

LEMMA ResolveKeeps == IInv /\ Resolve => IInv'
<1> SUFFICES ASSUME IInv, Resolve PROVE IInv'
  OBVIOUS
<1>1. Here \in Service
  BY HereIsService DEF IInv, Shape
<1>2. UNCHANGED <<files, copies, spoiled>>
  BY DEF Resolve
<1>3. CASE pc' = "adopt" /\ seen' = vendor[Here] /\ UNCHANGED at
  <2>1. Clean(seen')
    BY <1>1, <1>3 DEF IInv, VendorIsClean
  <2> QED
    BY <1>2, <1>3, <2>1
    DEF IInv, Shape, VendorIsClean, UntouchedIsClean, BackupIsClean,
        BackupFirst, files, copies, Here
<1>4. CASE pc' = "read" /\ UNCHANGED at
  BY <1>2, <1>4, QuietSteps DEF files, IInv, Shape
<1>5. CASE Advance(trusted)
  BY <1>2, <1>5, AdvanceIsQuiet, QuietSteps DEF files
<1> QED BY <1>3, <1>4, <1>5 DEF Resolve

LEMMA AdoptKeeps == IInv /\ Adopt => IInv'
<1> SUFFICES ASSUME IInv, Adopt PROVE IInv'
  OBVIOUS
<1>1. Here \in Service /\ Clean(seen)
  BY HereIsService DEF IInv, Shape, BackupFirst, Adopt
<1>2. /\ etc' = [etc EXCEPT ![Here] = seen]
      /\ UNCHANGED <<vendor, stored, copies, at, spoiled>> /\ pc' = "settle"
  BY DEF Adopt, Replace
<1>3. \A s \in Service : etc'[s] = IF s = Here THEN seen ELSE etc[s]
  BY <1>1, <1>2 DEF IInv, Shape
<1> QED
  BY <1>1, <1>2, <1>3
  DEF IInv, Shape, VendorIsClean, UntouchedIsClean, BackupIsClean, BackupFirst,
      copies

LEMMA ReadKeeps == IInv /\ Read => IInv'
<1> SUFFICES ASSUME IInv, Read PROVE IInv'
  OBVIOUS
<1>1. UNCHANGED <<files, copies, spoiled>>
  BY DEF Read
<1>2. \/ Advance(trusted)
      \/ pc' = "backup" /\ UNCHANGED at
  BY DEF Read
<1>3. CASE Advance(trusted)
  BY <1>1, <1>3, AdvanceIsQuiet, QuietSteps DEF files
<1>4. CASE pc' = "backup" /\ UNCHANGED at
  BY <1>1, <1>4, QuietSteps DEF files, IInv, Shape
<1> QED BY <1>2, <1>3, <1>4

LEMMA BackupOnceKeeps == IInv /\ BackupOnce => IInv'
<1> SUFFICES ASSUME IInv, BackupOnce PROVE IInv'
  OBVIOUS
<1>1. Here \in Service
  BY HereIsService DEF IInv, Shape
<1>2. pc' = "rename" /\ UNCHANGED <<files, at, spoiled>> /\ Here' = Here
  BY DEF BackupOnce, history, Here
<1>3. CASE backup[Here] # None /\ UNCHANGED copies
  BY <1>2, <1>3
  DEF IInv, Shape, VendorIsClean, UntouchedIsClean, BackupIsClean, BackupFirst,
      files, copies
<1>4. CASE /\ backup[Here] = None /\ etc[Here] # None
           /\ backup' = [backup EXCEPT ![Here] = etc[Here]]
           /\ loose' = loose \cup {Here}
  <2>1. \A s \in Service : backup'[s] = IF s = Here THEN etc[Here] ELSE backup[s]
    BY <1>1, <1>4 DEF IInv, Shape
  <2>2. Here \notin spoiled => Clean(etc[Here])
    BY <1>1, <1>4 DEF IInv, UntouchedIsClean
  <2>3. BackupIsClean'
    BY <1>2, <1>4, <2>1, <2>2 DEF IInv, BackupIsClean, Clean
  <2>4. UntouchedIsClean'
    BY <1>2, <1>4, <2>1 DEF IInv, UntouchedIsClean, files
  <2>5. Shape' /\ VendorIsClean' /\ BackupFirst'
    BY <1>1, <1>2, <1>4, <2>1
    DEF IInv, Shape, VendorIsClean, BackupFirst, files
  <2> QED BY <2>3, <2>4, <2>5 DEF IInv
<1> QED BY <1>3, <1>4 DEF BackupOnce

\* Whatever is written: there is a backup, or it cannot be relied on.
LEMMA RenameKeeps == IInv /\ Rename => IInv'
<1> SUFFICES ASSUME IInv, Rename PROVE IInv'
  OBVIOUS
<1>1. Here \in Service /\ (backup[Here] # None \/ Here \in spoiled)
  BY HereIsService DEF IInv, Shape, BackupFirst, Rename
<1>2. PICK text : etc' = [etc EXCEPT ![Here] = text]
  BY DEF Rename, Replace
<1>3. UNCHANGED <<vendor, stored, copies, at, spoiled>> /\ pc' = "sync"
  BY DEF Rename, Replace
<1>4. \A s \in Service : s # Here => etc'[s] = etc[s]
  BY <1>1, <1>2 DEF IInv, Shape
<1> QED
  BY <1>1, <1>2, <1>3, <1>4
  DEF IInv, Shape, VendorIsClean, UntouchedIsClean, BackupIsClean, BackupFirst,
      copies

LEMMA SyncingKeeps == IInv /\ (Settle \/ Sync) => IInv'
<1> SUFFICES ASSUME IInv, Settle \/ Sync PROVE IInv'
  OBVIOUS
<1>1. PICK sure \in SUBSET trusted :
        /\ SyncDirectory(sure)
        /\ Advance(sure) \/ (pc' = "read" /\ UNCHANGED at)
  BY DEF Settle, Sync
<1>2. UNCHANGED <<etc, vendor, copies, spoiled>> /\ stored' \in {etc, stored}
  BY <1>1 DEF Settle, Sync, SyncDirectory
<1>3. at' \in 1 .. Len(Managed) /\ pc' \notin {"rename", "adopt"}
  BY <1>1, AdvanceIsQuiet DEF IInv, Shape
<1> QED BY <1>2, <1>3, QuietSteps

LEMMA StopKeeps == IInv /\ Stop => IInv'
<1> SUFFICES ASSUME IInv, Stop PROVE IInv'
  OBVIOUS
<1>1. Here \in Service
  BY HereIsService DEF IInv, Shape
<1>2. /\ UNCHANGED <<files, loose>>
      /\ pc' = "idle" /\ at' = 1 /\ 1 \in 1 .. Len(Managed)
  BY PamSetupAssumption DEF PamSetupAssumption, Stop, Over
<1>3. CASE UNCHANGED <<backup, spoiled>>
  BY <1>2, <1>3, QuietSteps DEF files, copies
<1>4. CASE /\ backup' = [backup EXCEPT ![Here] = Torn]
           /\ spoiled' = spoiled \cup {Here}
  <2>1. /\ DOMAIN backup' = Service
        /\ \A s \in Service \ spoiled' : backup'[s] = backup[s]
    BY <1>1, <1>4 DEF IInv, Shape
  <2> QED
    BY <1>1, <1>2, <1>4, <2>1
    DEF IInv, Shape, VendorIsClean, UntouchedIsClean, BackupIsClean,
        BackupFirst, files
<1> QED BY <1>3, <1>4 DEF Stop

-----------------------------------------------------------------------------
(* The others. *)

\* What is enough for one who changes the file of one service.
LEMMA InterfereKeeps ==
  ASSUME IInv, NEW s \in Service, Interfere(s), NEW text,
         DOMAIN etc' = Service,
         \A t \in Service : etc'[t] = IF t = s THEN text ELSE etc[t],
         s \notin spoiled /\ backup[s] = None => Clean(text),
         VendorIsClean', DOMAIN vendor' = Service
  PROVE  IInv'
<1>1. /\ stored' = [stored EXCEPT ![s] = etc'[s]]
      /\ UNCHANGED <<copies, process, spoiled>>
  BY DEF Interfere
<1>2. \A t \in Service : /\ etc'[t] = IF t = s THEN text ELSE etc[t]
                         /\ stored'[t] = IF t = s THEN text ELSE stored[t]
  BY <1>1 DEF IInv, Shape
<1> QED
  BY <1>1, <1>2
  DEF IInv, Shape, UntouchedIsClean, BackupIsClean, BackupFirst, copies,
      process, Here

LEMMA EditKeeps == ASSUME IInv, NEW s \in Service, Edit(s) PROVE IInv'
<1>1. PICK text \in Edited(s) :
        /\ DOMAIN etc' = Service
        /\ \A t \in Service : etc'[t] = IF t = s THEN text ELSE etc[t]
  BY DEF Edit, IInv, Shape
<1>2. s \notin spoiled /\ backup[s] = None => Clean(text)
  BY EditedIsClean DEF IInv, UntouchedIsClean, Clean, Edit
<1>3. UNCHANGED vendor /\ Interfere(s)
  BY DEF Edit
<1>4. VendorIsClean' /\ DOMAIN vendor' = Service
  BY <1>3 DEF IInv, VendorIsClean, Shape
<1> QED BY <1>1, <1>2, <1>3, <1>4, InterfereKeeps

LEMMA DistributeKeeps == ASSUME IInv, NEW s \in Service, Distribute(s) PROVE IInv'
<1>1. PICK text \in {None, Shipped[s]} :
        \/ etc' = [etc EXCEPT ![s] = text] /\ UNCHANGED vendor
        \/ vendor' = [vendor EXCEPT ![s] = text] /\ UNCHANGED etc
  BY DEF Distribute
<1>2. Clean(text) /\ Interfere(s)
  BY ShippedIsClean DEF Clean, Distribute
<1>3. VendorIsClean' /\ DOMAIN vendor' = Service
  BY <1>1, <1>2 DEF IInv, VendorIsClean, Shape
<1>4. CASE etc' = [etc EXCEPT ![s] = text]
  <2>1. /\ DOMAIN etc' = Service
        /\ \A t \in Service : etc'[t] = IF t = s THEN text ELSE etc[t]
    BY <1>4 DEF IInv, Shape
  <2> QED BY <1>2, <1>3, <2>1, InterfereKeeps
<1>5. CASE UNCHANGED etc
  <2>1. /\ DOMAIN etc' = Service
        /\ \A t \in Service : etc'[t] = IF t = s THEN etc[s] ELSE etc[t]
    BY <1>5 DEF IInv, Shape
  <2>2. s \notin spoiled /\ backup[s] = None => Clean(etc[s])
    BY DEF IInv, UntouchedIsClean
  <2> QED BY <1>2, <1>3, <2>1, <2>2, InterfereKeeps
<1> QED BY <1>1, <1>4, <1>5

LEMMA UninstallKeeps == IInv /\ Uninstall => IInv'
<1> SUFFICES ASSUME IInv, Uninstall PROVE IInv'
  OBVIOUS
<1>1. /\ DOMAIN etc' = Service
      /\ \A s \in Service : Clean(etc[s]) => etc'[s] = etc[s]
  BY DEF Uninstall, Clean
<1>2. UNCHANGED <<vendor, copies, process, spoiled>> /\ stored' = etc'
  BY DEF Uninstall
<1> QED
  BY <1>1, <1>2
  DEF IInv, Shape, VendorIsClean, UntouchedIsClean, BackupIsClean, BackupFirst,
      copies, process, Here

LEMMA PowerLossKeeps == IInv /\ PowerLoss => IInv'
<1> SUFFICES ASSUME IInv, PowerLoss PROVE IInv'
  OBVIOUS
<1>1. /\ DOMAIN etc' = Service /\ stored' = etc'
      /\ \A s \in Service : etc'[s] \in {etc[s], stored[s]}
  BY DEF PowerLoss
<1>2. PICK hit \in SUBSET loose :
        /\ \E left \in [hit -> {None, Torn}] :
             backup' = [s \in Service |-> IF s \in hit THEN left[s] ELSE backup[s]]
        /\ spoiled' = spoiled \cup hit
  BY DEF PowerLoss
<1>3. /\ DOMAIN backup' = Service /\ spoiled' \subseteq Service
      /\ \A s \in Service \ spoiled' : s \notin spoiled /\ backup'[s] = backup[s]
  BY <1>2 DEF IInv, Shape
<1>4. /\ loose' = {} /\ pc' = "idle" /\ at' = 1 /\ UNCHANGED vendor
      /\ 1 \in 1 .. Len(Managed)
  BY PamSetupAssumption DEF PamSetupAssumption, PowerLoss, Over
<1> QED
  BY <1>1, <1>3, <1>4
  DEF IInv, Shape, VendorIsClean, UntouchedIsClean, BackupIsClean, BackupFirst

-----------------------------------------------------------------------------
(* Theorems. *)

LEMMA StepKeeps == IInv /\ [Next]_vars => IInv'
<1> SUFFICES ASSUME IInv, [Next]_vars PROVE IInv'
  OBVIOUS
<1>1. CASE BeginJob
  <2>1. 1 \in 1 .. Len(Managed)
    BY PamSetupAssumption DEF PamSetupAssumption
  <2> QED BY <1>1, <2>1, QuietSteps DEF BeginJob, files
<1>2. CASE WriteBack
  <2>1. etc' = etc /\ vendor' = vendor /\ backup' = backup /\ stored' = etc
        /\ loose' = {} /\ UNCHANGED <<process, spoiled>>
    BY <1>2 DEF WriteBack, history
  <2> QED
    BY <2>1
    DEF IInv, Shape, VendorIsClean, UntouchedIsClean, BackupIsClean,
        BackupFirst, process, Here
<1>3. CASE UNCHANGED vars
  BY <1>3
  DEF vars, files, copies, process, history, IInv, Shape, VendorIsClean,
      UntouchedIsClean, BackupIsClean, BackupFirst, Here
<1> QED
  BY <1>1, <1>2, <1>3, ResolveKeeps, AdoptKeeps, ReadKeeps, BackupOnceKeeps,
     RenameKeeps, SyncingKeeps, StopKeeps, EditKeeps, DistributeKeeps,
     UninstallKeeps, PowerLossKeeps
  DEF Next, Process

(***************************************************************************)
(* Nothing is written without a backup, and the backup is the file as it   *)
(* was before tbctl: backup_once with write_atomically, for any services,  *)
(* edits, upgrades, interruptions and power losses.                        *)
(***************************************************************************)
THEOREM BackupShowsTheOriginal == Spec => []BackupIsOriginal
<1>1. IInv => BackupIsOriginal
  BY DEF IInv, UntouchedIsClean, BackupIsClean, Clean, BackupIsOriginal
<1> QED BY <1>1, InitHolds, StepKeeps, PTL DEF Spec

(***************************************************************************)
(* When tbctl doctor finds no fault at all, every installed service has    *)
(* the block, and the module refuses a child whose time is up.             *)
(***************************************************************************)
THEOREM DoctorOkMeansRefusal ==
  ASSUME NEW w \in World, DoctorCommand(CheckPam(etc, vendor), w) = "ok"
  PROVE  /\ Answers(w) = "refusal"
         /\ \A s \in Service :
              Effective(etc, vendor, s) # None
                => HasBlock(Effective(etc, vendor, s))
<1>1. \A c \in Run(CheckPam(etc, vendor), w) : c \notin {"fail", "warn"}
  BY DEF DoctorCommand, Worst
<1>2. /\ ~w.flag /\ w.module /\ w.daemon = "answers"
      /\ w.policy = "enforcing" /\ w.member = "yes"
  <2>1. CheckDisableFlag(w) # "warn" /\ CheckModule(w) # "fail"
        /\ CheckDaemon(w) # "fail" /\ CheckPolicies(w) \notin {"fail", "warn"}
    BY <1>1 DEF Run
  <2>2. w.policy \in {"none", "unreadable", "invalid", "observing", "enforcing"}
        /\ w.member \in {"yes", "no", "unknown"}
    BY DEF World
  <2> QED
    BY <2>1, <2>2 DEF CheckDisableFlag, CheckModule, CheckDaemon, CheckPolicies
<1>3. \A s \in Service : Status(etc, vendor, s) # "not configured"
  <2> SUFFICES ASSUME NEW s \in Service, Status(etc, vendor, s) = "not configured"
               PROVE  FALSE
    OBVIOUS
  <2>1. s \in DOMAIN StackOf
    BY PamSetupAssumption DEF PamSetupAssumption
  <2>2. "fail" \in CheckPam(etc, vendor)
    BY <2>1 DEF CheckPam
  <2> QED BY <1>1, <2>2 DEF Run
<1> QED BY <1>2, <1>3 DEF Answers, Status


-----------------------------------------------------------------------------
(***************************************************************************)
(* The files tbctl meets and leaves are well-formed, what the distribution *)
(* ships has no line of ours, and what has been read belongs to the        *)
(* service the process is at.                                              *)
(***************************************************************************)
Sound(file, s) == file = None \/ WellFormed(file, StackOf[s])

Formed ==
  /\ \A s \in Service : Sound(etc[s], s) /\ Sound(stored[s], s)
  /\ \A s \in Service : vendor[s] = None \/ Plain(vendor[s])
  /\ pc \in {"backup", "rename", "sync"} => WellFormed(seen, StackOf[Here])
  /\ pc = "adopt" => Plain(seen)

FInv ==
  /\ TypeOK
  /\ Formed
  /\ OthersUntouched

LEMMA ServiceFacts ==
  ASSUME NEW s \in Service
  PROVE  /\ StackOf[s] \in Stack
         /\ Plain(Shipped[s]) /\ Shipped[s] # None
<1>1. StackOf[s] \in Stack
  <2>1. Service = DOMAIN StackOf
    BY PamSetupAssumption DEF PamSetupAssumption
  <2>2. StackOf \in [DOMAIN StackOf -> Stack]
    BY PamFilesAssumption DEF PamFilesAssumption
  <2>3. QED
    BY <2>1, <2>2
<1>2. /\ Shipped[s] \in File
      /\ \A i \in DOMAIN Shipped[s] :
           Shipped[s][i].does \in {"require", "suffice"}
  BY PamSetupAssumption DEF PamSetupAssumption
<1>3. Plain(Shipped[s])
  BY <1>2, FileFacts DEF Plain, IsOwn
<1>4. QED
  BY <1>1, <1>2, <1>3, NoneIsNoFile

LEMMA SoundFacts ==
  ASSUME NEW s \in Service, NEW file
  PROVE  /\ Sound(file, s) => file \in {None} \cup File
         /\ file \in File => file # None
         /\ Plain(file) => file \in File /\ file # None /\ Sound(file, s)
         /\ WellFormed(file, StackOf[s]) => file \in File /\ file # None
BY NoneIsNoFile, PlainFacts DEF Sound, WellFormed, Plain

LEMMA FormedAtFirst == Init => FInv
<1> SUFFICES ASSUME Init PROVE FInv
  OBVIOUS
<1>1. PICK where \in Placements :
        /\ etc = [s \in Service |-> IF where[s] = "etc" THEN Shipped[s] ELSE None]
        /\ vendor =
             [s \in Service |-> IF where[s] = "vendor" THEN Shipped[s] ELSE None]
        /\ own = [s \in Service |-> IF where[s] = "etc" THEN Shipped[s] ELSE <<>>]
  BY DEF Init
<1>2. \A s \in Service : /\ Shipped[s] \in File /\ Plain(Shipped[s])
                         /\ Shipped[s] # None /\ Sound(Shipped[s], s)
                         /\ Own(Shipped[s]) = Shipped[s]
  BY ServiceFacts, SoundFacts, OwnOfPlain
<1>3. 1 \in 1 .. Len(Managed) /\ <<>> \in File /\ MaxAccidents \in Nat
  BY PamSetupAssumption DEF PamSetupAssumption, File
<1>4. TypeOK
  BY <1>1, <1>2, <1>3 DEF Init, TypeOK
<1>5. Formed
  BY <1>1, <1>2 DEF Init, Formed, Sound
<1>6. OthersUntouched
  BY <1>1, <1>2 DEF OthersUntouched
<1>7. QED
  BY <1>4, <1>5, <1>6 DEF FInv

\* Steps that leave the files as they are, but for what is on the disk.
LEMMA QuietForms ==
  ASSUME FInv, UNCHANGED <<etc, vendor, own, accidents>>,
         stored' \in {etc, stored},
         backup' \in [Service -> {None, Torn} \cup File],
         loose' \subseteq Service, spoiled' \subseteq Service,
         pc' \in {"idle", "resolve", "adopt", "settle", "read", "backup",
                  "rename", "sync"},
         job' \in {"none", "enable", "disable"},
         at' \in 1 .. Len(Managed), seen' \in {None} \cup File,
         trusted' \subseteq Service,
         promised' \in [Service -> {"none", "veto", "clear"}],
         pc' \in {"backup", "rename", "sync"}
           => WellFormed(seen', StackOf[Here']),
         pc' = "adopt" => Plain(seen')
  PROVE  FInv'
<1>1. TypeOK'
  BY DEF FInv, TypeOK
<1>2. Formed'
  BY DEF FInv, Formed
<1>3. OthersUntouched'
  BY DEF FInv, OthersUntouched
<1>4. QED
  BY <1>1, <1>2, <1>3 DEF FInv

LEMMA OverForms ==
  ASSUME Over
  PROVE  /\ pc' = "idle" /\ job' = "none" /\ seen' = None /\ trusted' = {}
         /\ at' \in 1 .. Len(Managed)
BY PamSetupAssumption DEF PamSetupAssumption, Over

LEMMA AdvanceForms ==
  ASSUME FInv, pc # "idle", NEW sure \in SUBSET trusted, Advance(sure)
  PROVE  /\ pc' \in {"resolve", "idle"} /\ job' \in {"none", "enable", "disable"}
         /\ at' \in 1 .. Len(Managed) /\ seen' = None
         /\ trusted' \subseteq Service
         /\ promised' \in [Service -> {"none", "veto", "clear"}]
<1>1. /\ at \in 1 .. Len(Managed) /\ Len(Managed) \in Nat
      /\ job \in {"none", "enable", "disable"} /\ trusted \subseteq Service
      /\ promised \in [Service -> {"none", "veto", "clear"}]
  BY PamSetupAssumption DEF PamSetupAssumption, FInv, TypeOK
<1>2. CASE at < Len(Managed) /\ pc' = "resolve" /\ at' = at + 1
           /\ seen' = None /\ trusted' = sure /\ UNCHANGED <<job, promised>>
  BY <1>1, <1>2
<1>3. CASE /\ Over
           /\ promised' = [s \in Service |->
                IF s \in sure THEN Word(job) ELSE promised[s]]
  <2>1. Word(job) \in {"veto", "clear"}
    BY DEF Word
  <2>2. promised' \in [Service -> {"none", "veto", "clear"}]
    BY <1>1, <1>3, <2>1
  <2>3. QED
    BY <1>3, <2>2, OverForms
<1>4. QED
  BY <1>2, <1>3 DEF Advance

LEMMA BeginJobForms == FInv /\ BeginJob => FInv'
<1> SUFFICES ASSUME FInv, BeginJob PROVE FInv'
  OBVIOUS
<1>1. 1 \in 1 .. Len(Managed)
  BY PamSetupAssumption DEF PamSetupAssumption
<1>2. /\ UNCHANGED <<etc, vendor, stored, own, accidents, backup, loose, spoiled,
                     seen>>
      /\ pc' = "resolve" /\ at' = 1 /\ job' \in {"enable", "disable"}
      /\ trusted' \subseteq Service
  BY DEF BeginJob, files, copies
<1>3. promised' \in [Service -> {"none", "veto", "clear"}]
  BY DEF BeginJob, FInv, TypeOK
<1>4. QED
  BY <1>1, <1>2, <1>3, QuietForms DEF FInv, TypeOK

LEMMA ResolveForms == FInv /\ Resolve => FInv'
<1> SUFFICES ASSUME FInv, Resolve PROVE FInv'
  OBVIOUS
<1>1. Here \in Service
  BY HereIsService DEF FInv, TypeOK
<1>2. UNCHANGED <<etc, vendor, stored, own, accidents, backup, loose, spoiled>>
  BY DEF Resolve, files, copies
<1>3. CASE pc' = "read" /\ UNCHANGED <<job, at, seen, trusted, promised>>
  BY <1>2, <1>3, QuietForms DEF FInv, TypeOK
<1>4. CASE /\ pc' = "adopt" /\ seen' = vendor[Here] /\ vendor[Here] # None
           /\ UNCHANGED <<job, at, trusted, promised>>
  <2>1. Plain(seen') /\ seen' \in File
    BY <1>1, <1>4, SoundFacts DEF FInv, Formed
  <2>2. QED
    BY <1>2, <1>4, <2>1, QuietForms DEF FInv, TypeOK
<1>5. CASE Advance(trusted)
  BY <1>2, <1>5, AdvanceForms, QuietForms DEF FInv, TypeOK, Resolve
<1>6. QED
  BY <1>3, <1>4, <1>5 DEF Resolve

LEMMA ReadForms == FInv /\ Read => FInv'
<1> SUFFICES ASSUME FInv, Read PROVE FInv'
  OBVIOUS
<1>1. Here \in Service /\ etc[Here] # None
  BY HereIsService DEF FInv, TypeOK, Read
<1>2. UNCHANGED <<etc, vendor, stored, own, accidents, backup, loose, spoiled>>
  BY DEF Read, files, copies
<1>3. CASE /\ pc' = "backup" /\ seen' = etc[Here]
           /\ UNCHANGED <<job, at, trusted, promised>>
  <2>1. WellFormed(seen', StackOf[Here]) /\ seen' \in File
    BY <1>1, <1>3, SoundFacts DEF FInv, Formed, Sound
  <2>2. Here' = Here
    BY <1>3 DEF Here
  <2>3. QED
    BY <1>2, <1>3, <2>1, <2>2, QuietForms DEF FInv, TypeOK
<1>4. CASE Advance(trusted)
  BY <1>2, <1>4, AdvanceForms, QuietForms DEF FInv, TypeOK, Read
<1>5. QED
  BY <1>3, <1>4 DEF Read

LEMMA BackupOnceForms == FInv /\ BackupOnce => FInv'
<1> SUFFICES ASSUME FInv, BackupOnce PROVE FInv'
  OBVIOUS
<1>1. Here \in Service /\ Here' = Here
  BY HereIsService DEF FInv, TypeOK, BackupOnce, Here
<1>2. /\ UNCHANGED <<etc, vendor, stored, own, accidents, spoiled, job, at, seen,
                     trusted, promised>>
      /\ pc = "backup" /\ pc' = "rename"
  BY DEF BackupOnce, files, history
<1>3. WellFormed(seen, StackOf[Here])
  BY <1>2 DEF FInv, Formed
<1>4. backup' \in [Service -> {None, Torn} \cup File] /\ loose' \subseteq Service
  <2>1. CASE UNCHANGED copies
    BY <2>1 DEF copies, FInv, TypeOK
  <2>2. CASE /\ etc[Here] # None
             /\ backup' = [backup EXCEPT ![Here] = etc[Here]]
             /\ loose' = loose \cup {Here}
    BY <1>1, <2>2 DEF FInv, TypeOK
  <2>3. QED
    BY <2>1, <2>2 DEF BackupOnce
<1>5. QED
  BY <1>1, <1>2, <1>3, <1>4, QuietForms DEF FInv, TypeOK

LEMMA SyncingForms == FInv /\ (Settle \/ Sync) => FInv'
<1> SUFFICES ASSUME FInv, Settle \/ Sync PROVE FInv'
  OBVIOUS
<1>1. PICK sure \in SUBSET trusted :
        /\ SyncDirectory(sure)
        /\ \/ Advance(sure)
           \/ /\ pc' = "read" /\ trusted' = sure
              /\ UNCHANGED <<job, at, seen, promised>>
  BY DEF Settle, Sync
<1>2. /\ UNCHANGED <<etc, vendor, own, accidents, backup, loose, spoiled>>
      /\ stored' \in {etc, stored} /\ pc # "idle"
  BY <1>1 DEF Settle, Sync, SyncDirectory, copies
<1>3. CASE Advance(sure)
  BY <1>2, <1>3, AdvanceForms, QuietForms DEF FInv, TypeOK
<1>4. CASE /\ pc' = "read" /\ trusted' = sure
           /\ UNCHANGED <<job, at, seen, promised>>
  BY <1>2, <1>4, QuietForms DEF FInv, TypeOK
<1>5. QED
  BY <1>1, <1>3, <1>4

LEMMA StopForms == FInv /\ Stop => FInv'
<1> SUFFICES ASSUME FInv, Stop PROVE FInv'
  OBVIOUS
<1>1. Here \in Service
  BY HereIsService DEF FInv, TypeOK
<1>2. /\ UNCHANGED <<etc, vendor, stored, own, accidents, loose, promised>>
      /\ Over
  BY DEF Stop, files
<1>3. /\ backup' \in [Service -> {None, Torn} \cup File]
      /\ spoiled' \subseteq Service
  <2>1. CASE UNCHANGED <<backup, spoiled>>
    BY <2>1 DEF FInv, TypeOK
  <2>2. CASE /\ backup' = [backup EXCEPT ![Here] = Torn]
             /\ spoiled' = spoiled \cup {Here}
    BY <1>1, <2>2 DEF FInv, TypeOK
  <2>3. QED
    BY <2>1, <2>2 DEF Stop
<1>4. QED
  BY <1>2, <1>3, OverForms, QuietForms DEF FInv, TypeOK

-----------------------------------------------------------------------------
(* Steps that write. *)

\* A rename: what is written has the lines that were read.
LEMMA ReplaceForms ==
  ASSUME FInv, NEW text, Replace(text), seen \in File,
         WellFormed(text, StackOf[Here]), Own(text) = Own(seen)
  PROVE  /\ etc' \in [Service -> {None} \cup File] /\ own' \in [Service -> File]
         /\ \A s \in Service : Sound(etc'[s], s)
         /\ OthersUntouched'
         /\ UNCHANGED <<vendor, stored>>
<1>1. Here \in Service
  BY HereIsService DEF FInv, TypeOK
<1>2. /\ etc' = [etc EXCEPT ![Here] = text]
      /\ own' = [own EXCEPT ![Here] = IF seen = etc[Here] THEN @ ELSE Own(seen)]
      /\ UNCHANGED <<vendor, stored>>
  BY DEF Replace
<1>3. /\ etc \in [Service -> {None} \cup File] /\ own \in [Service -> File]
      /\ \A s \in Service : etc[s] # None => Own(etc[s]) = own[s]
      /\ \A s \in Service : Sound(etc[s], s)
  BY DEF FInv, TypeOK, OthersUntouched, Formed
<1>4. text \in File /\ text # None /\ seen # None /\ Own(seen) \in File
  BY NoneIsNoFile, OwnIsPlain DEF WellFormed
<1>5. /\ etc' \in [Service -> {None} \cup File] /\ own' \in [Service -> File]
      /\ \A s \in Service : etc'[s] = IF s = Here THEN text ELSE etc[s]
      /\ \A s \in Service :
           own'[s] = IF s = Here
                     THEN IF seen = etc[Here] THEN own[Here] ELSE Own(seen)
                     ELSE own[s]
  BY <1>1, <1>2, <1>3, <1>4
<1>6. \A s \in Service : Sound(etc'[s], s)
  BY <1>3, <1>5 DEF Sound
<1>7. OthersUntouched'
  <2> SUFFICES ASSUME NEW s \in Service, etc'[s] # None
               PROVE  Own(etc'[s]) = own'[s]
    BY DEF OthersUntouched
  <2>1. CASE s = Here
    BY <1>1, <1>3, <1>4, <1>5, <2>1
  <2>2. CASE s # Here
    BY <1>3, <1>5, <2>2
  <2>3. QED
    BY <2>1, <2>2
<1>8. QED
  BY <1>2, <1>5, <1>6, <1>7

LEMMA AdoptForms == FInv /\ Adopt => FInv'
<1> SUFFICES ASSUME FInv, Adopt PROVE FInv'
  OBVIOUS
<1>1. Here \in Service /\ Plain(seen)
  BY HereIsService DEF FInv, TypeOK, Formed, Adopt
<1>2. /\ Replace(seen) /\ pc' = "settle" /\ seen' = None
      /\ UNCHANGED <<backup, loose, job, at, accidents, trusted, promised, spoiled>>
  BY DEF Adopt, copies
<1>3. seen \in File /\ WellFormed(seen, StackOf[Here])
  BY <1>1, PlainFacts DEF Plain
<1>4. /\ etc' \in [Service -> {None} \cup File] /\ own' \in [Service -> File]
      /\ \A s \in Service : Sound(etc'[s], s)
      /\ OthersUntouched'
      /\ UNCHANGED <<vendor, stored>>
  BY <1>2, <1>3, ReplaceForms
<1>5. TypeOK'
  BY <1>2, <1>4 DEF FInv, TypeOK
<1>6. Formed'
  BY <1>2, <1>4 DEF FInv, Formed
<1>7. QED
  BY <1>4, <1>5, <1>6 DEF FInv

LEMMA UpdatedForms ==
  ASSUME Here \in Service, WellFormed(seen, StackOf[Here])
  PROVE  /\ WellFormed(Updated(seen), StackOf[Here])
         /\ Own(Updated(seen)) = Own(seen)
<1>1. StackOf[Here] \in Stack
  BY ServiceFacts
<1>2. CASE job = "enable"
  <2>1. Updated(seen) = InsertBlock(seen, StackOf[Here])
    BY <1>2 DEF Updated
  <2>2. QED
    BY <1>1, <2>1, InsertFacts
<1>3. CASE job # "enable"
  <2>1. Updated(seen) = RemoveBlock(seen)
    BY <1>3 DEF Updated
  <2>2. /\ Plain(RemoveBlock(seen)) /\ Own(RemoveBlock(seen)) = Own(seen)
    BY RemoveFacts
  <2>3. WellFormed(RemoveBlock(seen), StackOf[Here])
    BY <2>2, PlainFacts
  <2>4. QED
    BY <2>1, <2>2, <2>3
<1>4. QED
  BY <1>2, <1>3

LEMMA RenameForms == FInv /\ Rename => FInv'
<1> SUFFICES ASSUME FInv, Rename PROVE FInv'
  OBVIOUS
<1>1. Here \in Service /\ WellFormed(seen, StackOf[Here]) /\ Here' = Here
  BY HereIsService DEF FInv, TypeOK, Formed, Rename, Here
<1>2. /\ Replace(Updated(seen)) /\ pc' = "sync"
      /\ UNCHANGED <<backup, loose, job, at, seen, accidents, trusted, promised,
                     spoiled>>
  BY DEF Rename, copies
<1>3. /\ seen \in File /\ WellFormed(Updated(seen), StackOf[Here])
      /\ Own(Updated(seen)) = Own(seen)
  BY <1>1, UpdatedForms DEF WellFormed
<1>4. /\ etc' \in [Service -> {None} \cup File] /\ own' \in [Service -> File]
      /\ \A s \in Service : Sound(etc'[s], s)
      /\ OthersUntouched'
      /\ UNCHANGED <<vendor, stored>>
  BY <1>2, <1>3, ReplaceForms
<1>5. TypeOK'
  BY <1>2, <1>4 DEF FInv, TypeOK
<1>6. Formed'
  BY <1>1, <1>2, <1>4 DEF FInv, Formed
<1>7. QED
  BY <1>4, <1>5, <1>6 DEF FInv

\* What is enough for one who changes the files of one service.
LEMMA InterfereForms ==
  ASSUME FInv, NEW s \in Service, Interfere(s),
         NEW text, Sound(text, s), NEW shipped, shipped = None \/ Plain(shipped),
         etc' = [etc EXCEPT ![s] = text],
         vendor' = [vendor EXCEPT ![s] = shipped],
         own' \in [Service -> File],
         \A t \in Service : t # s => own'[t] = own[t],
         text # None => Own(text) = own'[s]
  PROVE  FInv'
<1>1. /\ accidents < MaxAccidents /\ accidents' = accidents + 1
      /\ stored' = [stored EXCEPT ![s] = etc'[s]]
      /\ trusted' = trusted \ {s}
      /\ promised' = [promised EXCEPT ![s] = "none"]
      /\ UNCHANGED <<backup, loose, pc, job, at, seen, spoiled>>
  BY DEF Interfere, Accident, copies, process
<1>2. /\ text \in {None} \cup File /\ shipped \in {None} \cup File
  BY SoundFacts DEF Plain
<1>3. TypeOK
  BY DEF FInv
<1>4. /\ {etc', vendor', stored'} \subseteq [Service -> {None} \cup File]
      /\ \A t \in Service : /\ etc'[t] = IF t = s THEN text ELSE etc[t]
                            /\ stored'[t] = IF t = s THEN text ELSE stored[t]
                            /\ vendor'[t] = IF t = s THEN shipped ELSE vendor[t]
  BY <1>1, <1>2, <1>3 DEF TypeOK
<1>5. accidents' \in 0 .. MaxAccidents
  BY <1>1, <1>3, PamSetupAssumption DEF TypeOK, PamSetupAssumption
<1>6. TypeOK'
  BY <1>1, <1>3, <1>4, <1>5 DEF TypeOK
<1>7. Formed'
  BY <1>1, <1>4 DEF FInv, Formed, Here
<1>8. OthersUntouched'
  BY <1>4 DEF FInv, OthersUntouched
<1>9. QED
  BY <1>6, <1>7, <1>8 DEF FInv

LEMMA EditForms == ASSUME FInv, NEW s \in Service, Edit(s) PROVE FInv'
<1>1. PICK text \in Edited(s) :
        /\ etc' = [etc EXCEPT ![s] = text]
        /\ own' = [own EXCEPT ![s] = Own(text)]
  BY DEF Edit
<1> DEFINE f == etc[s]
           st == StackOf[s]
<1>2. WellFormed(f, st) /\ f \in File /\ DOMAIN f = 1 .. Len(f)
  BY FileFacts DEF Edit, FInv, Formed, Sound, WellFormed
<1> HIDE DEF st
<1>3. ASSUME NEW l \in OwnLines[s], NEW i \in 1 .. Len(f) + 1, Outside(f, i),
             text = InsertAt(f, i, l)
      PROVE  WellFormed(text, st)
  <2>1. l \in Line /\ IsOwn(l)
    BY PamSetupAssumption DEF PamSetupAssumption, IsOwn
  <2>2. i = 1 \/ f[i - 1].does \notin {"begin", "veto"}
    BY <1>3 DEF Outside
  <2> HIDE DEF f
  <2>3. WellFormed(InsertAt(f, i, l), st)
    BY <1>2, <2>1, <2>2, InsertedWellFormed
  <2>4. QED
    BY <1>3, <2>3
<1>4. ASSUME NEW i \in 1 .. Len(f), f[i].does \in {"require", "suffice"},
             text = RemoveAt(f, i)
      PROVE  WellFormed(text, st)
  <2>1. IsOwn(f[i])
    BY <1>4 DEF IsOwn
  <2> HIDE DEF f
  <2>2. WellFormed(RemoveAt(f, i), st)
    BY <1>2, <2>1, RemovedWellFormed
  <2>3. QED
    BY <1>4, <2>2
<1>5. WellFormed(text, st)
  BY <1>2, <1>3, <1>4 DEF Edited
<1>6. text \in File /\ Own(text) \in File /\ Sound(text, s)
  BY <1>5, OwnIsPlain DEF WellFormed, Sound, st
<1>7. /\ own' \in [Service -> File] /\ own'[s] = Own(text)
      /\ \A t \in Service : t # s => own'[t] = own[t]
  BY <1>1, <1>6 DEF FInv, TypeOK
<1>8. /\ Interfere(s) /\ vendor' = [vendor EXCEPT ![s] = vendor[s]]
      /\ (vendor[s] = None \/ Plain(vendor[s]))
  BY DEF Edit, FInv, TypeOK, Formed
<1>9. QED
  BY <1>1, <1>6, <1>7, <1>8, InterfereForms

LEMMA DistributeForms == ASSUME FInv, NEW s \in Service, Distribute(s) PROVE FInv'
<1>1. PICK text \in {None, Shipped[s]} :
        \/ /\ etc' = [etc EXCEPT ![s] = text]
           /\ own' = [own EXCEPT ![s] = IF text = None THEN <<>> ELSE text]
           /\ UNCHANGED vendor
        \/ vendor' = [vendor EXCEPT ![s] = text] /\ UNCHANGED <<etc, own>>
  BY DEF Distribute
<1>2. /\ Interfere(s) /\ Sound(text, s) /\ (text = None \/ Plain(text))
      /\ (text # None => text \in File /\ Own(text) = text)
  BY ServiceFacts, SoundFacts, OwnOfPlain DEF Distribute, Sound
<1>3. /\ etc \in [Service -> {None} \cup File]
      /\ vendor \in [Service -> {None} \cup File] /\ own \in [Service -> File]
      /\ Sound(etc[s], s) /\ (vendor[s] = None \/ Plain(vendor[s]))
      /\ (etc[s] # None => Own(etc[s]) = own[s])
      /\ <<>> \in File
  BY DEF FInv, TypeOK, Formed, OthersUntouched, File
<1>4. CASE /\ etc' = [etc EXCEPT ![s] = text]
           /\ own' = [own EXCEPT ![s] = IF text = None THEN <<>> ELSE text]
           /\ UNCHANGED vendor
  <2>1. /\ own' \in [Service -> File]
        /\ \A t \in Service : t # s => own'[t] = own[t]
        /\ (text # None => own'[s] = text)
    BY <1>2, <1>3, <1>4
  <2>2. vendor' = [vendor EXCEPT ![s] = vendor[s]]
    BY <1>3, <1>4
  <2>3. QED
    BY <1>2, <1>3, <1>4, <2>1, <2>2, InterfereForms
<1>5. CASE vendor' = [vendor EXCEPT ![s] = text] /\ UNCHANGED <<etc, own>>
  <2>1. etc' = [etc EXCEPT ![s] = etc[s]]
    BY <1>3, <1>5
  <2>2. /\ own' \in [Service -> File] /\ own'[s] = own[s]
        /\ \A t \in Service : t # s => own'[t] = own[t]
    BY <1>3, <1>5
  <2>3. QED
    BY <1>2, <1>3, <1>5, <2>1, <2>2, InterfereForms
<1>6. QED
  BY <1>1, <1>4, <1>5

LEMMA UninstallForms == FInv /\ Uninstall => FInv'
<1> SUFFICES ASSUME FInv, Uninstall PROVE FInv'
  OBVIOUS
<1>1. /\ accidents < MaxAccidents /\ accidents' = accidents + 1
      /\ etc' = [s \in Service |->
                   IF etc[s] # None /\ HasBlock(etc[s]) THEN RemoveBlock(etc[s])
                   ELSE etc[s]]
      /\ stored' = etc' /\ trusted' = {}
      /\ promised' = [s \in Service |-> "none"]
      /\ UNCHANGED <<vendor, backup, loose, pc, job, at, seen, own, spoiled>>
  BY DEF Uninstall, Accident, copies, process
<1>2. ASSUME NEW s \in Service
      PROVE  /\ etc'[s] \in {None} \cup File /\ Sound(etc'[s], s)
             /\ etc'[s] # None => etc[s] # None /\ Own(etc'[s]) = Own(etc[s])
  <2>1. Sound(etc[s], s) /\ etc[s] \in {None} \cup File
    BY DEF FInv, TypeOK, Formed
  <2>2. CASE etc'[s] = etc[s]
    BY <2>1, <2>2
  <2>3. CASE etc[s] # None /\ etc'[s] = RemoveBlock(etc[s])
    <3>1. WellFormed(etc[s], StackOf[s])
      BY <2>1, <2>3 DEF Sound
    <3>2. Plain(etc'[s]) /\ Own(etc'[s]) = Own(etc[s])
      BY <2>3, <3>1, RemoveFacts
    <3>3. QED
      BY <2>3, <3>2, SoundFacts
  <2>4. QED
    BY <1>1, <2>2, <2>3
<1>3. etc' \in [Service -> {None} \cup File]
  BY <1>1, <1>2
<1>4. accidents' \in 0 .. MaxAccidents
  BY <1>1, PamSetupAssumption DEF FInv, TypeOK, PamSetupAssumption
<1>5. TypeOK'
  BY <1>1, <1>3, <1>4 DEF FInv, TypeOK
<1>6. Formed'
  BY <1>1, <1>2 DEF FInv, Formed, Here
<1>7. OthersUntouched'
  BY <1>1, <1>2 DEF FInv, OthersUntouched
<1>8. QED
  BY <1>5, <1>6, <1>7 DEF FInv

LEMMA WriteBackForms == FInv /\ WriteBack => FInv'
<1> SUFFICES ASSUME FInv, WriteBack PROVE FInv'
  OBVIOUS
<1>1. /\ stored' = etc /\ loose' = {}
      /\ UNCHANGED <<etc, vendor, backup, pc, job, at, seen, accidents, own,
                     trusted, promised, spoiled>>
  BY DEF WriteBack, process, history
<1>2. Here' = Here
  BY <1>1 DEF Here
<1>3. QED
  BY <1>1, <1>2, QuietForms DEF FInv, TypeOK, Formed

LEMMA PowerLossForms == FInv /\ PowerLoss => FInv'
<1> SUFFICES ASSUME FInv, PowerLoss PROVE FInv'
  OBVIOUS
<1>1. PICK undone \in SUBSET Service :
        /\ etc' = [s \in Service |-> IF s \in undone THEN stored[s] ELSE etc[s]]
        /\ own' = [s \in Service |->
                     IF s \notin undone THEN own[s]
                     ELSE IF stored[s] = None THEN <<>> ELSE Own(stored[s])]
  BY DEF PowerLoss
<1>2. PICK hit \in SUBSET loose :
        /\ \E left \in [hit -> {None, Torn}] :
             backup' = [s \in Service |-> IF s \in hit THEN left[s] ELSE backup[s]]
        /\ spoiled' = spoiled \cup hit
  BY DEF PowerLoss
<1>3. /\ stored' = etc' /\ loose' = {} /\ UNCHANGED <<vendor, accidents, promised>>
      /\ Over
  BY DEF PowerLoss
<1>4. TypeOK
  BY DEF FInv
<1>5. ASSUME NEW s \in Service
      PROVE  /\ etc'[s] \in {None} \cup File /\ Sound(etc'[s], s)
             /\ own'[s] \in File
             /\ etc'[s] # None => Own(etc'[s]) = own'[s]
  <2>1. CASE s \in undone
    <3>1. /\ etc'[s] = stored[s] /\ stored[s] \in {None} \cup File
          /\ own'[s] = IF stored[s] = None THEN <<>> ELSE Own(stored[s])
      BY <1>1, <1>4, <2>1 DEF TypeOK
    <3>2. Sound(stored[s], s)
      BY DEF FInv, Formed
    <3>3. own'[s] \in File
      BY <3>1, OwnIsPlain DEF File
    <3>4. QED
      BY <3>1, <3>2, <3>3
  <2>2. CASE s \notin undone
    BY <1>1, <2>2 DEF FInv, TypeOK, Formed, OthersUntouched
  <2>3. QED
    BY <2>1, <2>2
<1>6. etc' \in [Service -> {None} \cup File] /\ own' \in [Service -> File]
  BY <1>1, <1>5
<1>7. backup' \in [Service -> {None, Torn} \cup File] /\ spoiled' \subseteq Service
  BY <1>2, <1>4 DEF TypeOK
<1>8. TypeOK'
  BY <1>3, <1>4, <1>6, <1>7, OverForms DEF TypeOK
<1>9. Formed'
  BY <1>3, <1>5, OverForms DEF FInv, Formed
<1>10. OthersUntouched'
  BY <1>5 DEF OthersUntouched
<1>11. QED
  BY <1>8, <1>9, <1>10 DEF FInv

LEMMA StepForms == FInv /\ [Next]_vars => FInv'
<1>1. FInv /\ UNCHANGED vars => FInv'
  BY DEF vars, files, copies, process, history, FInv, TypeOK, Formed,
     OthersUntouched, Here
<1>2. QED
  BY <1>1, BeginJobForms, ResolveForms, AdoptForms, ReadForms, BackupOnceForms,
     RenameForms, SyncingForms, StopForms, EditForms, DistributeForms,
     UninstallForms, WriteBackForms, PowerLossForms
  DEF Next, Process

LEMMA AlwaysFormed == Spec => []FInv
BY FormedAtFirst, StepForms, PTL DEF Spec

(***************************************************************************)
(* Every variable keeps its type; in particular remove_block and           *)
(* insert_block make files of the lines they are given.                    *)
(***************************************************************************)
THEOREM TypeCorrect == Spec => []TypeOK
<1>1. FInv => TypeOK
  BY DEF FInv
<1>2. QED
  BY <1>1, AlwaysFormed, PTL

(***************************************************************************)
(* However often the block is inserted, moved and removed, and wherever    *)
(* that stops, the lines of others stay, all of them and in order.         *)
(***************************************************************************)
THEOREM LinesOfOthersStay == Spec => []OthersUntouched
<1>1. FInv => OthersUntouched
  BY DEF FInv
<1>2. QED
  BY <1>1, AlwaysFormed, PTL

(***************************************************************************)
(* A rule whose answer is ignored, or whose module is not there, changes   *)
(* nothing for anyone: libpam admits as it would without it.               *)
(***************************************************************************)
THEOREM RuleStandsAside == Spec => []AdultsGetIn
<1>1. FInv => AdultsGetIn
  <2> SUFFICES ASSUME FInv, NEW s \in Service,
                      NEW answer \in {"ignore", "unknown"}, etc[s] # None,
                      \E i \in DOMAIN own[s] : own[s][i].stack = StackOf[s]
               PROVE  Admits(etc[s], StackOf[s], answer)
                        <=> Admits(own[s], StackOf[s], answer)
    BY DEF AdultsGetIn
  <2>1. etc[s] \in File /\ Own(etc[s]) = own[s]
    BY DEF FInv, TypeOK, OthersUntouched
  <2>2. StackOf[s] \in Stack
    BY ServiceFacts
  <2>3. \E i \in DOMAIN Own(etc[s]) : Own(etc[s])[i].stack = StackOf[s]
    BY <2>1
  <2>4. Admits(etc[s], StackOf[s], answer)
          <=> Admits(Own(etc[s]), StackOf[s], answer)
    BY <2>1, <2>2, <2>3, AdmitsOwn
  <2>5. QED
    BY <2>1, <2>4
<1>2. QED
  BY <1>1, AlwaysFormed, PTL

(***************************************************************************)
(* With the form of the files known, what tbctl doctor says of an          *)
(* installation is what libpam does there: when nothing is amiss, a child  *)
(* whose time is up is refused wherever no line of others overtakes the    *)
(* rule.                                                                   *)
(***************************************************************************)
THEOREM DoctorSpeaksTheTruth == Spec => []DoctorIsRight
<1>1. FInv => DoctorIsRight
  <2> SUFFICES ASSUME FInv, NEW w \in World,
                      DoctorCommand(CheckPam(etc, vendor), w) = "ok",
                      NEW s \in Service, Effective(etc, vendor, s) # None,
                      ~Overtaken(Effective(etc, vendor, s), StackOf[s])
               PROVE  ~Admits(Effective(etc, vendor, s), StackOf[s], Answers(w))
    BY DEF DoctorIsRight
  <2> DEFINE f == Effective(etc, vendor, s)
  <2>1. Answers(w) = "refusal" /\ HasBlock(f)
    BY DoctorOkMeansRefusal
  <2>2. WellFormed(f, StackOf[s])
    <3>1. CASE etc[s] # None
      BY <3>1 DEF Effective, FInv, Formed, Sound
    <3>2. CASE etc[s] = None
      <4>1. f = vendor[s] /\ Plain(f)
        BY <3>2 DEF Effective, FInv, Formed
      <4>2. QED
        BY <4>1, PlainFacts
    <3>3. QED
      BY <3>1, <3>2
  <2> HIDE DEF f
  <2>3. f \in File /\ Len(f) \in Nat /\ DOMAIN f = 1 .. Len(f)
    BY <2>2, FileFacts DEF WellFormed
  <2>4. PICK i \in 1 .. Len(f) : f[i] = Begin
    BY <2>1, <2>3 DEF HasBlock
  <2>5. i + 1 \in 1 .. Len(f) /\ f[i + 1] = Veto(StackOf[s])
    <3>1. i + 1 \in 1 .. Len(f) /\ f[i + 1].does = "veto"
      BY <2>2, <2>4 DEF WellFormed, Begin
    <3>2. QED
      BY <2>2, <3>1 DEF WellFormed
  <2>6. ~Admits(f, StackOf[s], "refusal")
    <3>1. StackOf[s] \in Stack /\ ~Overtaken(f, StackOf[s])
      BY ServiceFacts DEF f
    <3>2. QED
      BY <2>3, <2>5, <3>1, VetoRefuses
  <2>7. QED
    BY <2>1, <2>6 DEF f
<1>2. QED
  BY <1>1, AlwaysFormed, PTL

-----------------------------------------------------------------------------
(***************************************************************************)
(* What a command promises.  A file that meets its word is what the same   *)
(* command would make of it; no file at all meets it unless enable would   *)
(* have to fetch one from the vendor directory.                            *)
(***************************************************************************)
Met(word, s, file, shipped) ==
  IF word = "veto"
  THEN IF file = None THEN shipped = None
       ELSE file = InsertBlock(file, StackOf[s])
  ELSE file # None => ~HasBlock(file)

(***************************************************************************)
(* A word once given holds of the file and of what a power loss makes of   *)
(* it, and no job of the other kind is under way.                          *)
(***************************************************************************)
Promised ==
  \A s \in Service : promised[s] # "none" =>
    /\ Met(promised[s], s, etc[s], vendor[s])
    /\ Met(promised[s], s, stored[s], vendor[s])
    /\ pc # "idle" => promised[s] = Word(job)

(***************************************************************************)
(* The job under way, seen from its services: the trusted ones are on the  *)
(* disk as they are, but for a rename that waits for its sync, and those   *)
(* gone through meet the word of the job.                                  *)
(***************************************************************************)
JobKnown ==
  /\ pc # "idle" => job \in {"enable", "disable"}
  /\ pc = "adopt" => job = "enable"
  /\ pc = "adopt" /\ (Here \in trusted \/ promised[Here] # "none")
       => etc[Here] = None /\ vendor[Here] # None

OnDisk ==
  \A s \in trusted : stored[s] = etc[s] \/ (s = Here /\ pc \in {"settle", "sync"})

GoneThrough ==
  pc # "idle" =>
    /\ \A i \in 1 .. at - 1 :
         Managed[i] \in trusted
           => Met(Word(job), Managed[i], etc[Managed[i]], vendor[Managed[i]])
    /\ pc = "sync" /\ Here \in trusted
         => Met(Word(job), Here, etc[Here], vendor[Here])

WInv ==
  /\ FInv
  /\ Promised
  /\ JobKnown
  /\ OnDisk
  /\ GoneThrough

KeepsWord == Promised /\ JobKnown /\ OnDisk /\ GoneThrough

LEMMA WordAtFirst == Init => KeepsWord
BY DEF Init, KeepsWord, Promised, JobKnown, OnDisk, GoneThrough

LEMMA ServicesAreManaged ==
  ASSUME NEW s \in Service
  PROVE  \E i \in 1 .. Len(Managed) : Managed[i] = s
<1>1. Managed \in Seq(Service)
  BY PamSetupAssumption DEF PamSetupAssumption
<1>2. DOMAIN Managed = 1 .. Len(Managed)
  BY <1>1, LenProperties
<1>3. PICK i \in DOMAIN Managed : s = Managed[i]
  BY DEF Service
<1>4. QED
  BY <1>2, <1>3

LEMMA BeginJobWord == WInv /\ BeginJob => KeepsWord'
<1> SUFFICES ASSUME WInv, BeginJob PROVE KeepsWord'
  OBVIOUS
<1>1. /\ UNCHANGED <<etc, vendor, stored>>
      /\ pc' = "resolve" /\ at' = 1 /\ job' \in {"enable", "disable"}
      /\ trusted' = {s \in Service : stored[s] = etc[s]}
      /\ promised' = [s \in Service |->
           IF promised[s] = Word(job') THEN promised[s] ELSE "none"]
  BY DEF BeginJob, files
<1>2. Promised'
  <2> SUFFICES ASSUME NEW s \in Service, promised'[s] # "none"
               PROVE  /\ Met(promised'[s], s, etc'[s], vendor'[s])
                      /\ Met(promised'[s], s, stored'[s], vendor'[s])
                      /\ promised'[s] = Word(job')
    BY DEF Promised
  <2>1. promised'[s] = promised[s] /\ promised[s] = Word(job')
    BY <1>1
  <2>2. QED
    BY <1>1, <2>1 DEF WInv, Promised
<1>3. JobKnown'
  BY <1>1 DEF JobKnown
<1>4. OnDisk'
  BY <1>1 DEF OnDisk
<1>5. GoneThrough'
  BY <1>1 DEF GoneThrough
<1>6. QED
  BY <1>2, <1>3, <1>4, <1>5 DEF KeepsWord

\* Going on to the next service, or reporting success.
LEMMA AdvanceWord ==
  ASSUME WInv, pc # "idle", NEW sure \in SUBSET trusted, Advance(sure),
         UNCHANGED <<etc, vendor>>, stored' \in {etc, stored},
         \A s \in sure : stored'[s] = etc[s],
         Here \in sure => Met(Word(job), Here, etc[Here], vendor[Here])
  PROVE  KeepsWord'
<1>1. /\ at \in 1 .. Len(Managed) /\ Len(Managed) \in Nat
      /\ job \in {"enable", "disable"} /\ trusted \subseteq Service
      /\ promised \in [Service -> {"none", "veto", "clear"}]
  BY PamSetupAssumption DEF PamSetupAssumption, WInv, FInv, TypeOK, JobKnown
<1>2. ASSUME NEW i \in 1 .. at, Managed[i] \in sure
      PROVE  Met(Word(job), Managed[i], etc[Managed[i]], vendor[Managed[i]])
  <2>1. CASE i = at
    BY <1>2, <2>1 DEF Here
  <2>2. CASE i # at
    <3>1. i \in 1 .. at - 1
      BY <1>1, <2>2
    <3>2. QED
      BY <1>2, <3>1 DEF WInv, GoneThrough
  <2>3. QED
    BY <2>1, <2>2
<1>3. ASSUME NEW s \in Service, promised[s] # "none"
      PROVE  /\ Met(promised[s], s, etc'[s], vendor'[s])
             /\ Met(promised[s], s, stored'[s], vendor'[s])
             /\ promised[s] = Word(job)
  BY <1>3 DEF WInv, Promised
<1>4. CASE at < Len(Managed) /\ pc' = "resolve" /\ at' = at + 1
           /\ trusted' = sure /\ UNCHANGED <<job, promised>>
  <2>1. Promised'
    BY <1>3, <1>4 DEF Promised
  <2>2. JobKnown'
    BY <1>1, <1>4 DEF JobKnown
  <2>3. OnDisk'
    BY <1>4 DEF OnDisk
  <2>4. GoneThrough'
    <3>1. at' - 1 = at
      BY <1>1, <1>4
    <3>2. QED
      BY <1>2, <1>4, <3>1 DEF GoneThrough
  <2>5. QED
    BY <2>1, <2>2, <2>3, <2>4 DEF KeepsWord
<1>5. CASE /\ at = Len(Managed) /\ Over
           /\ promised' = [s \in Service |->
                IF s \in sure THEN Word(job) ELSE promised[s]]
  <2>1. pc' = "idle" /\ trusted' = {}
    BY <1>5 DEF Over
  <2>2. ASSUME NEW s \in Service, promised'[s] # "none"
        PROVE  /\ Met(promised'[s], s, etc'[s], vendor'[s])
               /\ Met(promised'[s], s, stored'[s], vendor'[s])
    <3>1. CASE s \in sure
      <4>1. PICK i \in 1 .. at : Managed[i] = s
        BY <1>5, ServicesAreManaged
      <4>2. Met(Word(job), s, etc[s], vendor[s])
        BY <1>2, <3>1, <4>1
      <4>3. promised'[s] = Word(job) /\ stored'[s] = etc[s]
        BY <1>5, <3>1
      <4>4. QED
        BY <4>2, <4>3
    <3>2. CASE s \notin sure
      <4>1. promised'[s] = promised[s]
        BY <1>5, <3>2
      <4>2. QED
        BY <1>3, <2>2, <4>1
    <3>3. QED
      BY <3>1, <3>2
  <2>3. QED
    BY <2>1, <2>2 DEF KeepsWord, Promised, JobKnown, OnDisk, GoneThrough
<1>6. QED
  BY <1>4, <1>5 DEF Advance

\* A step within the service that writes nothing.
LEMMA QuietWord ==
  ASSUME WInv, UNCHANGED <<etc, vendor, job, at, promised>>,
         pc # "idle", pc' \notin {"adopt", "sync"},
         NEW sure \in SUBSET trusted, trusted' = sure,
         stored' \in {etc, stored}, \A s \in sure : stored'[s] = etc[s]
  PROVE  KeepsWord'
<1>1. /\ job \in {"enable", "disable"}
      /\ \A s \in Service : promised[s] # "none" =>
           /\ Met(promised[s], s, etc[s], vendor[s])
           /\ Met(promised[s], s, stored[s], vendor[s])
           /\ promised[s] = Word(job)
      /\ \A i \in 1 .. at - 1 :
           Managed[i] \in trusted
             => Met(Word(job), Managed[i], etc[Managed[i]], vendor[Managed[i]])
  BY DEF WInv, Promised, JobKnown, GoneThrough
<1>2. Promised'
  <2> SUFFICES ASSUME NEW s \in Service, promised[s] # "none"
               PROVE  /\ Met(promised[s], s, etc[s], vendor[s])
                      /\ Met(promised[s], s, stored'[s], vendor[s])
                      /\ promised[s] = Word(job)
    BY DEF Promised
  <2>1. QED
    BY <1>1
<1>3. JobKnown' /\ OnDisk'
  BY <1>1 DEF JobKnown, OnDisk
<1>4. GoneThrough'
  BY <1>1 DEF GoneThrough
<1>5. QED
  BY <1>2, <1>3, <1>4 DEF KeepsWord

LEMMA ResolveWord == WInv /\ Resolve => KeepsWord'
<1> SUFFICES ASSUME WInv, Resolve PROVE KeepsWord'
  OBVIOUS
<1>1. /\ UNCHANGED <<etc, vendor, stored>> /\ pc = "resolve"
      /\ job \in {"enable", "disable"}
  BY DEF Resolve, files, WInv, JobKnown
<1>2. \A s \in trusted : stored[s] = etc[s]
  BY <1>1 DEF WInv, OnDisk
<1>3. CASE pc' = "read" /\ UNCHANGED <<job, at, trusted, promised>>
  BY <1>1, <1>2, <1>3, QuietWord
<1>4. CASE /\ etc[Here] = None /\ job = "enable" /\ vendor[Here] # None
           /\ pc' = "adopt" /\ UNCHANGED <<job, at, trusted, promised>>
  <2>1. Here' = Here
    BY <1>4 DEF Here
  <2>2. Promised'
    BY <1>1, <1>4 DEF WInv, Promised
  <2>3. JobKnown'
    BY <1>1, <1>4, <2>1 DEF JobKnown
  <2>4. OnDisk'
    BY <1>1, <1>2, <1>4 DEF OnDisk
  <2>5. GoneThrough'
    BY <1>1, <1>4 DEF WInv, GoneThrough
  <2>6. QED
    BY <2>2, <2>3, <2>4, <2>5 DEF KeepsWord
<1>5. CASE /\ etc[Here] = None /\ (job = "disable" \/ vendor[Here] = None)
           /\ Advance(trusted)
  <2>1. Met(Word(job), Here, etc[Here], vendor[Here])
    BY <1>1, <1>5 DEF Met, Word
  <2>2. QED
    BY <1>1, <1>2, <1>5, <2>1, AdvanceWord
<1>6. QED
  BY <1>3, <1>4, <1>5 DEF Resolve

LEMMA AdoptWord == WInv /\ Adopt => KeepsWord'
<1> SUFFICES ASSUME WInv, Adopt PROVE KeepsWord'
  OBVIOUS
<1>1. /\ etc' = [etc EXCEPT ![Here] = seen] /\ UNCHANGED <<vendor, stored>>
      /\ pc = "adopt" /\ pc' = "settle"
      /\ UNCHANGED <<job, at, trusted, promised>>
  BY DEF Adopt, Replace
<1>2. /\ job = "enable" /\ Word(job) = "veto"
      /\ Here \in trusted \/ promised[Here] # "none"
           => etc[Here] = None /\ vendor[Here] # None
  BY <1>1 DEF WInv, JobKnown, Word
<1>3. /\ Here \in Service /\ DOMAIN etc = Service /\ trusted \subseteq Service
      /\ at \in 1 .. Len(Managed) /\ Managed \in Seq(Service)
  BY HereIsService, PamSetupAssumption
  DEF PamSetupAssumption, WInv, FInv, TypeOK
<1>4. \A s \in Service : s # Here => etc'[s] = etc[s]
  BY <1>1, <1>3
<1>5. ~Met("veto", Here, None, vendor[Here]) <=> vendor[Here] # None
  BY DEF Met
<1>6. promised[Here] = "none"
  BY <1>1, <1>2, <1>3, <1>5 DEF WInv, Promised
<1>7. Promised'
  BY <1>1, <1>4, <1>6 DEF WInv, Promised
<1>8. JobKnown' /\ OnDisk'
  BY <1>1, <1>2, <1>3, <1>4 DEF WInv, JobKnown, OnDisk, Here
<1>9. GoneThrough'
  <2>1. ASSUME NEW i \in 1 .. at - 1, Managed[i] \in trusted
        PROVE  Met(Word(job), Managed[i], etc'[Managed[i]], vendor[Managed[i]])
    <3>1. Met(Word(job), Managed[i], etc[Managed[i]], vendor[Managed[i]])
      BY <1>1, <2>1 DEF WInv, GoneThrough
    <3>2. Managed[i] # Here
      BY <1>2, <1>5, <2>1, <3>1
    <3>3. QED
      BY <1>3, <1>4, <2>1, <3>1, <3>2
  <2>2. QED
    BY <1>1, <2>1 DEF GoneThrough
<1>10. QED
  BY <1>7, <1>8, <1>9 DEF KeepsWord

LEMMA SettleWord == WInv /\ Settle => KeepsWord'
<1> SUFFICES ASSUME WInv, Settle PROVE KeepsWord'
  OBVIOUS
<1>1. PICK sure \in SUBSET trusted : SyncDirectory(sure) /\ trusted' = sure
  BY DEF Settle
<1>2. /\ UNCHANGED <<etc, vendor, job, at, promised>>
      /\ pc = "settle" /\ pc' = "read"
  BY DEF Settle
<1>3. stored' \in {etc, stored} /\ \A s \in sure : stored'[s] = etc[s]
  BY <1>1 DEF SyncDirectory, WInv, OnDisk
<1>4. QED
  BY <1>1, <1>2, <1>3, QuietWord

LEMMA ReadWord == WInv /\ Read => KeepsWord'
<1> SUFFICES ASSUME WInv, Read PROVE KeepsWord'
  OBVIOUS
<1>1. /\ UNCHANGED <<etc, vendor, stored>> /\ pc = "read" /\ etc[Here] # None
      /\ job \in {"enable", "disable"}
  BY DEF Read, files, WInv, JobKnown
<1>2. \A s \in trusted : stored[s] = etc[s]
  BY <1>1 DEF WInv, OnDisk
<1>3. CASE pc' = "backup" /\ UNCHANGED <<job, at, trusted, promised>>
  BY <1>1, <1>2, <1>3, QuietWord
<1>4. CASE /\ IF job = "enable" THEN Updated(etc[Here]) = etc[Here]
              ELSE ~HasBlock(etc[Here])
           /\ Advance(trusted)
  <2>1. Met(Word(job), Here, etc[Here], vendor[Here])
    BY <1>1, <1>4 DEF Met, Word, Updated
  <2>2. QED
    BY <1>1, <1>2, <1>4, <2>1, AdvanceWord
<1>5. QED
  BY <1>3, <1>4 DEF Read

LEMMA BackupOnceWord == WInv /\ BackupOnce => KeepsWord'
<1> SUFFICES ASSUME WInv, BackupOnce PROVE KeepsWord'
  OBVIOUS
<1>1. /\ UNCHANGED <<etc, vendor, stored, job, at, trusted, promised>>
      /\ pc = "backup" /\ pc' = "rename"
  BY DEF BackupOnce, files, history
<1>2. \A s \in trusted : stored[s] = etc[s]
  BY <1>1 DEF WInv, OnDisk
<1>3. QED
  BY <1>1, <1>2, QuietWord

LEMMA RenameWord == WInv /\ Rename => KeepsWord'
<1> SUFFICES ASSUME WInv, Rename PROVE KeepsWord'
  OBVIOUS
<1>1. /\ etc' = [etc EXCEPT ![Here] = Updated(seen)]
      /\ UNCHANGED <<vendor, stored, job, at, trusted, promised>>
      /\ pc = "rename" /\ pc' = "sync" /\ Here' = Here
  BY DEF Rename, Replace, Here
<1>2. /\ job \in {"enable", "disable"} /\ Here \in Service
      /\ DOMAIN etc = Service /\ trusted \subseteq Service
      /\ WellFormed(seen, StackOf[Here])
  BY <1>1, HereIsService DEF WInv, FInv, TypeOK, Formed, JobKnown
<1>3. Met(Word(job), Here, Updated(seen), vendor[Here])
  <2>1. Updated(seen) \in File /\ Updated(seen) # None
    BY <1>2, UpdatedForms, NoneIsNoFile DEF WellFormed
  <2>2. CASE job = "enable"
    <3>1. Updated(seen) = InsertBlock(seen, StackOf[Here])
      BY <2>2 DEF Updated
    <3>2. InsertBlock(Updated(seen), StackOf[Here]) = Updated(seen)
      BY <1>2, <3>1, ServiceFacts, InsertFacts
    <3>3. QED
      BY <2>1, <2>2, <3>2 DEF Met, Word
  <2>3. CASE job = "disable"
    <3>1. Updated(seen) = RemoveBlock(seen)
      BY <2>3 DEF Updated
    <3>2. ~HasBlock(Updated(seen))
      BY <1>2, <3>1, RemoveFacts, PlainFacts
    <3>3. QED
      BY <2>3, <3>2 DEF Met, Word
  <2>4. QED
    BY <1>2, <2>2, <2>3
<1>4. \A s \in Service : etc'[s] = IF s = Here THEN Updated(seen) ELSE etc[s]
  BY <1>1, <1>2
<1>5. Promised'
  <2> SUFFICES ASSUME NEW s \in Service, promised[s] # "none"
               PROVE  /\ Met(promised[s], s, etc'[s], vendor[s])
                      /\ Met(promised[s], s, stored[s], vendor[s])
                      /\ promised[s] = Word(job)
    BY <1>1 DEF Promised
  <2>1. /\ Met(promised[s], s, etc[s], vendor[s])
        /\ Met(promised[s], s, stored[s], vendor[s])
        /\ promised[s] = Word(job)
    BY <1>1 DEF WInv, Promised
  <2>2. QED
    BY <1>3, <1>4, <2>1
<1>6. JobKnown' /\ OnDisk'
  BY <1>1, <1>2, <1>4 DEF WInv, JobKnown, OnDisk
<1>7. GoneThrough'
  <2>1. ASSUME NEW i \in 1 .. at - 1, Managed[i] \in trusted
        PROVE  Met(Word(job), Managed[i], etc'[Managed[i]], vendor[Managed[i]])
    <3>1. Met(Word(job), Managed[i], etc[Managed[i]], vendor[Managed[i]])
      BY <1>1, <2>1 DEF WInv, GoneThrough
    <3>2. QED
      BY <1>2, <1>3, <1>4, <2>1, <3>1
  <2>2. QED
    BY <1>1, <1>2, <1>3, <1>4, <2>1 DEF GoneThrough
<1>8. QED
  BY <1>5, <1>6, <1>7 DEF KeepsWord

LEMMA SyncWord == WInv /\ Sync => KeepsWord'
<1> SUFFICES ASSUME WInv, Sync PROVE KeepsWord'
  OBVIOUS
<1>1. PICK sure \in SUBSET trusted : SyncDirectory(sure) /\ Advance(sure)
  BY DEF Sync
<1>2. UNCHANGED <<etc, vendor>> /\ pc = "sync"
  BY DEF Sync
<1>3. stored' \in {etc, stored} /\ \A s \in sure : stored'[s] = etc[s]
  BY <1>1 DEF SyncDirectory, WInv, OnDisk
<1>4. Here \in sure => Met(Word(job), Here, etc[Here], vendor[Here])
  BY <1>2 DEF WInv, GoneThrough
<1>5. QED
  BY <1>1, <1>2, <1>3, <1>4, AdvanceWord

LEMMA StopWord == WInv /\ Stop => KeepsWord'
<1> SUFFICES ASSUME WInv, Stop PROVE KeepsWord'
  OBVIOUS
<1>1. /\ UNCHANGED <<etc, vendor, stored, promised>>
      /\ pc' = "idle" /\ trusted' = {}
  BY DEF Stop, Over, files
<1>2. QED
  BY <1>1 DEF WInv, KeepsWord, Promised, JobKnown, OnDisk, GoneThrough

LEMMA InterfereWord ==
  ASSUME WInv, NEW s \in Service, Interfere(s),
         \A t \in Service : t # s => etc'[t] = etc[t] /\ vendor'[t] = vendor[t]
  PROVE  KeepsWord'
<1>1. /\ stored' = [stored EXCEPT ![s] = etc'[s]]
      /\ trusted' = trusted \ {s}
      /\ promised' = [promised EXCEPT ![s] = "none"]
      /\ UNCHANGED <<pc, job, at, seen>> /\ Here' = Here
  BY DEF Interfere, process, Here
<1>2. /\ DOMAIN stored = Service /\ DOMAIN promised = Service
      /\ trusted \subseteq Service
  BY DEF WInv, FInv, TypeOK
<1>3. /\ \A t \in Service : promised'[t] # "none"
                              => t # s /\ promised'[t] = promised[t]
      /\ \A t \in Service : t # s => stored'[t] = stored[t]
      /\ \A t \in trusted' : t # s /\ t \in trusted /\ t \in Service
  BY <1>1, <1>2
<1>4. Promised'
  BY <1>1, <1>3 DEF WInv, Promised
<1>5. JobKnown'
  <2>1. Here \in Service
    BY HereIsService DEF WInv, FInv, TypeOK
  <2>2. QED
    BY <1>1, <1>3, <2>1 DEF WInv, JobKnown
<1>6. OnDisk'
  BY <1>1, <1>3 DEF WInv, OnDisk
<1>7. GoneThrough'
  BY <1>1, <1>3 DEF WInv, GoneThrough
<1>8. QED
  BY <1>4, <1>5, <1>6, <1>7 DEF KeepsWord

LEMMA OthersWord ==
  ASSUME WInv, NEW s \in Service, Edit(s) \/ Distribute(s)
  PROVE  KeepsWord'
<1>1. DOMAIN etc = Service /\ DOMAIN vendor = Service
  BY DEF WInv, FInv, TypeOK
<1>2. Interfere(s)
  BY DEF Edit, Distribute
<1>3. PICK text :
        \/ etc' = [etc EXCEPT ![s] = text] /\ UNCHANGED vendor
        \/ vendor' = [vendor EXCEPT ![s] = text] /\ UNCHANGED etc
  BY DEF Edit, Distribute
<1>4. \A t \in Service : t # s => etc'[t] = etc[t] /\ vendor'[t] = vendor[t]
  BY <1>1, <1>3
<1>5. QED
  BY <1>2, <1>4, InterfereWord

LEMMA UninstallWord == WInv /\ Uninstall => KeepsWord'
<1> SUFFICES ASSUME WInv, Uninstall PROVE KeepsWord'
  OBVIOUS
<1>1. /\ stored' = etc' /\ trusted' = {}
      /\ promised' = [s \in Service |-> "none"]
      /\ UNCHANGED <<pc, job, at>>
  BY DEF Uninstall, process
<1>2. Promised' /\ OnDisk' /\ GoneThrough'
  BY <1>1 DEF Promised, OnDisk, GoneThrough
<1>3. JobKnown'
  <2>1. Here' = Here /\ Here \in Service
    BY <1>1, HereIsService DEF Here, WInv, FInv, TypeOK
  <2>2. QED
    BY <1>1, <2>1 DEF WInv, JobKnown
<1>4. QED
  BY <1>2, <1>3 DEF KeepsWord

LEMMA WriteBackWord == WInv /\ WriteBack => KeepsWord'
<1> SUFFICES ASSUME WInv, WriteBack PROVE KeepsWord'
  OBVIOUS
<1>1. /\ stored' = etc
      /\ UNCHANGED <<etc, vendor, pc, job, at, trusted, promised>>
      /\ Here' = Here
  BY DEF WriteBack, process, history, Here
<1>2. QED
  BY <1>1 DEF WInv, KeepsWord, Promised, JobKnown, OnDisk, GoneThrough

LEMMA PowerLossWord == WInv /\ PowerLoss => KeepsWord'
<1> SUFFICES ASSUME WInv, PowerLoss PROVE KeepsWord'
  OBVIOUS
<1>1. /\ stored' = etc'
      /\ \A s \in Service : etc'[s] \in {etc[s], stored[s]}
      /\ pc' = "idle" /\ trusted' = {} /\ UNCHANGED <<vendor, promised>>
  BY DEF PowerLoss, Over
<1>2. QED
  BY <1>1 DEF WInv, KeepsWord, Promised, JobKnown, OnDisk, GoneThrough

LEMMA StepWord == WInv /\ [Next]_vars => KeepsWord'
<1>1. WInv /\ UNCHANGED vars => KeepsWord'
  BY DEF vars, files, copies, process, history, WInv, KeepsWord, Promised,
     JobKnown, OnDisk, GoneThrough, Here
<1>2. QED
  BY <1>1, BeginJobWord, ResolveWord, AdoptWord, SettleWord, ReadWord,
     BackupOnceWord, RenameWord, SyncWord, StopWord, OthersWord, UninstallWord,
     WriteBackWord, PowerLossWord
  DEF Next, Process

(***************************************************************************)
(* A command that reported success has done what it said, for any services *)
(* in any order, with failing syncs, kills, power losses and other jobs    *)
(* before and after: pam_command, apply and write_atomically.              *)
(***************************************************************************)
THEOREM SuccessIsKept == Spec => []WordKept
<1>1. Init => WInv
  BY FormedAtFirst, WordAtFirst DEF WInv, KeepsWord
<1>2. WInv /\ [Next]_vars => WInv'
  BY StepForms, StepWord DEF WInv, KeepsWord
<1>3. WInv => WordKept
  <2> SUFFICES ASSUME WInv, NEW s \in Service
               PROVE  /\ promised[s] = "veto" /\ Effective(etc, vendor, s) # None
                           => ~Admits(Effective(etc, vendor, s), StackOf[s],
                                      "refusal")
                      /\ promised[s] = "clear" /\ etc[s] # None
                           => ~HasBlock(etc[s])
    BY DEF WordKept
  <2>1. ASSUME promised[s] = "veto", Effective(etc, vendor, s) # None
        PROVE  ~Admits(Effective(etc, vendor, s), StackOf[s], "refusal")
    <3>1. Met("veto", s, etc[s], vendor[s])
      BY <2>1 DEF WInv, Promised
    <3>2. etc[s] # None /\ etc[s] = InsertBlock(etc[s], StackOf[s])
      BY <2>1, <3>1 DEF Met, Effective
    <3>3. StackOf[s] \in Stack /\ WellFormed(etc[s], StackOf[s])
      BY <3>2, ServiceFacts DEF WInv, FInv, Formed, Sound
    <3>4. ~Admits(InsertBlock(etc[s], StackOf[s]), StackOf[s], "refusal")
      BY <3>3, InsertFacts
    <3>5. QED
      BY <3>2, <3>4 DEF Effective
  <2>2. ASSUME promised[s] = "clear", etc[s] # None
        PROVE  ~HasBlock(etc[s])
    <3>1. Met("clear", s, etc[s], vendor[s])
      BY <2>2 DEF WInv, Promised
    <3>2. QED
      BY <2>2, <3>1 DEF Met
  <2>3. QED
    BY <2>1, <2>2
<1>4. QED
  BY <1>1, <1>2, <1>3, PTL DEF Spec
=============================================================================
