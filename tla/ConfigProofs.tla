---------------------------- MODULE ConfigProofs ----------------------------
(***************************************************************************)
(* Proofs about the loading of a configuration: the expansion of includes, *)
(* for any files, and what a compiled configuration has, for any           *)
(* configuration.                                                          *)
(***************************************************************************)
EXTENDS ConfigLoad, FiniteSetTheorems, SequenceTheorems, DataInduction, TLAPS

-----------------------------------------------------------------------------
(* Concatenating sequences.                                                *)

\* Sequences over T and their concatenation, opaque to the provers from here on.
Texts(T) == Seq(T)
Cat(a, b) == a \o b

LEMMA EmptyText ==
    ASSUME NEW T
    PROVE  <<>> \in Texts(T)
BY DEF Texts

LEMMA CatType ==
    ASSUME NEW T, NEW a \in Texts(T), NEW b \in Texts(T)
    PROVE  Cat(a, b) \in Texts(T)
BY ConcatProperties DEF Texts, Cat

LEMMA CatEmpty ==
    ASSUME NEW T, NEW a \in Texts(T)
    PROVE  Cat(a, <<>>) = a /\ Cat(<<>>, a) = a
BY ConcatEmptySeq DEF Texts, Cat

LEMMA CatAssociative ==
    ASSUME NEW T, NEW a \in Texts(T), NEW b \in Texts(T), NEW c \in Texts(T)
    PROVE  Cat(Cat(a, b), c) = Cat(a, Cat(b, c))
BY ConcatAssociative DEF Texts, Cat

\* FlattenSeq, from the left: f[n] is the first n of them put together.
Joins(f, T, s) ==
    /\ f \in [0 .. Len(s) -> Texts(T)] /\ f[0] = <<>>
    /\ \A n \in 1 .. Len(s) : f[n] = Cat(f[n - 1], s[n])

LEMMA JoinsExist ==
    ASSUME NEW T, NEW s \in Seq(Texts(T))
    PROVE  \E f : Joins(f, T, s)
<1> DEFINE step == [tn \in Texts(T) \X (1 .. Len(s)) |-> Cat(tn[1], s[tn[2]])]
<1>1. <<>> \in Texts(T) /\ Len(s) \in Nat
  BY EmptyText
<1>2. step \in [Texts(T) \X (1 .. Len(s)) -> Texts(T)]
  <2> SUFFICES ASSUME NEW tn \in Texts(T) \X (1 .. Len(s)) PROVE Cat(tn[1], s[tn[2]]) \in Texts(T)
    OBVIOUS
  <2>1. tn[1] \in Texts(T) /\ s[tn[2]] \in Texts(T)
    OBVIOUS
  <2> QED
    BY <2>1, CatType, Zenon
<1>3. \A t \in Texts(T), n \in 1 .. Len(s) : step[<<t, n>>] = Cat(t, s[n])
  OBVIOUS
<1> HIDE DEF step
<1>4. PICK f : Iterates(f, Texts(T), <<>>, Len(s), step)
  BY <1>1, <1>2, IterationExists, Zenon
<1>5. f \in [0 .. Len(s) -> Texts(T)] /\ f[0] = <<>>
      /\ \A n \in 1 .. Len(s) : f[n] = step[<<f[n - 1], n>>]
  BY <1>4, Zenon DEF Iterates
<1>6. \A n \in 1 .. Len(s) : f[n - 1] \in Texts(T)
  BY <1>5, <1>1
<1>7. \A n \in 1 .. Len(s) : f[n] = Cat(f[n - 1], s[n])
  BY <1>3, <1>5, <1>6, Zenon
<1> QED
  BY <1>5, <1>7, Zenon DEF Joins

\* The recursive function in FlattenSeq is such an f.
LEMMA FlattenIsTheLast ==
    ASSUME NEW T, NEW s \in Seq(Texts(T)), NEW f, Joins(f, T, s)
    PROVE  FlattenSeq(s) = f[Len(s)]
<1>0. Len(s) \in Nat
  OBVIOUS
<1>1. CASE Len(s) = 0
  <2>1. s = <<>>
    BY <1>1
  <2> QED
    BY <1>1, <2>1 DEF FlattenSeq, Joins
<1>2. CASE Len(s) # 0
  <2> DEFINE Fits(g) == g = [i \in 1 .. Len(s) |-> IF i = 1 THEN s[i] ELSE Cat(g[i - 1], s[i])]
             flatten == CHOOSE g : Fits(g)
             h == [i \in 1 .. Len(s) |-> f[i]]
  <2>1. FlattenSeq(s) = flatten[Len(s)]
    BY <1>2, Zenon DEF FlattenSeq, Cat
  <2>2. Fits(h)
    <3> SUFFICES ASSUME NEW i \in 1 .. Len(s)
                 PROVE  f[i] = IF i = 1 THEN s[i] ELSE Cat(h[i - 1], s[i])
      OBVIOUS
    <3>1. f[i] = Cat(f[i - 1], s[i]) /\ f[0] = <<>> /\ s[i] \in Texts(T)
      BY DEF Joins
    <3>2. CASE i = 1
      <4>1. Cat(<<>>, s[i]) = s[i]
        BY <3>1, CatEmpty, Zenon
      <4> QED
        BY <3>1, <3>2, <4>1
    <3>3. CASE i # 1
      <4>1. i - 1 \in 1 .. Len(s)
        BY <1>0, <3>3
      <4>2. h[i - 1] = f[i - 1]
        BY <4>1
      <4> QED
        BY <3>1, <3>3, <4>2
    <3> QED
      BY <3>2, <3>3
  <2>3. Fits(flatten)
    BY <2>2, Zenon
  <2> HIDE DEF flatten, h
  <2> DEFINE S == {n \in Nat : n = 0 \/ flatten[n] = f[n]}
  <2>4. 0 \in S
    OBVIOUS
  <2>5. \A n \in Nat : n < Len(s) /\ n \in S => n + 1 \in S
    <3> SUFFICES ASSUME NEW n \in Nat, n < Len(s), n \in S PROVE flatten[n + 1] = f[n + 1]
      OBVIOUS
    <3>1. n + 1 \in 1 .. Len(s) /\ (n + 1) - 1 = n /\ s[n + 1] \in Texts(T)
      BY <1>0
    <3>2. f[n + 1] = Cat(f[n], s[n + 1]) /\ f[0] = <<>>
      BY <3>1 DEF Joins
    <3>3. flatten[n + 1] = IF n + 1 = 1 THEN s[n + 1] ELSE Cat(flatten[n], s[n + 1])
      BY <2>3, <3>1
    <3>4. CASE n = 0
      <4>1. Cat(<<>>, s[n + 1]) = s[n + 1]
        BY <3>1, CatEmpty, Zenon
      <4> QED
        BY <3>1, <3>2, <3>3, <3>4, <4>1
    <3>5. CASE n # 0
      BY <3>2, <3>3, <3>5
    <3> QED
      BY <3>4, <3>5
  <2> HIDE DEF S
  <2>6. \A n \in 0 .. Len(s) : n \in S
    BY <1>0, <2>4, <2>5, BoundedInduction, Zenon
  <2>7. flatten[Len(s)] = f[Len(s)]
    BY <1>0, <1>2, <2>6 DEF S
  <2> QED
    BY <2>1, <2>7
<1> QED
  BY <1>1, <1>2

\* What FlattenSeq is for the first sequence and the others, and its type.
LEMMA FlattenHeadTail ==
    ASSUME NEW T, NEW s \in Seq(Texts(T))
    PROVE  /\ FlattenSeq(s) \in Texts(T)
           /\ s = <<>> => FlattenSeq(s) = <<>>
           /\ s # <<>> => FlattenSeq(s) = Cat(Head(s), FlattenSeq(Tail(s)))
<1>0. Len(s) \in Nat
  OBVIOUS
<1>1. PICK f : Joins(f, T, s)
  BY JoinsExist, Zenon
<1>2. FlattenSeq(s) = f[Len(s)]
  BY <1>1, FlattenIsTheLast, Zenon
<1>3. FlattenSeq(s) \in Texts(T)
  BY <1>0, <1>1, <1>2 DEF Joins
<1>4. ASSUME s = <<>> PROVE FlattenSeq(s) = <<>>
  BY <1>4, <1>1, <1>2 DEF Joins
<1>5. ASSUME s # <<>> PROVE FlattenSeq(s) = Cat(Head(s), FlattenSeq(Tail(s)))
  <2>1. Tail(s) \in Seq(Texts(T)) /\ Len(Tail(s)) = Len(s) - 1 /\ Head(s) = s[1] /\ Len(s) > 0
        /\ Head(s) \in Texts(T) /\ \A n \in 1 .. Len(s) - 1 : Tail(s)[n] = s[n + 1] /\ s[n + 1] \in Texts(T)
    BY <1>5
  <2>2. PICK g : Joins(g, T, Tail(s))
    BY <2>1, JoinsExist, Zenon
  <2>3. FlattenSeq(Tail(s)) = g[Len(s) - 1]
    BY <2>1, <2>2, FlattenIsTheLast, Zenon
  <2> DEFINE S == {n \in Nat : f[n + 1] = Cat(Head(s), g[n])}
  <2>4. 0 \in S
    <3>1. f[1] = Cat(f[0], s[1]) /\ f[0] = <<>> /\ g[0] = <<>>
      BY <1>1, <2>1, <2>2 DEF Joins
    <3>2. Cat(<<>>, Head(s)) = Head(s) /\ Cat(Head(s), <<>>) = Head(s)
      BY <2>1, CatEmpty, Zenon
    <3> QED
      BY <3>1, <3>2, <2>1
  <2>5. \A n \in Nat : n < Len(s) - 1 /\ n \in S => n + 1 \in S
    <3> SUFFICES ASSUME NEW n \in Nat, n < Len(s) - 1, n \in S
                 PROVE  f[(n + 1) + 1] = Cat(Head(s), g[n + 1])
      OBVIOUS
    <3>1. n + 1 \in 1 .. Len(s) - 1 /\ n + 2 \in 1 .. Len(s) /\ n \in 0 .. Len(s) - 1 /\ (n + 2) - 1 = n + 1
          /\ (n + 1) - 1 = n /\ (n + 1) + 1 = n + 2
      BY <1>0
    <3>2. f[n + 2] = Cat(f[n + 1], s[n + 2])
      BY <3>1, <1>1 DEF Joins
    <3>3. g[n + 1] = Cat(g[n], Tail(s)[n + 1]) /\ g[n] \in Texts(T)
      BY <3>1, <2>1, <2>2 DEF Joins
    <3>4. Tail(s)[n + 1] = s[n + 2] /\ s[n + 2] \in Texts(T)
      BY <3>1, <2>1
    <3> HIDE DEF S
    <3>6. Head(s) \in Texts(T)
      BY <2>1
    <3>5. Cat(Cat(Head(s), g[n]), s[n + 2]) = Cat(Head(s), Cat(g[n], s[n + 2]))
      <4>1. \A a, b, c \in Texts(T) : Cat(Cat(a, b), c) = Cat(a, Cat(b, c))
        BY CatAssociative
      <4> QED
        BY <3>6, <3>3, <3>4, <4>1
    <3>7. f[n + 1] = Cat(Head(s), g[n])
      BY DEF S
    <3> QED
      BY <3>1, <3>2, <3>3, <3>4, <3>5, <3>7
  <2> HIDE DEF S
  <2>6. Len(s) - 1 \in Nat
    BY <1>0, <2>1
  <2>7. \A n \in 0 .. Len(s) - 1 : n \in S
    BY <2>4, <2>5, <2>6, BoundedInduction, Zenon
  <2>8. f[(Len(s) - 1) + 1] = Cat(Head(s), g[Len(s) - 1]) /\ (Len(s) - 1) + 1 = Len(s)
    BY <2>6, <2>7, <1>0 DEF S
  <2> QED
    BY <1>2, <2>3, <2>8
<1> QED
  BY <1>3, <1>4, <1>5
-----------------------------------------------------------------------------
(* What the files expand to.                                               *)

TextType(files) == Texts((DOMAIN files) \X Nat)
AllTexts(files) == [DOMAIN files -> TextType(files)]
Paths(files) == UNION {IncludedBy(files, f) : f \in DOMAIN files}

\* A file is a sequence of lines, an include directive has a sequence of paths.
LEMMA LineTypes ==
    ASSUME NEW files, SourceShape(files), NEW f \in DOMAIN files
    PROVE  /\ Len(files[f]) \in Nat /\ DOMAIN files[f] = 1 .. Len(files[f])
           /\ \A i \in DOMAIN files[f] :
                files[f][i].kind # "text" =>
                  /\ files[f][i].kind = "include"
                  /\ files[f][i].paths \in Seq(IncludedBy(files, f))
                  /\ files[f][i].paths \in Seq(Paths(files))
<1>1. IsVec(files[f]) /\ \A l \in Range(files[f]) : l.kind = "text" \/ (l.kind = "include" /\ IsVec(l.paths))
  BY DEF SourceShape
<1>2. Len(files[f]) \in Nat /\ DOMAIN files[f] = 1 .. Len(files[f])
  BY <1>1 DEF IsVec
<1>3. ASSUME NEW i \in DOMAIN files[f], files[f][i].kind # "text"
      PROVE  /\ files[f][i].kind = "include"
             /\ files[f][i].paths \in Seq(IncludedBy(files, f))
             /\ files[f][i].paths \in Seq(Paths(files))
  <2> DEFINE l == files[f][i]
  <2>1. l \in Range(files[f])
    BY DEF Range
  <2>2. l.kind = "include" /\ IsVec(l.paths)
    BY <1>1, <1>3, <2>1, Zenon
  <2>3. Range(l.paths) \subseteq IncludedBy(files, f)
    BY <2>1, <2>2, Zenon DEF IncludedBy
  <2>4. IncludedBy(files, f) \subseteq Paths(files)
    BY Zenon DEF Paths
  <2>5. l.paths \in Seq(Range(l.paths))
    BY <2>2, Zenon DEF IsVec
  <2> HIDE DEF l
  <2>6. l.paths \in Seq(IncludedBy(files, f)) /\ l.paths \in Seq(Paths(files))
    BY <2>3, <2>4, <2>5
  <2> QED
    BY <2>2, <2>6 DEF l
<1> QED
  BY <1>2, <1>3

\* The sequence that Inlined flattens.
Parts(texts, paths) == [k \in DOMAIN paths |-> IF paths[k] \in DOMAIN texts THEN texts[paths[k]] ELSE <<>>]

LEMMA PartsType ==
    ASSUME NEW files, NEW texts \in AllTexts(files), NEW Q, NEW paths \in Seq(Q)
    PROVE  Parts(texts, paths) \in Seq(TextType(files)) /\ Len(Parts(texts, paths)) = Len(paths)
<1>1. <<>> \in TextType(files)
  BY EmptyText, Zenon DEF TextType
<1>2. \A p \in DOMAIN texts : texts[p] \in TextType(files)
  BY DEF AllTexts
<1>3. Len(paths) \in Nat /\ DOMAIN paths = 1 .. Len(paths)
  OBVIOUS
<1>4. \A k \in 1 .. Len(paths) : Parts(texts, paths)[k] \in TextType(files)
  BY <1>1, <1>2, <1>3 DEF Parts
<1>5. DOMAIN Parts(texts, paths) = 1 .. Len(paths) /\ Parts(texts, paths) = [k \in 1 .. Len(paths) |-> Parts(texts, paths)[k]]
  BY <1>3 DEF Parts
<1> QED
  BY <1>3, <1>4, <1>5

LEMMA InlinedType ==
    ASSUME NEW files, NEW texts \in AllTexts(files), NEW Q, NEW paths \in Seq(Q)
    PROVE  Inlined(texts, paths) \in TextType(files)
<1>1. Parts(texts, paths) \in Seq(TextType(files))
  BY PartsType, Zenon
<1>2. FlattenSeq(Parts(texts, paths)) \in TextType(files)
  BY <1>1, FlattenHeadTail, Zenon DEF TextType
<1> QED
  BY <1>2, Zenon DEF Inlined, Parts

LEMMA PiecesType ==
    ASSUME NEW files, SourceShape(files), NEW texts \in AllTexts(files), NEW f \in DOMAIN files
    PROVE  /\ Pieces(files, texts, f) \in Seq(TextType(files))
           /\ Len(Pieces(files, texts, f)) = Len(files[f])
           /\ FlattenSeq(Pieces(files, texts, f)) \in TextType(files)
<1>1. Len(files[f]) \in Nat /\ DOMAIN files[f] = 1 .. Len(files[f])
  BY LineTypes, Zenon
<1>2. ASSUME NEW i \in 1 .. Len(files[f]) PROVE Pieces(files, texts, f)[i] \in TextType(files)
  <2>1. CASE files[f][i].kind = "text"
    <3>1. Pieces(files, texts, f)[i] = << <<f, i>> >>
      BY <1>1, <2>1 DEF Pieces
    <3>2. i \in Nat
      BY <1>1
    <3>3. << <<f, i>> >> \in Seq((DOMAIN files) \X Nat)
      <4>1. <<f, i>> \in (DOMAIN files) \X Nat
        BY <3>2, Zenon
      <4> QED
        BY <4>1
    <3> QED
      BY <3>1, <3>3 DEF TextType, Texts
  <2>2. CASE files[f][i].kind # "text"
    <3>1. files[f][i].paths \in Seq(Paths(files))
      BY <1>1, <2>2, LineTypes, Zenon
    <3>2. Pieces(files, texts, f)[i] = Inlined(texts, files[f][i].paths)
      BY <1>1, <2>2 DEF Pieces
    <3> QED
      BY <3>1, <3>2, InlinedType, Zenon
  <2> QED
    BY <2>1, <2>2
<1>3. Pieces(files, texts, f) = [i \in 1 .. Len(files[f]) |-> Pieces(files, texts, f)[i]]
  BY <1>1 DEF Pieces
<1>4. Pieces(files, texts, f) \in Seq(TextType(files)) /\ Len(Pieces(files, texts, f)) = Len(files[f])
  BY <1>1, <1>2, <1>3
<1>5. FlattenSeq(Pieces(files, texts, f)) \in TextType(files)
  BY <1>4, FlattenHeadTail, Zenon DEF TextType
<1> QED
  BY <1>4, <1>5

\* e[d] is what every file expands to, d levels deep.
Expands(e, files) ==
    /\ e \in [0 .. Cardinality(DOMAIN files) -> AllTexts(files)]
    /\ \A d \in 1 .. Cardinality(DOMAIN files), f \in DOMAIN files :
         e[d][f] = FlattenSeq(Pieces(files, e[d - 1], f))
    /\ Expansion(files) = e[Cardinality(DOMAIN files)]

LEMMA ExpansionsExist ==
    ASSUME NEW files, SourceShape(files)
    PROVE  \E e : Expands(e, files)
<1> DEFINE N == Cardinality(DOMAIN files)
           X == AllTexts(files)
           none == [f \in DOMAIN files |-> <<>>]
           step == [xd \in X \X (1 .. N) |-> [f \in DOMAIN files |-> FlattenSeq(Pieces(files, xd[1], f))]]
           Fits(e) == e = [d \in 0 .. N |-> [f \in DOMAIN files |->
                             IF d = 0 THEN <<>> ELSE FlattenSeq(Pieces(files, e[d - 1], f))]]
<1>1. N \in Nat
  BY FS_CardinalityType DEF SourceShape
<1>2. none \in X
  BY EmptyText DEF AllTexts, TextType
<1>3. step \in [X \X (1 .. N) -> X]
  <2> SUFFICES ASSUME NEW xd \in X \X (1 .. N), NEW f \in DOMAIN files
               PROVE  FlattenSeq(Pieces(files, xd[1], f)) \in TextType(files)
    BY DEF AllTexts
  <2>1. xd[1] \in AllTexts(files)
    OBVIOUS
  <2> QED
    BY <2>1, PiecesType, Zenon
<1>4. \A x \in X, d \in 1 .. N : step[<<x, d>>] = [f \in DOMAIN files |-> FlattenSeq(Pieces(files, x, f))]
  OBVIOUS
<1>5. PICK g : Iterates(g, X, none, N, step)
  <2> HIDE DEF N, X, none, step
  <2> QED
    BY <1>1, <1>2, <1>3, IterationExists, Zenon
<1>6. g \in [0 .. N -> X] /\ g[0] = none /\ \A d \in 1 .. N : g[d] = step[<<g[d - 1], d>>]
  BY <1>5, Zenon DEF Iterates
<1>7. \A d \in 1 .. N : d - 1 \in 0 .. N /\ g[d - 1] \in X
  BY <1>1, <1>6
<1>8. \A d \in 1 .. N : g[d] = [f \in DOMAIN files |-> FlattenSeq(Pieces(files, g[d - 1], f))]
  <2> HIDE DEF N, X, step
  <2> QED
    BY <1>4, <1>6, <1>7, Zenon
<1>9. Fits(g)
  <2> SUFFICES ASSUME NEW d \in 0 .. N
               PROVE  g[d] = [f \in DOMAIN files |->
                                IF d = 0 THEN <<>> ELSE FlattenSeq(Pieces(files, g[d - 1], f))]
    BY <1>6
  <2>1. CASE d = 0
    BY <2>1, <1>6
  <2>2. CASE d # 0
    <3>1. d \in 1 .. N
      BY <1>1, <2>2
    <3> QED
      BY <3>1, <2>2, <1>8
  <2> QED
    BY <2>1, <2>2
<1> DEFINE e == CHOOSE x : Fits(x)
<1>10. Fits(e)
  BY <1>9, Zenon
<1>11. Expansion(files) = e[N]
  BY Zenon DEF Expansion
<1> HIDE DEF e, N, step, none, X
<1> DEFINE S == {d \in Nat : e[d] = g[d]}
<1>12. 0 \in S
  BY <1>1, <1>10, <1>6 DEF none
<1>13. \A d \in Nat : d < N /\ d \in S => d + 1 \in S
  <2> SUFFICES ASSUME NEW d \in Nat, d < N, e[d] = g[d] PROVE e[d + 1] = g[d + 1]
    OBVIOUS
  <2>1. d + 1 \in 1 .. N /\ d + 1 \in 0 .. N /\ (d + 1) - 1 = d /\ d + 1 # 0
    BY <1>1
  <2>2. e[d + 1] = [f \in DOMAIN files |-> FlattenSeq(Pieces(files, e[d], f))]
    BY <2>1, <1>10
  <2>3. g[d + 1] = [f \in DOMAIN files |-> FlattenSeq(Pieces(files, g[d], f))]
    BY <2>1, <1>8
  <2> QED
    BY <2>2, <2>3
<1> HIDE DEF S
<1>14. \A d \in 0 .. N : d \in S
  BY <1>1, <1>12, <1>13, BoundedInduction, Zenon
<1>15. \A d \in 0 .. N : e[d] = g[d]
  BY <1>14 DEF S
<1>16. Expansion(files) = g[N]
  BY <1>1, <1>11, <1>15
<1>17. ASSUME NEW d \in 1 .. N, NEW f \in DOMAIN files
       PROVE  g[d][f] = FlattenSeq(Pieces(files, g[d - 1], f))
  BY <1>8
<1> QED
  BY <1>6, <1>16, <1>17, Zenon DEF Expands, N, X

-----------------------------------------------------------------------------
(* The calls of preprocess_source_inner.                                   *)

Frames(files) == [file : DOMAIN files, line : Nat \ {0}, pending : Seq(Paths(files))]

\* What a call has yet to produce when included files expand to texts.
Left(files, texts, frame) ==
    Cat(Inlined(texts, frame.pending),
        FlattenSeq(SubSeq(Pieces(files, texts, frame.file), frame.line, Len(files[frame.file]))))

\* The call stack cs: each file includes the next, no file is there twice.
Stacked(files, cs, stack) ==
    /\ cs \in Seq(Frames(files)) /\ Len(cs) >= 1
    /\ stack \in Seq(DOMAIN files) /\ Len(stack) = Len(cs)
    /\ \A i \in 1 .. Len(cs) :
         /\ stack[i] = cs[i].file
         /\ cs[i].line <= Len(files[cs[i].file]) + 1
         /\ Range(cs[i].pending) \subseteq IncludedBy(files, cs[i].file)
    /\ \A i \in 1 .. Len(cs) - 1 : stack[i + 1] \in IncludedBy(files, stack[i])
    /\ \A i, j \in 1 .. Len(cs) : stack[i] = stack[j] => i = j

\* rest[i] is what the first i calls have yet to produce; the i-th call is i - 1 levels
\* deep, so what it includes is expanded to N - i levels.
Remains(files, e, cs, text, rest) ==
    /\ text \in TextType(files)
    /\ rest \in [0 .. Len(cs) -> TextType(files)] /\ rest[0] = <<>>
    /\ \A i \in 1 .. Len(cs) : rest[i] = Cat(Left(files, e[Cardinality(DOMAIN files) - i], cs[i]), rest[i - 1])
    /\ Cat(text, rest[Len(cs)]) = Expansion(files)[MainFile]

\* A stack without repetition is no deeper than there are files.
LEMMA StackFits ==
    ASSUME NEW files, SourceShape(files), NEW stack \in Seq(DOMAIN files),
           \A i, j \in 1 .. Len(stack) : stack[i] = stack[j] => i = j
    PROVE  Cardinality(DOMAIN files) \in Nat /\ Len(stack) <= Cardinality(DOMAIN files)
<1> DEFINE n == Len(stack)
           I == 1 .. n
           f == [i \in I |-> stack[i]]
<1>1. n \in Nat /\ IsFiniteSet(DOMAIN files)
  BY DEF SourceShape
<1>2. IsFiniteSet(I) /\ Cardinality(I) = n
  <2> HIDE DEF n
  <2>1. 1 \in Int /\ n \in Int
    BY <1>1
  <2>2. IsFiniteSet(1 .. n) /\ Cardinality(1 .. n) = IF 1 > n THEN 0 ELSE n - 1 + 1
    BY <2>1, FS_Interval
  <2> QED
    BY <1>1, <2>2
<1>3. f \in [I -> DOMAIN files] /\ \A i, j \in I : f[i] = f[j] => i = j
  OBVIOUS
<1>4. f \in Injection(I, DOMAIN files)
  <2> HIDE DEF I, f
  <2> QED
    BY <1>3 DEF Injection, IsInjective
<1>5. Cardinality(I) <= Cardinality(DOMAIN files)
  <2> HIDE DEF I, f
  <2> QED
    BY <1>1, <1>4, FS_Injection, Zenon
<1> QED
  BY <1>1, <1>2, <1>5, FS_CardinalityType

LEMMA VecIsFunction ==
    ASSUME NEW Q, NEW x \in Seq(Q)
    PROVE  x = [k \in 1 .. Len(x) |-> x[k]]
OBVIOUS

LEMMA InlinedSteps ==
    ASSUME NEW files, NEW texts \in AllTexts(files), NEW paths \in Seq(Paths(files))
    PROVE  /\ paths = <<>> => Inlined(texts, paths) = <<>>
           /\ paths # <<>> /\ Head(paths) \in DOMAIN files =>
                Inlined(texts, paths) = Cat(texts[Head(paths)], Inlined(texts, Tail(paths)))
<1> DEFINE s == Parts(texts, paths)
<1>1. s \in Seq(TextType(files)) /\ Len(s) = Len(paths)
  BY PartsType, Zenon
<1>2. Inlined(texts, paths) = FlattenSeq(s)
  BY Zenon DEF Inlined, Parts
<1>3. /\ s = <<>> => FlattenSeq(s) = <<>>
      /\ s # <<>> => FlattenSeq(s) = Cat(Head(s), FlattenSeq(Tail(s)))
  BY <1>1, FlattenHeadTail, Zenon DEF TextType
<1>4. ASSUME paths = <<>> PROVE Inlined(texts, paths) = <<>>
  <2>1. s = <<>>
    BY <1>1, <1>4
  <2> QED
    BY <2>1, <1>2, <1>3
<1>5. ASSUME paths # <<>>, Head(paths) \in DOMAIN files
      PROVE  Inlined(texts, paths) = Cat(texts[Head(paths)], Inlined(texts, Tail(paths)))
  <2>1. s # <<>> /\ Len(paths) \in Nat /\ Len(paths) > 0 /\ DOMAIN paths = 1 .. Len(paths) /\ Head(paths) = paths[1]
    BY <1>1, <1>5
  <2>2. DOMAIN texts = DOMAIN files
    BY DEF AllTexts
  <2>3. Head(s) = texts[Head(paths)]
    <3>1. Head(s) = s[1] /\ s[1] = IF paths[1] \in DOMAIN texts THEN texts[paths[1]] ELSE <<>>
      BY <1>1, <2>1 DEF Parts
    <3> QED
      BY <3>1, <2>1, <2>2, <1>5
  <2>4. Tail(s) = Parts(texts, Tail(paths))
    <3>1. Tail(paths) \in Seq(Paths(files)) /\ Len(Tail(paths)) = Len(paths) - 1
          /\ DOMAIN Tail(paths) = 1 .. Len(paths) - 1
          /\ \A k \in 1 .. Len(paths) - 1 : Tail(paths)[k] = paths[k + 1] /\ k + 1 \in 1 .. Len(paths)
      BY <2>1
    <3>2. Tail(s) = [k \in 1 .. Len(paths) - 1 |-> s[k + 1]]
      <4> HIDE DEF s
      <4>1. Len(s) \in Nat /\ Len(s) > 0 /\ Tail(s) \in Seq(TextType(files)) /\ Len(Tail(s)) = Len(s) - 1
        BY <1>1, <2>1
      <4>2. \A k \in 1 .. Len(s) - 1 : Tail(s)[k] = s[k + 1]
        BY <1>1, <4>1
      <4>3. Tail(s) = [k \in 1 .. Len(s) - 1 |-> Tail(s)[k]]
        BY <4>1, VecIsFunction, Zenon
      <4> QED
        BY <1>1, <4>2, <4>3, Zenon
    <3>3. \A k \in 1 .. Len(paths) - 1 :
            s[k + 1] = IF Tail(paths)[k] \in DOMAIN texts THEN texts[Tail(paths)[k]] ELSE <<>>
      BY <2>1, <3>1 DEF Parts
    <3>4. Parts(texts, Tail(paths)) =
            [k \in 1 .. Len(paths) - 1 |-> IF Tail(paths)[k] \in DOMAIN texts THEN texts[Tail(paths)[k]] ELSE <<>>]
      BY <3>1 DEF Parts
    <3> HIDE DEF s
    <3> QED
      BY <3>2, <3>3, <3>4, Zenon
  <2>5. Inlined(texts, Tail(paths)) = FlattenSeq(Parts(texts, Tail(paths)))
    BY Zenon DEF Inlined, Parts
  <2> QED
    BY <1>2, <1>3, <2>1, <2>3, <2>4, <2>5, Zenon
<1> QED
  BY <1>4, <1>5

LEMMA LinesSteps ==
    ASSUME NEW T, NEW p \in Seq(Texts(T)), NEW l \in Nat \ {0}, l <= Len(p) + 1
    PROVE  /\ SubSeq(p, l, Len(p)) \in Seq(Texts(T))
           /\ FlattenSeq(SubSeq(p, l, Len(p))) \in Texts(T)
           /\ l > Len(p) => FlattenSeq(SubSeq(p, l, Len(p))) = <<>>
           /\ l <= Len(p) =>
                FlattenSeq(SubSeq(p, l, Len(p))) = Cat(p[l], FlattenSeq(SubSeq(p, l + 1, Len(p))))
<1> DEFINE n == Len(p)
           s == SubSeq(p, l, n)
<1>1. n \in Nat
  OBVIOUS
<1>2. /\ s \in Seq(Texts(T)) /\ (l > n => s = <<>>)
      /\ Len(s) = IF l <= n THEN n - l + 1 ELSE 0
      /\ \A k \in 1 .. n - l + 1 : s[k] = p[l + k - 1]
  BY <1>1
<1>3. /\ FlattenSeq(s) \in Texts(T)
      /\ s = <<>> => FlattenSeq(s) = <<>>
      /\ s # <<>> => FlattenSeq(s) = Cat(Head(s), FlattenSeq(Tail(s)))
  BY <1>2, FlattenHeadTail, Zenon
<1>4. ASSUME l <= n PROVE FlattenSeq(s) = Cat(p[l], FlattenSeq(SubSeq(p, l + 1, n)))
  <2>1. s # <<>> /\ Head(s) = p[l]
    <3> HIDE DEF s, n
    <3>1. 1 \in 1 .. n - l + 1 /\ l + 1 - 1 = l /\ Len(s) > 0
      BY <1>1, <1>2, <1>4
    <3>2. s[1] = p[l]
      BY <1>2, <3>1
    <3> QED
      BY <1>2, <3>1, <3>2
  <2>2. Tail(s) = SubSeq(p, l + 1, n)
    BY <1>1, <1>4
  <2> QED
    BY <1>3, <2>1, <2>2, Zenon
<1> QED
  BY <1>2, <1>3, <1>4

\* The frame a step of the topmost call leads to.
At(frame, line, pending) == [file |-> frame.file, line |-> line, pending |-> pending]

LEMMA RangeOfSequence == ASSUME NEW S, NEW s \in Seq(S) PROVE Range(s) \subseteq S
BY DEF Range

LEMMA RangeMemberOfNonempty == ASSUME NEW s, NEW x \in Range(s) PROVE s # <<>>
BY DEF Range

LEMMA RangeOfEmpty == ASSUME NEW S PROVE Range(<<>>) \subseteq S
BY DEF Range

LEMMA FrameFields ==
    ASSUME NEW files, NEW frame \in Frames(files)
    PROVE  /\ frame.file \in DOMAIN files /\ frame.line \in Nat \ {0}
           /\ frame.pending \in Seq(Paths(files)) /\ <<>> \in Seq(Paths(files))
BY DEF Frames

LEMMA FrameMoves ==
    ASSUME NEW files, NEW frame \in Frames(files), NEW l \in Nat \ {0}, NEW p \in Seq(Paths(files))
    PROVE  /\ At(frame, l, p) \in Frames(files)
           /\ At(frame, l, p).file = frame.file /\ At(frame, l, p).line = l /\ At(frame, l, p).pending = p
BY FrameFields DEF Frames, At

\* The updates of the model, as records.
LEMMA FrameUpdates ==
    ASSUME NEW files, NEW frame \in Frames(files)
    PROVE  /\ [frame EXCEPT !.line = @ + 1] = At(frame, frame.line + 1, frame.pending)
           /\ \A p : [frame EXCEPT !.pending = p] = At(frame, frame.line, p)
           /\ \A p : [frame EXCEPT !.pending = p, !.line = @ + 1] = At(frame, frame.line + 1, p)
<1> DEFINE next == frame.line + 1
<1>1. [frame EXCEPT !.line = next] = At(frame, next, frame.pending)
  <2> HIDE DEF next
  <2> QED
    BY DEF Frames, At
<1>2. ASSUME NEW p PROVE [frame EXCEPT !.pending = p] = At(frame, frame.line, p)
  BY DEF Frames, At
<1>3. ASSUME NEW p PROVE [frame EXCEPT !.pending = p, !.line = next] = At(frame, next, p)
  <2> DEFINE x == [frame EXCEPT !.pending = p, !.line = next]
  <2>1. DOMAIN frame = {"file", "line", "pending"}
    BY DEF Frames
  <2>2. x = [k \in DOMAIN frame |-> IF k = "line" THEN next ELSE IF k = "pending" THEN p ELSE frame[k]]
    <3> HIDE DEF next
    <3> QED
      BY <2>1
  <2> HIDE DEF x, next
  <2>3. x = At(frame, next, p)
    BY <2>1, <2>2 DEF At
  <2> QED
    BY <2>3 DEF x, next
<1> QED
  BY <1>1, <1>2, <1>3

LEMMA LeftParts ==
    ASSUME NEW files, SourceShape(files), NEW texts \in AllTexts(files), NEW frame \in Frames(files),
           frame.line <= Len(files[frame.file]) + 1
    PROVE  /\ Inlined(texts, frame.pending) \in TextType(files)
           /\ FlattenSeq(SubSeq(Pieces(files, texts, frame.file), frame.line, Len(files[frame.file]))) \in TextType(files)
           /\ Left(files, texts, frame) \in TextType(files)
<1> DEFINE f == frame.file
           p == Pieces(files, texts, f)
<1>1. f \in DOMAIN files /\ frame.line \in Nat \ {0} /\ frame.pending \in Seq(Paths(files))
  BY FrameFields, Zenon
<1>2. p \in Seq(TextType(files)) /\ Len(p) = Len(files[f])
  BY <1>1, PiecesType, Zenon
<1>3. Inlined(texts, frame.pending) \in TextType(files)
  BY <1>1, InlinedType, Zenon
<1> HIDE DEF p
<1>4. FlattenSeq(SubSeq(p, frame.line, Len(p))) \in TextType(files)
  <2>1. frame.line <= Len(p) + 1
    BY <1>2
  <2> QED
    BY <1>1, <1>2, <2>1, LinesSteps, Zenon DEF TextType
<1>5. Left(files, texts, frame) \in TextType(files)
  BY <1>2, <1>3, <1>4, CatType, Zenon DEF Left, p, TextType
<1> QED
  BY <1>2, <1>3, <1>4, <1>5, Zenon DEF p

\* A line that is next, and what it contributes.
LEMMA LeftOfLine ==
    ASSUME NEW files, SourceShape(files), NEW texts \in AllTexts(files), NEW frame \in Frames(files),
           frame.pending = <<>>, frame.line <= Len(files[frame.file])
    PROVE  Left(files, texts, frame) =
             Cat(Pieces(files, texts, frame.file)[frame.line],
                 FlattenSeq(SubSeq(Pieces(files, texts, frame.file), frame.line + 1, Len(files[frame.file]))))
<1> DEFINE f == frame.file
           l == frame.line
           p == Pieces(files, texts, f)
           n == Len(files[f])
<1>1. f \in DOMAIN files /\ l \in Nat \ {0} /\ frame.pending \in Seq(Paths(files))
  BY FrameFields, Zenon
<1>2. p \in Seq(TextType(files)) /\ Len(p) = n
  BY <1>1, PiecesType, Zenon
<1>3. Inlined(texts, frame.pending) = <<>>
  BY <1>1, InlinedSteps, Zenon
<1>4. n \in Nat
  BY <1>1, LineTypes, Zenon
<1>5. Left(files, texts, frame) = Cat(<<>>, FlattenSeq(SubSeq(p, l, n)))
  BY <1>3, Zenon DEF Left
<1>6. l <= n /\ l <= n + 1
  BY <1>1, <1>4
<1> HIDE DEF p, n, f, l
<1>7. /\ FlattenSeq(SubSeq(p, l, n)) \in TextType(files)
      /\ FlattenSeq(SubSeq(p, l, n)) = Cat(p[l], FlattenSeq(SubSeq(p, l + 1, n)))
  BY <1>1, <1>2, <1>6, LinesSteps, Zenon DEF TextType
<1>8. Cat(<<>>, FlattenSeq(SubSeq(p, l, n))) = FlattenSeq(SubSeq(p, l, n))
  BY <1>7, CatEmpty, Zenon DEF TextType
<1> QED
  BY <1>5, <1>7, <1>8, Zenon DEF p, n, f, l

LEMMA LeftOfText ==
    ASSUME NEW files, SourceShape(files), NEW texts \in AllTexts(files), NEW frame \in Frames(files),
           frame.pending = <<>>, frame.line <= Len(files[frame.file]),
           files[frame.file][frame.line].kind = "text"
    PROVE  /\ << <<frame.file, frame.line>> >> \in TextType(files)
           /\ Left(files, texts, frame) =
                Cat(<< <<frame.file, frame.line>> >>, Left(files, texts, At(frame, frame.line + 1, <<>>)))
<1> DEFINE f == frame.file
           l == frame.line
           p == Pieces(files, texts, f)
           n == Len(files[f])
           more == FlattenSeq(SubSeq(p, l + 1, n))
           next == At(frame, l + 1, <<>>)
<1>0. f \in DOMAIN files /\ l \in Nat \ {0} /\ <<>> \in Seq(Paths(files))
  BY FrameFields, Zenon
<1>1. f \in DOMAIN files /\ l \in Nat /\ l >= 1 /\ <<>> \in Seq(Paths(files))
  BY <1>0
<1>2. n \in Nat /\ DOMAIN files[f] = 1 .. n
  BY <1>1, LineTypes, Zenon
<1>3. l \in 1 .. n
  BY <1>1, <1>2
<1>4. p[l] = << <<f, l>> >>
  BY <1>2, <1>3 DEF Pieces
<1>5. << <<f, l>> >> \in TextType(files)
  <2>1. <<f, l>> \in (DOMAIN files) \X Nat
    BY <1>1, Zenon
  <2> HIDE DEF f, l
  <2> QED
    BY <2>1 DEF TextType, Texts
<1>6. next \in Frames(files) /\ next.file = f /\ next.line = l + 1 /\ next.pending = <<>>
  <2>1. l + 1 \in Nat \ {0}
    BY <1>1
  <2> QED
    <3>1. \A k \in Nat \ {0}, q \in Seq(Paths(files)) :
            /\ At(frame, k, q) \in Frames(files)
            /\ At(frame, k, q).file = frame.file /\ At(frame, k, q).line = k /\ At(frame, k, q).pending = q
      BY FrameMoves
    <3> QED
      BY <1>1, <2>1, <3>1
<1>7. next.line <= Len(files[next.file]) + 1
  BY <1>2, <1>3, <1>6
<1>8. Inlined(texts, next.pending) = <<>> /\ more \in TextType(files)
  <2> HIDE DEF next
  <2>1. next.pending \in Seq(Paths(files))
    BY <1>1, <1>6
  <2>2. Inlined(texts, next.pending) = <<>>
    BY <1>6, <2>1, InlinedSteps, Zenon
  <2>3. FlattenSeq(SubSeq(Pieces(files, texts, next.file), next.line, Len(files[next.file]))) \in TextType(files)
    BY <1>6, <1>7, LeftParts, Zenon
  <2> QED
    BY <1>6, <2>2, <2>3, Zenon
<1>9. Left(files, texts, next) = more
  <2> HIDE DEF next, more
  <2>1. Left(files, texts, next) = Cat(<<>>, more)
    BY <1>6, <1>8, Zenon DEF Left, more
  <2> QED
    BY <1>8, <2>1, CatEmpty, Zenon DEF TextType
<1>10. Left(files, texts, frame) = Cat(p[l], more)
  BY LeftOfLine, Zenon
<1> HIDE DEF next, more, p
<1> QED
  BY <1>4, <1>5, <1>9, <1>10, Zenon DEF next

LEMMA LeftOfInclude ==
    ASSUME NEW files, SourceShape(files), NEW texts \in AllTexts(files), NEW frame \in Frames(files),
           frame.pending = <<>>, frame.line <= Len(files[frame.file]),
           files[frame.file][frame.line].kind = "include"
    PROVE  Left(files, texts, frame) =
             Left(files, texts, At(frame, frame.line + 1, files[frame.file][frame.line].paths))
<1> DEFINE f == frame.file
           l == frame.line
           p == Pieces(files, texts, f)
           n == Len(files[f])
           paths == files[f][l].paths
           next == At(frame, l + 1, paths)
<1>0. f \in DOMAIN files /\ l \in Nat \ {0}
  BY FrameFields, Zenon
<1>1. f \in DOMAIN files /\ l \in Nat /\ l >= 1
  BY <1>0
<1>2. n \in Nat /\ DOMAIN files[f] = 1 .. n
  BY <1>1, LineTypes, Zenon
<1>3. l \in 1 .. n
  BY <1>1, <1>2
<1>4. p[l] = Inlined(texts, paths)
  BY <1>2, <1>3 DEF Pieces
<1>5. next.file = f /\ next.line = l + 1 /\ next.pending = paths
  BY DEF At
<1> HIDE DEF next, paths
<1>6. Left(files, texts, next) = Cat(Inlined(texts, paths), FlattenSeq(SubSeq(p, l + 1, n)))
  BY <1>5, Zenon DEF Left
<1>7. Left(files, texts, frame) = Cat(p[l], FlattenSeq(SubSeq(p, l + 1, n)))
  BY LeftOfLine, Zenon
<1> HIDE DEF p
<1> QED
  BY <1>4, <1>6, <1>7, Zenon DEF next, paths

LEMMA LeftOfOpen ==
    ASSUME NEW files, SourceShape(files), NEW texts \in AllTexts(files), NEW frame \in Frames(files),
           frame.line <= Len(files[frame.file]) + 1,
           frame.pending # <<>>, Head(frame.pending) \in DOMAIN files
    PROVE  Left(files, texts, frame) =
             Cat(texts[Head(frame.pending)], Left(files, texts, At(frame, frame.line, Tail(frame.pending))))
<1> DEFINE f == frame.file
           l == frame.line
           pending == frame.pending
           lines == FlattenSeq(SubSeq(Pieces(files, texts, f), l, Len(files[f])))
           next == At(frame, l, Tail(pending))
<1>1. pending \in Seq(Paths(files)) /\ pending # <<>> /\ Tail(pending) \in Seq(Paths(files))
  <2>1. pending \in Seq(Paths(files))
    BY FrameFields, Zenon
  <2> HIDE DEF pending
  <2>2. pending # <<>>
    BY DEF pending
  <2> QED
    BY <2>1, <2>2
<1>2. Inlined(texts, pending) = Cat(texts[Head(pending)], Inlined(texts, Tail(pending)))
  BY <1>1, InlinedSteps, Zenon
<1>3. next.file = f /\ next.line = l /\ next.pending = Tail(pending)
  BY DEF At
<1>4. lines \in TextType(files)
  BY LeftParts, Zenon
<1>5. Inlined(texts, Tail(pending)) \in TextType(files)
  BY <1>1, InlinedType, Zenon
<1>6. texts[Head(pending)] \in TextType(files)
  BY DEF AllTexts
<1>7. Left(files, texts, frame) = Cat(Inlined(texts, pending), lines)
  BY Zenon DEF Left
<1> HIDE DEF next
<1>8. Left(files, texts, next) = Cat(Inlined(texts, Tail(pending)), lines)
  BY <1>3, Zenon DEF Left
<1> HIDE DEF pending, lines
<1>9. Cat(Cat(texts[Head(pending)], Inlined(texts, Tail(pending))), lines) =
        Cat(texts[Head(pending)], Cat(Inlined(texts, Tail(pending)), lines))
  BY <1>4, <1>5, <1>6, CatAssociative DEF TextType
<1> QED
  BY <1>2, <1>7, <1>8, <1>9, Zenon DEF next, pending

LEMMA LeftOfEnd ==
    ASSUME NEW files, SourceShape(files), NEW texts \in AllTexts(files), NEW frame \in Frames(files),
           frame.pending = <<>>, frame.line = Len(files[frame.file]) + 1
    PROVE  Left(files, texts, frame) = <<>>
<1> DEFINE f == frame.file
           l == frame.line
           p == Pieces(files, texts, f)
<1>1. f \in DOMAIN files /\ l \in Nat \ {0} /\ frame.pending \in Seq(Paths(files))
  BY FrameFields, Zenon
<1>2. p \in Seq(TextType(files)) /\ Len(p) = Len(files[f])
  BY <1>1, PiecesType, Zenon
<1>3. Inlined(texts, frame.pending) = <<>>
  BY <1>1, InlinedSteps, Zenon
<1>4. Left(files, texts, frame) = Cat(<<>>, FlattenSeq(SubSeq(p, l, Len(files[f]))))
  BY <1>3, Zenon DEF Left
<1>5. Len(files[f]) \in Nat
  BY <1>1, LineTypes, Zenon
<1>6. l > Len(p) /\ l <= Len(p) + 1
  BY <1>2, <1>5
<1> HIDE DEF p, f, l
<1>7. FlattenSeq(SubSeq(p, l, Len(p))) = <<>>
  BY <1>1, <1>2, <1>6, LinesSteps, Zenon DEF TextType
<1>8. Cat(<<>>, <<>>) = <<>>
  <2>1. <<>> \in Texts({})
    BY EmptyText, Zenon
  <2> QED
    BY <2>1, CatEmpty, Zenon
<1> QED
  BY <1>2, <1>4, <1>7, <1>8

\* A call that begins has the whole of its file before it.
LEMMA LeftOfNew ==
    ASSUME NEW files, SourceShape(files), NEW texts \in AllTexts(files), NEW p \in DOMAIN files
    PROVE  LET frame == [file |-> p, line |-> 1, pending |-> <<>>] IN
             /\ frame \in Frames(files) /\ frame.line <= Len(files[frame.file]) + 1
             /\ Left(files, texts, frame) = FlattenSeq(Pieces(files, texts, p))
<1> DEFINE frame == [file |-> p, line |-> 1, pending |-> <<>>]
           s == Pieces(files, texts, p)
<1>1. <<>> \in Seq(Paths(files)) /\ frame.file = p /\ frame.line = 1 /\ frame.pending = <<>>
  OBVIOUS
<1>2. frame \in Frames(files)
  BY DEF Frames
<1>3. Len(files[p]) \in Nat
  BY LineTypes, Zenon
<1>4. s \in Seq(TextType(files)) /\ Len(s) = Len(files[p]) /\ FlattenSeq(s) \in TextType(files)
  BY PiecesType, Zenon
<1>5. Inlined(texts, <<>>) = <<>>
  BY <1>1, InlinedSteps, Zenon
<1> HIDE DEF frame
<1>6. Left(files, texts, frame) = Cat(<<>>, FlattenSeq(SubSeq(s, 1, Len(files[p]))))
  BY <1>1, <1>5, Zenon DEF Left
<1> HIDE DEF s
<1>7. SubSeq(s, 1, Len(s)) = s
  BY <1>4
<1>8. Cat(<<>>, FlattenSeq(s)) = FlattenSeq(s)
  BY <1>4, CatEmpty, Zenon DEF TextType
<1>9. frame.line <= Len(files[frame.file]) + 1
  BY <1>1, <1>3
<1> QED
  BY <1>2, <1>4, <1>6, <1>7, <1>8, <1>9, Zenon DEF frame, s

\* What every step needs of the topmost call.
LEMMA TopTypes ==
    ASSUME NEW files, SourceShape(files), NEW e, Expands(e, files), NEW cs, NEW stack, Stacked(files, cs, stack)
    PROVE  /\ Len(cs) \in Nat /\ Len(cs) >= 1 /\ Len(stack) = Len(cs) /\ DOMAIN cs = 1 .. Len(cs)
           /\ Cardinality(DOMAIN files) \in Nat /\ Len(cs) <= Cardinality(DOMAIN files)
           /\ \A i \in 1 .. Len(cs) : /\ cs[i] \in Frames(files) /\ cs[i].line <= Len(files[cs[i].file]) + 1
                                      /\ Cardinality(DOMAIN files) - i \in 0 .. Cardinality(DOMAIN files)
                                      /\ e[Cardinality(DOMAIN files) - i] \in AllTexts(files)
                                      /\ Left(files, e[Cardinality(DOMAIN files) - i], cs[i]) \in TextType(files)
<1> DEFINE N == Cardinality(DOMAIN files)
<1>1. cs \in Seq(Frames(files)) /\ Len(cs) >= 1 /\ stack \in Seq(DOMAIN files) /\ Len(stack) = Len(cs)
      /\ \A i, j \in 1 .. Len(stack) : stack[i] = stack[j] => i = j
  BY DEF Stacked
<1>2. Len(cs) \in Nat /\ DOMAIN cs = 1 .. Len(cs) /\ \A i \in 1 .. Len(cs) : cs[i] \in Frames(files)
  BY <1>1
<1>3. N \in Nat /\ Len(cs) <= N
  BY <1>1, StackFits
<1>4. ASSUME NEW i \in 1 .. Len(cs)
      PROVE  /\ cs[i].line <= Len(files[cs[i].file]) + 1
             /\ N - i \in 0 .. N /\ e[N - i] \in AllTexts(files)
             /\ Left(files, e[N - i], cs[i]) \in TextType(files)
  <2>1. cs[i].line <= Len(files[cs[i].file]) + 1
    BY DEF Stacked
  <2>2. N - i \in 0 .. N
    BY <1>2, <1>3
  <2>3. e[N - i] \in AllTexts(files)
    <3>1. e \in [0 .. N -> AllTexts(files)]
      BY Zenon DEF Expands
    <3> HIDE DEF N
    <3> QED
      BY <2>2, <3>1
  <2> DEFINE x == e[N - i]
             c == cs[i]
  <2>4. c \in Frames(files) /\ x \in AllTexts(files) /\ c.line <= Len(files[c.file]) + 1
    BY <1>2, <2>1, <2>3
  <2> HIDE DEF x, c
  <2>5. Left(files, x, c) \in TextType(files)
    BY <2>4, LeftParts, Zenon
  <2> QED
    BY <2>1, <2>2, <2>3, <2>5 DEF x, c
<1> HIDE DEF N
<1> QED
  BY <1>1, <1>2, <1>3, <1>4 DEF N

\* Putting four texts together.
LEMMA CatFour ==
    ASSUME NEW T, NEW a \in Texts(T), NEW b \in Texts(T), NEW c \in Texts(T), NEW d \in Texts(T)
    PROVE  /\ Cat(Cat(a, b), Cat(c, d)) = Cat(a, Cat(Cat(b, c), d))
           /\ Cat(a, Cat(b, Cat(c, d))) = Cat(a, Cat(Cat(b, c), d))
<1>1. Cat(c, d) \in Texts(T)
  BY CatType
<1>2. Cat(Cat(a, b), Cat(c, d)) = Cat(a, Cat(b, Cat(c, d)))
  BY <1>1, CatAssociative
<1>3. Cat(Cat(b, c), d) = Cat(b, Cat(c, d))
  BY CatAssociative
<1> QED
  BY <1>2, <1>3

\* The topmost call goes on, having produced y.
LEMMA TopChanges ==
    ASSUME NEW files, SourceShape(files), NEW e, Expands(e, files), NEW cs, NEW stack, Stacked(files, cs, stack),
           NEW text, NEW rest, Remains(files, e, cs, text, rest),
           NEW frame \in Frames(files), frame.file = cs[Len(cs)].file,
           frame.line <= Len(files[frame.file]) + 1,
           Range(frame.pending) \subseteq IncludedBy(files, frame.file),
           NEW y \in TextType(files),
           LET texts == e[Cardinality(DOMAIN files) - Len(cs)] IN
             Left(files, texts, cs[Len(cs)]) = Cat(y, Left(files, texts, frame))
    PROVE  LET next == [cs EXCEPT ![Len(cs)] = frame] IN
             /\ Stacked(files, next, stack)
             /\ \E r : Remains(files, e, next, Cat(text, y), r)
<1> DEFINE N == Cardinality(DOMAIN files)
           n == Len(cs)
           next == [cs EXCEPT ![n] = frame]
           texts == e[N - n]
           left == Left(files, texts, frame)
           r == [rest EXCEPT ![n] = Cat(left, rest[n - 1])]
           T == (DOMAIN files) \X Nat
<1>1. /\ n \in Nat /\ n >= 1 /\ Len(stack) = n /\ DOMAIN cs = 1 .. n
      /\ N \in Nat /\ n <= N
      /\ \A i \in 1 .. n : cs[i] \in Frames(files)
  BY TopTypes, Zenon
<1>2. texts \in AllTexts(files) /\ Left(files, texts, cs[n]) \in TextType(files)
  <2>1. n \in 1 .. n
    BY <1>1
  <2> QED
    BY <2>1, TopTypes, Zenon
<1>3. next \in Seq(Frames(files)) /\ Len(next) = n /\ next[n] = frame /\ \A i \in 1 .. n - 1 : next[i] = cs[i]
  <2>1. cs \in Seq(Frames(files))
    BY Zenon DEF Stacked
  <2> QED
    BY <1>1, <2>1
<1> HIDE DEF next
<1>4. Stacked(files, next, stack)
  <2>1. /\ stack \in Seq(DOMAIN files)
        /\ \A i \in 1 .. n - 1 : stack[i + 1] \in IncludedBy(files, stack[i])
        /\ \A i, j \in 1 .. n : stack[i] = stack[j] => i = j
    BY DEF Stacked
  <2>2. ASSUME NEW i \in 1 .. n
        PROVE  /\ stack[i] = next[i].file /\ next[i].line <= Len(files[next[i].file]) + 1
               /\ Range(next[i].pending) \subseteq IncludedBy(files, next[i].file)
    <3>1. stack[i] = cs[i].file /\ cs[i].line <= Len(files[cs[i].file]) + 1
          /\ Range(cs[i].pending) \subseteq IncludedBy(files, cs[i].file)
      BY Zenon DEF Stacked
    <3>2. CASE i = n
      BY <1>3, <3>1, <3>2
    <3>3. CASE i # n
      <4>1. next[i] = cs[i]
        BY <1>1, <1>3, <3>3
      <4> QED
        BY <3>1, <4>1
    <3> QED
      BY <3>2, <3>3
  <2> QED
    BY <1>1, <1>3, <2>1, <2>2 DEF Stacked
<1>5. left \in TextType(files)
  BY <1>2, LeftParts, Zenon
<1>6. /\ text \in TextType(files) /\ rest \in [0 .. n -> TextType(files)] /\ rest[0] = <<>>
      /\ \A i \in 1 .. n : rest[i] = Cat(Left(files, e[N - i], cs[i]), rest[i - 1])
      /\ Cat(text, rest[n]) = Expansion(files)[MainFile]
  BY Zenon DEF Remains
<1>7. n - 1 \in 0 .. n /\ n \in 0 .. n /\ n # 0 /\ rest[n - 1] \in TextType(files)
      /\ rest[n] = Cat(Left(files, texts, cs[n]), rest[n - 1])
  BY <1>1, <1>6
<1>8. Cat(left, rest[n - 1]) \in TextType(files) /\ Cat(text, y) \in TextType(files)
  BY <1>5, <1>6, <1>7, CatType DEF TextType
<1> HIDE DEF left
<1>9. r \in [0 .. n -> TextType(files)] /\ r[0] = <<>> /\ r[n] = Cat(left, rest[n - 1])
      /\ \A i \in 0 .. n - 1 : r[i] = rest[i]
  BY <1>1, <1>6, <1>7, <1>8
<1> HIDE DEF r, texts
<1>10. ASSUME NEW i \in 1 .. n PROVE r[i] = Cat(Left(files, e[N - i], next[i]), r[i - 1])
  <2>1. i - 1 \in 0 .. n - 1 /\ r[i - 1] = rest[i - 1]
    BY <1>1, <1>9
  <2>2. CASE i = n
    BY <1>3, <1>9, <2>1, <2>2 DEF left, texts
  <2>3. CASE i # n
    <3>1. i \in 0 .. n - 1 /\ next[i] = cs[i]
      BY <1>1, <1>3, <2>3
    <3> QED
      BY <1>6, <1>9, <2>1, <3>1
  <2> QED
    BY <2>2, <2>3
<1>11. Cat(Cat(text, y), r[n]) = Expansion(files)[MainFile]
  <2>1. Left(files, texts, cs[n]) = Cat(y, left)
    BY Zenon DEF texts, left
  <2> DEFINE q == rest[n - 1]
  <2>2. text \in Texts(T) /\ y \in Texts(T) /\ left \in Texts(T) /\ q \in Texts(T)
    BY <1>5, <1>6, <1>7, Zenon DEF TextType
  <2> HIDE DEF q, T
  <2>3. Cat(Cat(text, y), Cat(left, q)) = Cat(text, Cat(Cat(y, left), q))
    BY <2>2, CatFour
  <2> QED
    BY <1>6, <1>7, <1>9, <2>1, <2>3 DEF q
<1>12. Remains(files, e, next, Cat(text, y), r)
  BY <1>3, <1>8, <1>9, <1>10, <1>11, Zenon DEF Remains
<1> QED
  BY <1>4, <1>12 DEF next

\* What appending an element yields.
IsAppended(T, s, x, r) ==
    r \in Seq(T) /\ Len(r) = Len(s) + 1 /\ r[Len(s) + 1] = x /\ \A i \in 1 .. Len(s) : r[i] = s[i]

LEMMA Appended ==
    ASSUME NEW T, NEW s \in Seq(T), NEW x \in T
    PROVE  IsAppended(T, s, x, Append(s, x))
BY DEF IsAppended

\* The topmost call includes a file that is not being expanded.
LEMMA TopOpens ==
    ASSUME NEW files, SourceShape(files), NEW e, Expands(e, files), NEW cs, NEW stack, Stacked(files, cs, stack),
           NEW text, NEW rest, Remains(files, e, cs, text, rest),
           cs[Len(cs)].pending # <<>>, NEW p \in DOMAIN files, p = Head(cs[Len(cs)].pending), p \notin Range(stack),
           NEW next, next = Append([cs EXCEPT ![Len(cs)] = At(@, @.line, Tail(@.pending))],
                                   [file |-> p, line |-> 1, pending |-> <<>>])
    PROVE  /\ Stacked(files, next, Append(stack, p))
           /\ \E r : Remains(files, e, next, text, r)
<1> DEFINE N == Cardinality(DOMAIN files)
           n == Len(cs)
           top == cs[n]
           frame == At(top, top.line, Tail(top.pending))
           new == [file |-> p, line |-> 1, pending |-> <<>>]
           deeper == Append(stack, p)
           texts == e[N - n]
           left == Left(files, texts, frame)
           T == (DOMAIN files) \X Nat
<1>1. /\ n \in Nat /\ n >= 1 /\ Len(stack) = n /\ DOMAIN cs = 1 .. n /\ N \in Nat /\ n <= N
      /\ \A i \in 1 .. n : cs[i] \in Frames(files)
  BY TopTypes, Zenon
<1>2. n \in 1 .. n
  BY <1>1
<1>3. /\ top \in Frames(files) /\ top.line <= Len(files[top.file]) + 1
      /\ texts \in AllTexts(files) /\ Left(files, texts, top) \in TextType(files)
  BY <1>2, TopTypes, Zenon
<1>4. /\ top.file \in DOMAIN files /\ top.line \in Nat \ {0} /\ top.pending \in Seq(Paths(files))
  BY <1>3, FrameFields, Zenon
<1>5. /\ stack[n] = top.file /\ Range(top.pending) \subseteq IncludedBy(files, top.file)
      /\ stack \in Seq(DOMAIN files) /\ cs \in Seq(Frames(files))
      /\ \A i \in 1 .. n - 1 : stack[i + 1] \in IncludedBy(files, stack[i])
      /\ \A i, j \in 1 .. n : stack[i] = stack[j] => i = j
  BY <1>2, Zenon DEF Stacked
<1>6. Tail(top.pending) \in Seq(Paths(files)) /\ p \in IncludedBy(files, top.file)
      /\ Range(Tail(top.pending)) \subseteq IncludedBy(files, top.file)
  <2> DEFINE q == top.pending
  <2>1. q \in Seq(Paths(files)) /\ q # <<>> /\ p = Head(q) /\ Range(q) \subseteq IncludedBy(files, top.file)
    BY <1>4, <1>5
  <2> HIDE DEF q
  <2>2. Tail(q) \in Seq(Paths(files)) /\ Head(q) \in Range(q) /\ Range(Tail(q)) \subseteq Range(q)
    BY <2>1 DEF Range
  <2> QED
    BY <2>1, <2>2 DEF q
<1>7. frame \in Frames(files) /\ frame.file = top.file /\ frame.line = top.line /\ frame.pending = Tail(top.pending)
  <2>0. top.line \in Nat \ {0} /\ top \in Frames(files) /\ Tail(top.pending) \in Seq(Paths(files))
    BY <1>3, <1>4, <1>6
  <2> HIDE DEF top
  <2>1. \A k \in Nat \ {0}, q \in Seq(Paths(files)) :
          /\ At(top, k, q) \in Frames(files)
          /\ At(top, k, q).file = top.file /\ At(top, k, q).line = k /\ At(top, k, q).pending = q
    BY <2>0, FrameMoves
  <2> QED
    BY <2>0, <2>1, Zenon
<1>8. Left(files, texts, top) = Cat(texts[p], left)
  <2> HIDE DEF texts
  <2>1. top.pending # <<>> /\ p = Head(top.pending)
    OBVIOUS
  <2> HIDE DEF top
  <2> QED
    BY <1>3, <2>1, LeftOfOpen, Zenon
<1>9. new \in Frames(files) /\ new.file = p /\ new.line = 1 /\ new.pending = <<>>
  <2>1. new.file = p /\ new.line = 1 /\ new.pending = <<>>
    OBVIOUS
  <2> QED
    BY <1>3, <2>1, LeftOfNew, Zenon
<1>10. new.line <= Len(files[new.file]) + 1
  BY <1>3, LeftOfNew, Zenon
<1> HIDE DEF frame, new, top
<1>11. /\ next \in Seq(Frames(files)) /\ Len(next) = n + 1 /\ next[n + 1] = new /\ next[n] = frame
       /\ \A i \in 1 .. n - 1 : next[i] = cs[i]
  <2> DEFINE c == [cs EXCEPT ![n] = frame]
  <2>1. next = Append(c, new)
    BY Zenon DEF frame, new, top
  <2>2. c \in Seq(Frames(files)) /\ Len(c) = n /\ c[n] = frame /\ \A i \in 1 .. n - 1 : c[i] = cs[i]
    BY <1>1, <1>5, <1>7
  <2> HIDE DEF c
  <2>3. IsAppended(Frames(files), c, new, Append(c, new))
    <3>1. c \in Seq(Frames(files)) /\ new \in Frames(files)
      BY <1>9, <2>2, Zenon
    <3> QED
      BY <3>1, Appended, Zenon
  <2> DEFINE d == Append(c, new)
  <2>4. next = d
    BY <2>1
  <2> HIDE DEF d
  <2>5. /\ d \in Seq(Frames(files)) /\ Len(d) = n + 1 /\ d[n + 1] = new /\ \A i \in 1 .. n : d[i] = c[i]
    <3>1. IsAppended(Frames(files), c, new, d)
      BY <2>3, Zenon DEF d
    <3> QED
      BY <2>2, <3>1 DEF IsAppended
  <2>6. d[n] = frame /\ \A i \in 1 .. n - 1 : d[i] = cs[i]
    BY <1>1, <2>2, <2>5
  <2> QED
    BY <2>4, <2>5, <2>6, Zenon
<1>12. /\ deeper \in Seq(DOMAIN files) /\ Len(deeper) = n + 1 /\ deeper[n + 1] = p
       /\ \A i \in 1 .. n : deeper[i] = stack[i] /\ stack[i] # p
  <2>1. \A i \in 1 .. n : stack[i] # p
    BY <1>1, <1>5 DEF Range
  <2> QED
    BY <1>1, <1>5, <2>1
<1> HIDE DEF deeper
<1>13. \A i, j \in 1 .. n + 1 : deeper[i] = deeper[j] => i = j
  <2>1. \A i \in 1 .. n + 1 : i \in 1 .. n \/ i = n + 1
    BY <1>1
  <2>2. \A i, j \in 1 .. n : deeper[i] = deeper[j] => i = j
    BY <1>5, <1>12, Zenon
  <2>3. \A i \in 1 .. n : deeper[i] # deeper[n + 1]
    BY <1>12, Zenon
  <2> QED
    BY <2>1, <2>2, <2>3, Zenon
<1>14. Stacked(files, next, deeper)
  <2>1. ASSUME NEW i \in 1 .. n + 1
        PROVE  /\ deeper[i] = next[i].file /\ next[i].line <= Len(files[next[i].file]) + 1
               /\ Range(next[i].pending) \subseteq IncludedBy(files, next[i].file)
    <3>1. CASE i = n + 1
      <4>1. deeper[i] = p /\ next[i] = new
        BY <1>11, <1>12, <3>1, Zenon
      <4>2. Range(new.pending) \subseteq IncludedBy(files, new.file)
        BY <1>9, RangeOfEmpty, Zenon
      <4> QED
        BY <1>9, <1>10, <4>1, <4>2, Zenon
    <3>2. CASE i = n
      BY <1>2, <1>3, <1>5, <1>6, <1>7, <1>11, <1>12, <3>2
    <3>3. CASE i \notin {n, n + 1}
      <4>1. i \in 1 .. n - 1 /\ i \in 1 .. n /\ next[i] = cs[i] /\ deeper[i] = stack[i]
        BY <1>1, <1>11, <1>12, <3>3
      <4>2. stack[i] = cs[i].file /\ cs[i].line <= Len(files[cs[i].file]) + 1
            /\ Range(cs[i].pending) \subseteq IncludedBy(files, cs[i].file)
        BY <4>1, Zenon DEF Stacked
      <4> QED
        BY <4>1, <4>2
    <3> QED
      BY <3>1, <3>2, <3>3
  <2>2. ASSUME NEW i \in 1 .. (n + 1) - 1 PROVE deeper[i + 1] \in IncludedBy(files, deeper[i])
    <3>1. CASE i = n
      BY <1>2, <1>5, <1>6, <1>12, <3>1
    <3>2. CASE i # n
      <4>1. i \in 1 .. n - 1 /\ i \in 1 .. n /\ i + 1 \in 1 .. n
        BY <1>1, <3>2
      <4> QED
        BY <1>5, <1>12, <4>1
    <3> QED
      BY <3>1, <3>2
  <2>3. n + 1 >= 1
    BY <1>1
  <2> QED
    BY <1>11, <1>12, <1>13, <2>1, <2>2, <2>3, Zenon DEF Stacked
<1>15. n + 1 <= N
  BY <1>12, <1>13, StackFits
<1>16. N - n \in 1 .. N /\ (N - n) - 1 = N - (n + 1) /\ N - (n + 1) \in 0 .. N
  BY <1>1, <1>15
<1>17. texts[p] = FlattenSeq(Pieces(files, e[N - (n + 1)], p)) /\ e[N - (n + 1)] \in AllTexts(files)
  <2>1. /\ e \in [0 .. N -> AllTexts(files)]
        /\ \A d \in 1 .. N, f \in DOMAIN files : e[d][f] = FlattenSeq(Pieces(files, e[d - 1], f))
    BY Zenon DEF Expands
  <2> HIDE DEF N, n
  <2>2. texts[p] = FlattenSeq(Pieces(files, e[(N - n) - 1], p))
    BY <1>16, <2>1
  <2> QED
    BY <1>16, <2>1, <2>2
<1>18. Left(files, e[N - (n + 1)], new) = texts[p]
  <2> DEFINE x == e[N - (n + 1)]
  <2>1. x \in AllTexts(files) /\ texts[p] = FlattenSeq(Pieces(files, x, p))
    BY <1>17, Zenon
  <2> HIDE DEF x, texts
  <2>2. Left(files, x, new) = FlattenSeq(Pieces(files, x, p))
    BY <2>1, LeftOfNew, Zenon DEF new
  <2> QED
    BY <2>1, <2>2 DEF x
<1>19. texts[p] \in TextType(files)
  BY <1>3 DEF AllTexts
<1>20. left \in TextType(files)
  <2>1. frame.line <= Len(files[frame.file]) + 1
    BY <1>3, <1>7
  <2> QED
    BY <1>3, <1>7, <2>1, LeftParts, Zenon
<1>21. /\ text \in TextType(files) /\ rest \in [0 .. n -> TextType(files)] /\ rest[0] = <<>>
       /\ \A i \in 1 .. n : rest[i] = Cat(Left(files, e[N - i], cs[i]), rest[i - 1])
       /\ Cat(text, rest[n]) = Expansion(files)[MainFile]
  BY Zenon DEF Remains
<1> DEFINE q == rest[n - 1]
           x == texts[p]
<1>22. n - 1 \in 0 .. n /\ q \in TextType(files) /\ rest[n] = Cat(Left(files, texts, top), q)
  BY <1>1, <1>21 DEF top
<1>23. Cat(left, q) \in TextType(files)
  BY <1>20, <1>22, CatType DEF TextType
<1>24. Cat(x, Cat(left, q)) \in TextType(files)
  BY <1>19, <1>23, CatType DEF TextType
<1> HIDE DEF left, q, x
<1> DEFINE r == [i \in 0 .. n + 1 |-> IF i = n + 1 THEN Cat(x, Cat(left, q)) ELSE IF i = n THEN Cat(left, q) ELSE rest[i]]
<1>25. /\ r \in [0 .. n + 1 -> TextType(files)] /\ r[0] = <<>> /\ r[n + 1] = Cat(x, Cat(left, q))
       /\ r[n] = Cat(left, q) /\ \A i \in 0 .. n - 1 : r[i] = rest[i]
  BY <1>1, <1>21, <1>23, <1>24
<1> HIDE DEF r, texts
<1>26. ASSUME NEW i \in 1 .. n + 1 PROVE r[i] = Cat(Left(files, e[N - i], next[i]), r[i - 1])
  <2>1. CASE i = n + 1
    <3>1. i - 1 = n
      BY <1>1, <2>1
    <3> QED
      BY <1>11, <1>18, <1>25, <2>1, <3>1 DEF x
  <2>2. CASE i = n
    <3>1. i - 1 \in 0 .. n - 1
      BY <1>1, <2>2
    <3>2. r[i - 1] = q
      BY <1>25, <3>1, <2>2 DEF q
    <3> QED
      BY <1>11, <1>25, <2>2, <3>2 DEF left, texts
  <2>3. CASE i \notin {n, n + 1}
    <3>1. i \in 1 .. n - 1 /\ i \in 1 .. n /\ i \in 0 .. n - 1 /\ i - 1 \in 0 .. n - 1
      BY <1>1, <2>3
    <3> QED
      BY <1>11, <1>21, <1>25, <3>1
  <2> QED
    BY <2>1, <2>2, <2>3
<1>27. Cat(text, r[n + 1]) = Expansion(files)[MainFile]
  <2>1. text \in Texts(T) /\ x \in Texts(T) /\ left \in Texts(T) /\ q \in Texts(T)
    BY <1>19, <1>20, <1>21, <1>22, Zenon DEF TextType, x
  <2> HIDE DEF T
  <2>2. Cat(text, Cat(x, Cat(left, q))) = Cat(text, Cat(Cat(x, left), q))
    BY <2>1, CatFour
  <2> QED
    BY <1>8, <1>21, <1>22, <1>25, <2>2 DEF x
<1>28. Remains(files, e, next, text, r)
  BY <1>11, <1>21, <1>25, <1>26, <1>27, Zenon DEF Remains
<1> QED
  BY <1>14, <1>28 DEF deeper

\* The topmost call returns.
LEMMA TopReturns ==
    ASSUME NEW files, SourceShape(files), NEW e, Expands(e, files), NEW cs, NEW stack, Stacked(files, cs, stack),
           NEW text, NEW rest, Remains(files, e, cs, text, rest),
           cs[Len(cs)].pending = <<>>, cs[Len(cs)].line > Len(files[cs[Len(cs)].file])
    PROVE  /\ Len(cs) = 1 => text = Expansion(files)[MainFile]
           /\ Len(cs) > 1 =>
                /\ Stacked(files, SubSeq(cs, 1, Len(cs) - 1), SubSeq(stack, 1, Len(stack) - 1))
                /\ \E r : Remains(files, e, SubSeq(cs, 1, Len(cs) - 1), text, r)
<1> DEFINE N == Cardinality(DOMAIN files)
           n == Len(cs)
           top == cs[n]
           texts == e[N - n]
<1>1. /\ n \in Nat /\ n >= 1 /\ Len(stack) = n /\ DOMAIN cs = 1 .. n /\ N \in Nat
  BY TopTypes, Zenon
<1>2. n \in 1 .. n
  BY <1>1
<1>3. /\ top \in Frames(files) /\ top.line <= Len(files[top.file]) + 1 /\ texts \in AllTexts(files)
  BY <1>2, TopTypes, Zenon
<1>4. Left(files, texts, top) = <<>>
  <2> HIDE DEF texts
  <2>1. top.pending = <<>> /\ top.line > Len(files[top.file])
    OBVIOUS
  <2> HIDE DEF top
  <2>2. top.file \in DOMAIN files /\ top.line \in Nat \ {0}
    BY <1>3, FrameFields, Zenon
  <2>3. Len(files[top.file]) \in Nat
    BY <2>2, LineTypes, Zenon
  <2>4. top.line = Len(files[top.file]) + 1
    BY <1>3, <2>1, <2>2, <2>3
  <2> QED
    BY <1>3, <2>1, <2>4, LeftOfEnd, Zenon
<1>5. /\ text \in TextType(files) /\ rest \in [0 .. n -> TextType(files)] /\ rest[0] = <<>>
      /\ \A i \in 1 .. n : rest[i] = Cat(Left(files, e[N - i], cs[i]), rest[i - 1])
      /\ Cat(text, rest[n]) = Expansion(files)[MainFile]
  BY Zenon DEF Remains
<1>6. rest[n - 1] \in TextType(files) /\ rest[n] = Cat(<<>>, rest[n - 1])
  BY <1>1, <1>2, <1>4, <1>5
<1>7. Cat(<<>>, rest[n - 1]) = rest[n - 1] /\ Cat(text, <<>>) = text
  BY <1>5, <1>6, CatEmpty DEF TextType
<1>8. ASSUME n = 1 PROVE text = Expansion(files)[MainFile]
  BY <1>5, <1>6, <1>7, <1>8
<1>9. ASSUME n > 1
      PROVE  /\ Stacked(files, SubSeq(cs, 1, n - 1), SubSeq(stack, 1, Len(stack) - 1))
             /\ \E r : Remains(files, e, SubSeq(cs, 1, n - 1), text, r)
  <2> DEFINE c == SubSeq(cs, 1, n - 1)
             s == SubSeq(stack, 1, n - 1)
             r == [i \in 0 .. n - 1 |-> rest[i]]
  <2>1. cs \in Seq(Frames(files)) /\ stack \in Seq(DOMAIN files)
    BY Zenon DEF Stacked
  <2>2. c \in Seq(Frames(files)) /\ Len(c) = n - 1 /\ \A i \in 1 .. n - 1 : c[i] = cs[i]
    BY <1>1, <1>9, <2>1
  <2>3. s \in Seq(DOMAIN files) /\ Len(s) = n - 1 /\ \A i \in 1 .. n - 1 : s[i] = stack[i]
    BY <1>1, <1>9, <2>1
  <2> HIDE DEF c, s
  <2>4. \A i \in 1 .. n - 1 : i \in 1 .. n
    BY <1>1
  <2>5. \A i \in 1 .. (n - 1) - 1 : i \in 1 .. n - 1 /\ i + 1 \in 1 .. n - 1
    BY <1>1
  <2>6. Stacked(files, c, s)
    <3>1. \A i \in 1 .. n - 1 : /\ s[i] = c[i].file /\ c[i].line <= Len(files[c[i].file]) + 1
                                /\ Range(c[i].pending) \subseteq IncludedBy(files, c[i].file)
      BY <2>2, <2>3, <2>4 DEF Stacked
    <3>2. \A i \in 1 .. (n - 1) - 1 : s[i + 1] \in IncludedBy(files, s[i])
      BY <2>3, <2>5 DEF Stacked
    <3>3. \A i, j \in 1 .. n - 1 : s[i] = s[j] => i = j
      BY <2>3, <2>4 DEF Stacked
    <3>4. n - 1 >= 1
      BY <1>1, <1>9
    <3> QED
      BY <2>2, <2>3, <3>1, <3>2, <3>3, <3>4, Zenon DEF Stacked
  <2>7. r \in [0 .. n - 1 -> TextType(files)] /\ r[0] = <<>> /\ \A i \in 0 .. n - 1 : r[i] = rest[i]
    BY <1>1, <1>5
  <2> HIDE DEF r
  <2>8. \A i \in 1 .. n - 1 : r[i] = Cat(Left(files, e[N - i], c[i]), r[i - 1])
    <3>1. \A i \in 1 .. n - 1 : i \in 0 .. n - 1 /\ i - 1 \in 0 .. n - 1
      BY <1>1
    <3> QED
      BY <1>5, <2>2, <2>4, <2>7, <3>1, Zenon
  <2>9. Cat(text, r[n - 1]) = Expansion(files)[MainFile]
    <3>1. n - 1 \in 0 .. n - 1
      BY <1>1
    <3> QED
      BY <1>5, <1>6, <1>7, <2>7, <3>1
  <2>10. Remains(files, e, c, text, r)
    BY <1>5, <2>2, <2>7, <2>8, <2>9, Zenon DEF Remains
  <2> QED
    BY <1>1, <2>6, <2>10 DEF c, s
<1> QED
  BY <1>8, <1>9

\* load_from_path: the first call.
LEMMA LoadStarts ==
    ASSUME NEW files, SourceShape(files), NEW e, Expands(e, files)
    PROVE  LET cs == <<[file |-> MainFile, line |-> 1, pending |-> <<>>]>> IN
             /\ Stacked(files, cs, <<MainFile>>)
             /\ \E r : Remains(files, e, cs, <<>>, r)
<1> DEFINE N == Cardinality(DOMAIN files)
           new == [file |-> MainFile, line |-> 1, pending |-> <<>>]
           cs == <<new>>
           stack == <<MainFile>>
           texts == e[N - 1]
           left == Left(files, texts, new)
<1>1. MainFile \in DOMAIN files /\ IsFiniteSet(DOMAIN files)
  BY DEF SourceShape
<1>2. N \in Nat /\ N >= 1
  <2>1. N \in Nat
    BY <1>1, FS_CardinalityType
  <2>2. N # 0
    BY <1>1, FS_EmptySet
  <2> QED
    BY <2>1, <2>2
<1>3. /\ e \in [0 .. N -> AllTexts(files)]
      /\ \A d \in 1 .. N, f \in DOMAIN files : e[d][f] = FlattenSeq(Pieces(files, e[d - 1], f))
      /\ Expansion(files) = e[N]
  BY Zenon DEF Expands
<1>4. texts \in AllTexts(files) /\ e[N][MainFile] = FlattenSeq(Pieces(files, texts, MainFile))
  BY <1>1, <1>2, <1>3
<1>5. new \in Frames(files) /\ new.line <= Len(files[new.file]) + 1
      /\ Left(files, texts, new) = FlattenSeq(Pieces(files, texts, MainFile))
  BY <1>1, <1>4, LeftOfNew, Zenon
<1>6. new.file = MainFile /\ new.pending = <<>>
  OBVIOUS
<1>7. left \in TextType(files) /\ left = Expansion(files)[MainFile]
  <2>1. left \in TextType(files)
    BY <1>4, <1>5, LeftParts, Zenon
  <2> QED
    BY <2>1, <1>3, <1>4, <1>5
<1> HIDE DEF new, left
<1>8. Stacked(files, cs, stack)
  <2>1. cs \in Seq(Frames(files)) /\ Len(cs) = 1 /\ cs[1] = new
    BY <1>5
  <2>2. stack \in Seq(DOMAIN files) /\ Len(stack) = 1 /\ stack[1] = MainFile
    BY <1>1
  <2> HIDE DEF cs, stack
  <2>3. Range(cs[1].pending) = {}
    BY <1>6, <2>1 DEF Range
  <2> QED
    BY <1>5, <1>6, <2>1, <2>2, <2>3 DEF Stacked
<1> DEFINE r == [i \in 0 .. 1 |-> IF i = 0 THEN <<>> ELSE left]
<1>9. <<>> \in TextType(files)
  BY EmptyText, Zenon DEF TextType
<1>10. Cat(left, <<>>) = left /\ Cat(<<>>, left) = left
  BY <1>7, CatEmpty DEF TextType
<1>11. r \in [0 .. 1 -> TextType(files)] /\ r[0] = <<>> /\ r[1] = left
  BY <1>7, <1>9
<1> HIDE DEF r
<1>12. Remains(files, e, cs, <<>>, r)
  <2>1. Len(cs) = 1 /\ cs[1] = new
    OBVIOUS
  <2> HIDE DEF cs
  <2>2. ASSUME NEW i \in 1 .. Len(cs) PROVE r[i] = Cat(Left(files, e[N - i], cs[i]), r[i - 1])
    <3>1. i = 1 /\ i - 1 = 0
      BY <2>1
    <3> QED
      BY <1>10, <1>11, <2>1, <3>1 DEF left
  <2> QED
    BY <1>7, <1>9, <1>10, <1>11, <2>1, <2>2 DEF Remains
<1> QED
  BY <1>8, <1>12 DEF new

-----------------------------------------------------------------------------
(* What holds while the includes are expanded.                             *)

Expanding(files, cs, stack, text) ==
    /\ Stacked(files, cs, stack)
    /\ \E e, rest : Expands(e, files) /\ Remains(files, e, cs, text, rest)

\* The topmost call, and what its file is.
LEMMA TopFrame ==
    ASSUME NEW files, SourceShape(files), NEW cs, NEW stack, NEW text, Expanding(files, cs, stack, text)
    PROVE  /\ cs[Len(cs)] \in Frames(files) /\ Len(cs) \in Nat \ {0} /\ Len(cs) \in DOMAIN cs
           /\ Len(stack) = Len(cs) /\ stack \in Seq(DOMAIN files) /\ DOMAIN stack = 1 .. Len(cs)
           /\ cs[Len(cs)].file \in DOMAIN files /\ cs[Len(cs)].line \in Nat \ {0}
           /\ cs[Len(cs)].pending \in Seq(Paths(files))
           /\ stack[Len(cs)] = cs[Len(cs)].file
           /\ Range(cs[Len(cs)].pending) \subseteq IncludedBy(files, cs[Len(cs)].file)
           /\ \A i \in 1 .. Len(cs) - 1 : stack[i + 1] \in IncludedBy(files, stack[i])
           /\ text \in TextType(files)
<1>1. PICK e, rest : Stacked(files, cs, stack) /\ Expands(e, files) /\ Remains(files, e, cs, text, rest)
  BY Zenon DEF Expanding
<1>2. Len(cs) \in Nat /\ Len(cs) >= 1 /\ Len(stack) = Len(cs) /\ DOMAIN cs = 1 .. Len(cs)
  BY <1>1, TopTypes, Zenon
<1>3. Len(cs) \in 1 .. Len(cs)
  BY <1>2
<1>4. cs[Len(cs)] \in Frames(files)
  BY <1>1, <1>3, TopTypes, Zenon
<1>5. stack \in Seq(DOMAIN files) /\ stack[Len(cs)] = cs[Len(cs)].file
      /\ Range(cs[Len(cs)].pending) \subseteq IncludedBy(files, cs[Len(cs)].file)
      /\ \A i \in 1 .. Len(cs) - 1 : stack[i + 1] \in IncludedBy(files, stack[i])
  BY <1>1, <1>3, Zenon DEF Stacked
<1>6. text \in TextType(files)
  BY <1>1, Zenon DEF Remains
<1>7. cs[Len(cs)].file \in DOMAIN files /\ cs[Len(cs)].line \in Nat \ {0} /\ cs[Len(cs)].pending \in Seq(Paths(files))
  BY <1>4, FrameFields, Zenon
<1>8. Len(cs) \in Nat \ {0} /\ Len(cs) \in DOMAIN cs /\ DOMAIN stack = 1 .. Len(cs)
  BY <1>2, <1>3, <1>5
<1> QED
  BY <1>2, <1>4, <1>5, <1>6, <1>7, <1>8, Zenon

\* ExpandText
LEMMA AfterText ==
    ASSUME NEW files, SourceShape(files), NEW cs, NEW stack, NEW text, Expanding(files, cs, stack, text),
           cs[Len(cs)].pending = <<>>, cs[Len(cs)].line <= Len(files[cs[Len(cs)].file]),
           files[cs[Len(cs)].file][cs[Len(cs)].line].kind = "text"
    PROVE  Expanding(files, [cs EXCEPT ![Len(cs)].line = @ + 1], stack,
                     Append(text, <<cs[Len(cs)].file, cs[Len(cs)].line>>))
<1> DEFINE top == cs[Len(cs)]
           frame == At(top, top.line + 1, <<>>)
           line == <<top.file, top.line>>
           y == << line >>
<1>1. PICK e, rest : Stacked(files, cs, stack) /\ Expands(e, files) /\ Remains(files, e, cs, text, rest)
  BY Zenon DEF Expanding
<1> DEFINE texts == e[Cardinality(DOMAIN files) - Len(cs)]
<1>2. top \in Frames(files) /\ top.file \in DOMAIN files /\ top.line \in Nat \ {0} /\ text \in TextType(files)
  BY TopFrame, Zenon
<1>3. top.pending = <<>> /\ top.line <= Len(files[top.file]) /\ files[top.file][top.line].kind = "text"
  OBVIOUS
<1>4. texts \in AllTexts(files)
  <2>1. Len(cs) \in 1 .. Len(cs)
    <3>1. Len(cs) \in Nat \ {0}
      BY TopFrame, Zenon
    <3> QED
      BY <3>1
  <2> QED
    BY <1>1, <2>1, TopTypes, Zenon
<1>5. [cs EXCEPT ![Len(cs)].line = @ + 1] = [cs EXCEPT ![Len(cs)] = frame]
  <2>1. [top EXCEPT !.line = @ + 1] = At(top, top.line + 1, top.pending)
    BY <1>2, FrameUpdates, Zenon
  <2>2. [top EXCEPT !.line = @ + 1] = frame
    BY <1>3, <2>1
  <2> HIDE DEF frame
  <2> QED
    BY <2>2
<1> HIDE DEF top, texts
<1>6. y \in TextType(files) /\ Left(files, texts, top) = Cat(y, Left(files, texts, frame))
  BY <1>2, <1>3, <1>4, LeftOfText, Zenon
<1>7. frame \in Frames(files) /\ frame.file = top.file /\ frame.line = top.line + 1 /\ frame.pending = <<>>
  <2>1. \A k \in Nat \ {0}, q \in Seq(Paths(files)) :
          /\ At(top, k, q) \in Frames(files)
          /\ At(top, k, q).file = top.file /\ At(top, k, q).line = k /\ At(top, k, q).pending = q
    BY <1>2, FrameMoves
  <2>2. top.line + 1 \in Nat \ {0} /\ <<>> \in Seq(Paths(files))
    BY <1>2
  <2> QED
    BY <2>1, <2>2
<1>8. Len(files[top.file]) \in Nat
  BY <1>2, LineTypes, Zenon
<1>9. frame.line <= Len(files[frame.file]) + 1
  BY <1>2, <1>3, <1>7, <1>8
<1>10. Range(frame.pending) \subseteq IncludedBy(files, frame.file)
  <2>1. Range(<<>>) = {}
    BY DEF Range
  <2> QED
    BY <1>7, <2>1
<1>11. Append(text, line) = Cat(text, y)
  <2>1. line \in (DOMAIN files) \X Nat
    BY <1>2
  <2> DEFINE T == (DOMAIN files) \X Nat
  <2>2. text \in Seq(T) /\ line \in T
    BY <1>2, <2>1 DEF TextType, Texts
  <2> HIDE DEF T, line
  <2> QED
    BY <2>2, AppendIsConcat DEF Cat
<1> HIDE DEF frame, y, line
<1>12. LET next == [cs EXCEPT ![Len(cs)] = frame] IN
         /\ Stacked(files, next, stack) /\ \E r : Remains(files, e, next, Cat(text, y), r)
  BY <1>1, <1>6, <1>7, <1>9, <1>10, TopChanges, Zenon DEF top, texts
<1> QED
  BY <1>1, <1>5, <1>11, <1>12, Zenon DEF Expanding, line, top

\* ReadInclude
LEMMA AfterInclude ==
    ASSUME NEW files, SourceShape(files), NEW cs, NEW stack, NEW text, Expanding(files, cs, stack, text),
           cs[Len(cs)].pending = <<>>, cs[Len(cs)].line <= Len(files[cs[Len(cs)].file]),
           files[cs[Len(cs)].file][cs[Len(cs)].line].kind = "include", NEW paths,
           paths = files[cs[Len(cs)].file][cs[Len(cs)].line].paths
    PROVE  Expanding(files, [cs EXCEPT ![Len(cs)] = [cs[Len(cs)] EXCEPT !.pending = paths, !.line = @ + 1]],
                     stack, text)
<1> DEFINE top == cs[Len(cs)]
           frame == At(top, top.line + 1, paths)
           y == <<>>
<1>1. PICK e, rest : Stacked(files, cs, stack) /\ Expands(e, files) /\ Remains(files, e, cs, text, rest)
  BY Zenon DEF Expanding
<1> DEFINE texts == e[Cardinality(DOMAIN files) - Len(cs)]
<1>2. top \in Frames(files) /\ top.file \in DOMAIN files /\ top.line \in Nat \ {0} /\ text \in TextType(files)
  BY TopFrame, Zenon
<1>3. top.pending = <<>> /\ top.line <= Len(files[top.file]) /\ files[top.file][top.line].kind = "include"
      /\ paths = files[top.file][top.line].paths
  OBVIOUS
<1>4. texts \in AllTexts(files)
  <2>1. Len(cs) \in 1 .. Len(cs)
    <3>1. Len(cs) \in Nat \ {0}
      BY TopFrame, Zenon
    <3> QED
      BY <3>1
  <2> QED
    BY <1>1, <2>1, TopTypes, Zenon
<1>5. [cs EXCEPT ![Len(cs)] = [top EXCEPT !.pending = paths, !.line = @ + 1]] = [cs EXCEPT ![Len(cs)] = frame]
  <2>1. [top EXCEPT !.pending = paths, !.line = @ + 1] = frame
    BY <1>2, FrameUpdates, Zenon
  <2> HIDE DEF frame
  <2> QED
    BY <2>1
<1> HIDE DEF top, texts
<1>6. Left(files, texts, top) = Left(files, texts, frame)
  <2>1. Left(files, texts, top) =
          Left(files, texts, At(top, top.line + 1, files[top.file][top.line].paths))
    <3> HIDE DEF frame
    <3>1. /\ top \in Frames(files) /\ texts \in AllTexts(files)
          /\ top.pending = <<>> /\ top.line <= Len(files[top.file])
          /\ files[top.file][top.line].kind = "include"
      BY <1>2, <1>3, <1>4, Zenon
    <3> QED
      BY <3>1, LeftOfInclude, Zenon
  <2> QED
    BY <1>3, <2>1, Zenon
<1>7. Len(files[top.file]) \in Nat /\ DOMAIN files[top.file] = 1 .. Len(files[top.file])
  BY <1>2, LineTypes, Zenon
<1>8. paths \in Seq(IncludedBy(files, top.file)) /\ paths \in Seq(Paths(files))
  <2>1. top.line \in DOMAIN files[top.file]
    BY <1>2, <1>3, <1>7
  <2>2. files[top.file][top.line].kind # "text"
    BY <1>3
  <2>3. \A i \in DOMAIN files[top.file] :
          files[top.file][i].kind # "text" =>
            /\ files[top.file][i].paths \in Seq(IncludedBy(files, top.file))
            /\ files[top.file][i].paths \in Seq(Paths(files))
    BY <1>2, LineTypes, Zenon
  <2> QED
    BY <1>3, <2>1, <2>2, <2>3
<1>9. frame \in Frames(files) /\ frame.file = top.file /\ frame.line = top.line + 1 /\ frame.pending = paths
  <2>1. \A k \in Nat \ {0}, q \in Seq(Paths(files)) :
          /\ At(top, k, q) \in Frames(files)
          /\ At(top, k, q).file = top.file /\ At(top, k, q).line = k /\ At(top, k, q).pending = q
    BY <1>2, FrameMoves
  <2>2. top.line + 1 \in Nat \ {0}
    BY <1>2
  <2> QED
    BY <1>8, <2>1, <2>2
<1>10. frame.line <= Len(files[frame.file]) + 1
  BY <1>2, <1>3, <1>7, <1>9
<1>11. Range(frame.pending) \subseteq IncludedBy(files, frame.file)
  <2>1. Range(paths) \subseteq IncludedBy(files, top.file)
    BY <1>8, RangeOfSequence, Zenon
  <2> QED
    BY <1>9, <2>1, Zenon
<1>12. Left(files, texts, frame) \in TextType(files)
  BY <1>4, <1>9, <1>10, LeftParts, Zenon
<1>13. y \in TextType(files) /\ Cat(y, Left(files, texts, frame)) = Left(files, texts, frame) /\ Cat(text, y) = text
  BY <1>2, <1>12, CatEmpty, EmptyText DEF TextType
<1> HIDE DEF frame, y
<1>14. Left(files, texts, top) = Cat(y, Left(files, texts, frame))
  BY <1>6, <1>13
<1>15. LET next == [cs EXCEPT ![Len(cs)] = frame] IN
         /\ Stacked(files, next, stack) /\ \E r : Remains(files, e, next, Cat(text, y), r)
  BY <1>1, <1>9, <1>10, <1>11, <1>13, <1>14, TopChanges, Zenon DEF top, texts
<1>16. LET next == [cs EXCEPT ![Len(cs)] = frame] IN
         /\ Stacked(files, next, stack) /\ \E r : Remains(files, e, next, text, r)
  BY <1>13, <1>15, Zenon
<1>17. Expanding(files, [cs EXCEPT ![Len(cs)] = frame], stack, text)
  BY <1>1, <1>16, Zenon DEF Expanding
<1> QED
  BY <1>5, <1>17, Zenon DEF top

\* OpenInclude
LEMMA AfterOpen ==
    ASSUME NEW files, SourceShape(files), NEW cs, NEW stack, NEW text, Expanding(files, cs, stack, text),
           cs[Len(cs)].pending # <<>>, NEW p \in DOMAIN files, p = Head(cs[Len(cs)].pending), p \notin Range(stack)
    PROVE  Expanding(files, Append([cs EXCEPT ![Len(cs)].pending = Tail(@)], [file |-> p, line |-> 1, pending |-> <<>>]),
                     Append(stack, p), text)
<1> DEFINE top == cs[Len(cs)]
           new == [file |-> p, line |-> 1, pending |-> <<>>]
           next == Append([cs EXCEPT ![Len(cs)] = At(@, @.line, Tail(@.pending))], new)
<1>1. PICK e, rest : Stacked(files, cs, stack) /\ Expands(e, files) /\ Remains(files, e, cs, text, rest)
  BY Zenon DEF Expanding
<1>2. top \in Frames(files)
  BY TopFrame, Zenon
<1>3. [cs EXCEPT ![Len(cs)].pending = Tail(@)] = [cs EXCEPT ![Len(cs)] = At(@, @.line, Tail(@.pending))]
  <2> DEFINE frame == At(top, top.line, Tail(top.pending))
  <2>1. [top EXCEPT !.pending = Tail(@)] = frame
    BY <1>2, FrameUpdates, Zenon
  <2> HIDE DEF frame
  <2>2. [cs EXCEPT ![Len(cs)].pending = Tail(@)] = [cs EXCEPT ![Len(cs)] = frame]
    BY <2>1
  <2> QED
    BY <2>2, Zenon DEF frame
<1>4. PICK nx : nx = next
  OBVIOUS
<1>5. Stacked(files, nx, Append(stack, p)) /\ \E r : Remains(files, e, nx, text, r)
  BY <1>1, <1>4, TopOpens, Zenon
<1>6. Expanding(files, nx, Append(stack, p), text)
  BY <1>1, <1>5, Zenon DEF Expanding
<1> QED
  BY <1>3, <1>4, <1>6, Zenon

\* CloseInclude and ParseConfig
LEMMA AfterReturn ==
    ASSUME NEW files, SourceShape(files), NEW cs, NEW stack, NEW text, Expanding(files, cs, stack, text),
           cs[Len(cs)].pending = <<>>, cs[Len(cs)].line > Len(files[cs[Len(cs)].file])
    PROVE  /\ Len(cs) = 1 => text = Expansion(files)[MainFile]
           /\ Len(cs) > 1 => Expanding(files, SubSeq(cs, 1, Len(cs) - 1), SubSeq(stack, 1, Len(stack) - 1), text)
<1>1. PICK e, rest : Stacked(files, cs, stack) /\ Expands(e, files) /\ Remains(files, e, cs, text, rest)
  BY Zenon DEF Expanding
<1>2. /\ Len(cs) = 1 => text = Expansion(files)[MainFile]
      /\ Len(cs) > 1 =>
           /\ Stacked(files, SubSeq(cs, 1, Len(cs) - 1), SubSeq(stack, 1, Len(stack) - 1))
           /\ \E r : Remains(files, e, SubSeq(cs, 1, Len(cs) - 1), text, r)
  BY <1>1, TopReturns, Zenon
<1> QED
  BY <1>1, <1>2, Zenon DEF Expanding

Stops == {"environment", "include", "missing include", "cycle"}

\* The inductive invariant: while files are expanded, and where the expansion stopped, the
\* text so far and what the calls have yet to produce make up the expansion of the main file.
ExpandInv ==
    /\ SourceShape(source)
    /\ loadPhase # "rejected" => loadError = "none"
    /\ loadPhase = "expanding" \/ loadError \in Stops => Expanding(source, calls, includeStack, expanded)
    /\ loadError = "cycle" => Frame.pending # <<>> /\ Head(Frame.pending) \in Range(includeStack)
    /\ loadPhase # "expanding" /\ loadError \notin Stops => expanded = Expansion(source)[MainFile]

LEMMA ExpandStarts == LoadInit => ExpandInv
<1> SUFFICES ASSUME LoadInit PROVE ExpandInv
  OBVIOUS
<1>1. SourceShape(source)
  BY LoadAssumption DEF LoadInit
<1>2. PICK files : files = source
  OBVIOUS
<1>3. PICK e : Expands(e, files)
  BY <1>1, <1>2, ExpansionsExist, Zenon
<1> DEFINE cs == <<[file |-> MainFile, line |-> 1, pending |-> <<>>]>>
<1>4. Stacked(files, cs, <<MainFile>>) /\ \E r : Remains(files, e, cs, <<>>, r)
  BY <1>1, <1>2, <1>3, LoadStarts, Zenon
<1>5. Expanding(files, cs, <<MainFile>>, <<>>)
  BY <1>3, <1>4, Zenon DEF Expanding
<1>6. Expanding(source, calls, includeStack, expanded)
  BY <1>2, <1>5, Zenon DEF LoadInit
<1>7. loadPhase = "expanding" /\ loadError = "none"
  BY Zenon DEF LoadInit
<1> QED
  BY <1>1, <1>6, <1>7 DEF ExpandInv, Stops

\* Where the expansion goes on, and where a step of it leaves the text as it was.
LEMMA ExpandSteps ==
    ASSUME ExpandInv, loadPhase = "expanding",
           ExpandText \/ ReadInclude \/ OpenInclude \/ CloseInclude
    PROVE  ExpandInv'
<1>1. PICK files, cs, stack, text : files = source /\ cs = calls /\ stack = includeStack /\ text = expanded
  OBVIOUS
<1>2. SourceShape(files) /\ loadError = "none" /\ Expanding(files, cs, stack, text)
  BY <1>1 DEF ExpandInv
<1>3. loadPhase' = "expanding" /\ source' = source /\ loadError' = "none"
  BY <1>2 DEF ExpandText, ReadInclude, OpenInclude, CloseInclude, KeepLoaded
<1>4. Frame = cs[Len(cs)] /\ Line = files[cs[Len(cs)].file][cs[Len(cs)].line]
  BY <1>1 DEF Frame, Line
<1>5. Expanding(source', calls', includeStack', expanded')
  <2>1. CASE ExpandText
    <3>1. /\ cs[Len(cs)].pending = <<>> /\ cs[Len(cs)].line <= Len(files[cs[Len(cs)].file])
          /\ files[cs[Len(cs)].file][cs[Len(cs)].line].kind = "text"
          /\ expanded' = Append(text, <<cs[Len(cs)].file, cs[Len(cs)].line>>)
          /\ calls' = [cs EXCEPT ![Len(cs)].line = @ + 1]
          /\ includeStack' = stack /\ source' = files
      BY <1>1, <1>4, <2>1, Zenon DEF ExpandText, AtLine, KeepLoaded
    <3> QED
      BY <1>2, <3>1, AfterText, Zenon
  <2>2. CASE ReadInclude
    <3>1. /\ cs[Len(cs)].pending = <<>> /\ cs[Len(cs)].line <= Len(files[cs[Len(cs)].file])
          /\ files[cs[Len(cs)].file][cs[Len(cs)].line].kind = "include"
          /\ calls' = [cs EXCEPT ![Len(cs)] = [cs[Len(cs)] EXCEPT
                         !.pending = files[cs[Len(cs)].file][cs[Len(cs)].line].paths, !.line = @ + 1]]
          /\ expanded' = text /\ includeStack' = stack /\ source' = files
      BY <1>1, <1>4, <2>2, Zenon DEF ReadInclude, AtLine, KeepLoaded
    <3> QED
      BY <1>2, <3>1, AfterInclude, Zenon
  <2>3. CASE OpenInclude
    <3>1. PICK p : p = Head(cs[Len(cs)].pending)
      OBVIOUS
    <3>2. /\ cs[Len(cs)].pending # <<>> /\ p \in DOMAIN files /\ p \notin Range(stack)
          /\ calls' = Append([cs EXCEPT ![Len(cs)].pending = Tail(@)], [file |-> p, line |-> 1, pending |-> <<>>])
          /\ includeStack' = Append(stack, p) /\ expanded' = text /\ source' = files
      BY <1>1, <1>4, <2>3, <3>1, Zenon DEF OpenInclude, KeepLoaded
    <3> QED
      BY <1>2, <3>1, <3>2, AfterOpen, Zenon
  <2>4. CASE CloseInclude
    <3>1. /\ cs[Len(cs)].pending = <<>> /\ cs[Len(cs)].line > Len(files[cs[Len(cs)].file]) /\ Len(cs) > 1
          /\ calls' = SubSeq(cs, 1, Len(cs) - 1) /\ includeStack' = SubSeq(stack, 1, Len(stack) - 1)
          /\ expanded' = text /\ source' = files
      BY <1>1, <1>4, <2>4, Zenon DEF CloseInclude, AtEnd, KeepLoaded
    <3> QED
      BY <1>2, <3>1, AfterReturn, Zenon
  <2> QED
    BY <2>1, <2>2, <2>3, <2>4
<1>6. SourceShape(source')
  BY <1>1, <1>2, <1>3
<1> QED
  BY <1>3, <1>5, <1>6 DEF ExpandInv, Stops

\* A configuration is refused while its files are expanded.
LEMMA ExpandRefused ==
    ASSUME ExpandInv, ExpandTextFails \/ ReadIncludeFails \/ OpenIncludeFails
    PROVE  ExpandInv'
<1>1. loadPhase = "expanding" /\ loadPhase' = "rejected" /\ loadError' \in Stops
      /\ UNCHANGED <<source, calls, includeStack, expanded>>
  BY DEF ExpandTextFails, ReadIncludeFails, OpenIncludeFails, AtLine, Reject, Stops
<1>2. loadError' = "cycle" => Frame.pending # <<>> /\ Head(Frame.pending) \in Range(includeStack)
  BY DEF ExpandTextFails, ReadIncludeFails, OpenIncludeFails, Reject
<1>3. SourceShape(source) /\ Expanding(source, calls, includeStack, expanded)
  BY <1>1 DEF ExpandInv
<1>4. SourceShape(source') /\ Expanding(source', calls', includeStack', expanded')
  BY <1>1, <1>3
<1>5. loadError' = "cycle" => Frame'.pending # <<>> /\ Head(Frame'.pending) \in Range(includeStack')
  BY <1>1, <1>2 DEF Frame
<1> QED
  BY <1>1, <1>4, <1>5 DEF ExpandInv

\* The text is complete, and stays.
LEMMA ExpandDone ==
    ASSUME ExpandInv, \/ ParseConfig \/ ParseConfigFails \/ ValidateConfig \/ CompileConfig \/ BuildAcceptors
                      \/ UNCHANGED loadVars
    PROVE  ExpandInv'
<1>1. CASE ParseConfig \/ ParseConfigFails
  <2>1. PICK files, cs, stack, text : files = source /\ cs = calls /\ stack = includeStack /\ text = expanded
    OBVIOUS
  <2>2. loadPhase = "expanding" /\ Frame = cs[Len(cs)]
    BY <1>1, <2>1 DEF ParseConfig, ParseConfigFails, AtEnd, Frame
  <2>3. SourceShape(files) /\ loadError = "none" /\ Expanding(files, cs, stack, text)
    BY <2>1, <2>2 DEF ExpandInv
  <2>4. /\ cs[Len(cs)].pending = <<>> /\ cs[Len(cs)].line > Len(files[cs[Len(cs)].file]) /\ Len(cs) = 1
        /\ source' = files /\ expanded' = text
        /\ \/ loadPhase' = "parsed" /\ loadError' = loadError
           \/ loadPhase' = "rejected" /\ loadError' = "parse"
    BY <1>1, <2>1, <2>2, Zenon DEF ParseConfig, ParseConfigFails, Reject, AtEnd
  <2>5. text = Expansion(files)[MainFile]
    BY <2>3, <2>4, AfterReturn, Zenon
  <2>6. SourceShape(source') /\ expanded' = Expansion(source')[MainFile]
    BY <2>3, <2>4, <2>5
  <2> QED
    BY <2>3, <2>4, <2>6 DEF ExpandInv, Stops
<1>2. CASE ValidateConfig \/ CompileConfig \/ BuildAcceptors
  <2>1. /\ loadPhase \in {"parsed", "validated", "compiled"} /\ source' = source /\ expanded' = expanded
        /\ \/ loadPhase' \in {"validated", "compiled", "ready"} /\ loadError' = loadError
           \/ loadPhase' = "rejected" /\ loadError' \in {"validate", "compile", "acceptor"}
    BY <1>2 DEF ValidateConfig, CompileConfig, BuildAcceptors, Reject
  <2>2. SourceShape(source) /\ expanded = Expansion(source)[MainFile] /\ loadError = "none"
    BY <2>1 DEF ExpandInv, Stops
  <2>3. SourceShape(source') /\ expanded' = Expansion(source')[MainFile]
    BY <2>1, <2>2
  <2> QED
    BY <2>1, <2>2, <2>3 DEF ExpandInv, Stops
<1>3. CASE UNCHANGED loadVars
  BY <1>3 DEF ExpandInv, loadVars, Frame
<1> QED
  BY <1>1, <1>2, <1>3

\* A file on the stack includes the next one: a repeated file closes a cycle of includes.
LEMMA CycleIsReal == ExpandInv => OnlyRealCyclesRefused
<1> SUFFICES ASSUME ExpandInv, loadError = "cycle"
             PROVE  LET path == Head(Frame.pending)
                        from == CHOOSE i \in DOMAIN includeStack : includeStack[i] = path
                    IN  /\ <<includeStack[Len(includeStack)], path>> \in IncludeEdges
                        /\ \A i \in from .. (Len(includeStack) - 1) :
                             <<includeStack[i], includeStack[i + 1]>> \in IncludeEdges
  BY Zenon DEF OnlyRealCyclesRefused
<1> DEFINE path == Head(Frame.pending)
           from == CHOOSE i \in DOMAIN includeStack : includeStack[i] = path
<1>1. PICK files, cs, stack, text : files = source /\ cs = calls /\ stack = includeStack /\ text = expanded
  OBVIOUS
<1>2. SourceShape(files) /\ Expanding(files, cs, stack, text)
      /\ Frame.pending # <<>> /\ path \in Range(stack) /\ Frame = cs[Len(cs)]
  BY <1>1 DEF ExpandInv, Stops, Frame
<1> DEFINE n == Len(cs)
           pending == Frame.pending
<1>3. /\ Len(stack) = n /\ stack \in Seq(DOMAIN files) /\ DOMAIN stack = 1 .. n /\ n \in Nat \ {0}
      /\ stack[n] = Frame.file /\ pending \in Seq(Paths(files)) /\ Range(pending) \subseteq IncludedBy(files, Frame.file)
      /\ \A i \in 1 .. n - 1 : stack[i + 1] \in IncludedBy(files, stack[i])
  BY <1>2, TopFrame, Zenon
<1>4. ASSUME NEW f \in DOMAIN files, NEW p \in IncludedBy(files, f) PROVE <<f, p>> \in IncludeEdges
  <2>1. <<f, p>> \in {<<f, x>> : x \in IncludedBy(source, f)}
    BY <1>1, <1>4, Zenon
  <2> QED
    BY <1>1, <2>1, Zenon DEF IncludeEdges
<1>5. path \in IncludedBy(files, stack[n])
  <2>1. pending # <<>> /\ path = Head(pending)
    BY <1>2
  <2> HIDE DEF pending, path
  <2>2. Head(pending) \in Range(pending)
    BY <1>3, <2>1 DEF Range
  <2> QED
    BY <1>3, <2>1, <2>2
<1>6. from \in DOMAIN stack
  BY <1>1, <1>2, Zenon DEF Range
<1> HIDE DEF path, from
<1>7. <<stack[n], path>> \in IncludeEdges
  <2>1. stack[n] \in DOMAIN files
    BY <1>3
  <2> QED
    BY <1>4, <1>5, <2>1, Zenon
<1>8. ASSUME NEW i \in from .. n - 1 PROVE <<stack[i], stack[i + 1]>> \in IncludeEdges
  <2>1. i \in 1 .. n - 1 /\ i \in 1 .. n
    BY <1>3, <1>6
  <2>2. stack[i] \in DOMAIN files /\ stack[i + 1] \in IncludedBy(files, stack[i])
    BY <1>3, <2>1
  <2> QED
    BY <1>4, <2>2, Zenon
<1> HIDE DEF n
<1>9. /\ <<includeStack[Len(includeStack)], path>> \in IncludeEdges
      /\ \A i \in from .. (Len(includeStack) - 1) : <<includeStack[i], includeStack[i + 1]>> \in IncludeEdges
  BY <1>1, <1>3, <1>7, <1>8
<1> QED
  BY <1>9, Zenon DEF path, from

\* load/preprocess.rs expands every include in place, in the order it is written, however
\* the files nest and however often one is included, and refuses a configuration for a
\* cycle only when a file really includes itself: for every finite set of files.
THEOREM IncludesAreExpanded == LoadSpec => []IncludesExpanded
<1>1. LoadInit => ExpandInv
  BY ExpandStarts
<1>2. ExpandInv /\ [LoadNext]_loadVars => ExpandInv'
  <2> SUFFICES ASSUME ExpandInv, [LoadNext]_loadVars PROVE ExpandInv'
    OBVIOUS
  <2>1. CASE ExpandText \/ ReadInclude \/ OpenInclude \/ CloseInclude
    <3>1. loadPhase = "expanding"
      BY <2>1 DEF ExpandText, ReadInclude, OpenInclude, CloseInclude, AtLine, AtEnd
    <3> QED
      BY <2>1, <3>1, ExpandSteps
  <2>2. CASE ExpandTextFails \/ ReadIncludeFails \/ OpenIncludeFails
    BY <2>2, ExpandRefused
  <2>3. CASE \/ ParseConfig \/ ParseConfigFails \/ ValidateConfig \/ CompileConfig \/ BuildAcceptors
             \/ UNCHANGED loadVars
    BY <2>3, ExpandDone
  <2> QED
    BY <2>1, <2>2, <2>3, Zenon DEF LoadNext
<1>3. ExpandInv => IncludesExpanded
  <2> SUFFICES ASSUME ExpandInv PROVE IncludesExpanded
    OBVIOUS
  <2>1. IncludesInlinedInOrder
    BY DEF ExpandInv, Stops, IncludesInlinedInOrder
  <2> QED
    BY <2>1, CycleIsReal DEF IncludesExpanded
<1> QED
  BY <1>1, <1>2, <1>3, PTL DEF LoadSpec

-----------------------------------------------------------------------------
(* What a configuration compiles to, in each way listeners are declared.   *)

Described(x, id, fields, ssl, http3) ==
    /\ x.id = id /\ x.server.tcp = Get(fields.listen, Unparsable) /\ x.server.tls = fields.tls
    /\ x.server.limits = fields.limits /\ x.tlsTermination = ssl
    /\ x.http3 = Http3Of(http3, Get(fields.listen, Unparsable))

LEMMA ListenerParts ==
    ASSUME NEW id, NEW fields, NEW ssl, NEW proxy, NEW http3
    PROVE  Described(ListenerOf(id, fields, ssl, proxy, http3), id, fields, ssl, http3)
BY DEF ListenerOf, ServerOf, Described

\* The listener of a listeners entry.
ExplicitOf(c, l) ==
    ListenerOf(<<"listener", l.name>>, [l EXCEPT !.serverHeader = OrElse(@, c.server.serverHeader)],
               l.tls # {}, TrueIn(l.proxyProtocol), l.http3)

IsExplicit(c, l, x) ==
    /\ x = ExplicitOf(c, l)
    /\ x.id = <<"listener", l.name>> /\ x.server.tcp = TcpAddress(l)
    /\ x.server.tls = l.tls /\ x.server.limits = l.limits
    /\ x.tlsTermination = (l.tls # {})
    /\ x.http3 = Http3Of(l.http3, TcpAddress(l))

LEMMA ExplicitParts ==
    ASSUME NEW c, NEW l, ListenerShape(l)
    PROVE  IsExplicit(c, l, ExplicitOf(c, l))
<1> DEFINE header == OrElse(l.serverHeader, c.server.serverHeader)
           fields == [l EXCEPT !.serverHeader = header]
           ssl == l.tls # {}
<1> HIDE DEF header
<1>1. fields.listen = l.listen /\ fields.tls = l.tls /\ fields.limits = l.limits
  BY DEF ListenerShape
<1> HIDE DEF fields, ssl
<1>2. ExplicitOf(c, l) = ListenerOf(<<"listener", l.name>>, fields, ssl, TrueIn(l.proxyProtocol), l.http3)
  BY Zenon DEF ExplicitOf, fields, header, ssl
<1>3. /\ ExplicitOf(c, l).id = <<"listener", l.name>> /\ ExplicitOf(c, l).server.tcp = Get(fields.listen, Unparsable)
      /\ ExplicitOf(c, l).server.tls = fields.tls /\ ExplicitOf(c, l).server.limits = fields.limits
      /\ ExplicitOf(c, l).tlsTermination = ssl
      /\ ExplicitOf(c, l).http3 = Http3Of(l.http3, Get(fields.listen, Unparsable))
  <2>1. Described(ExplicitOf(c, l), <<"listener", l.name>>, fields, ssl, l.http3)
    BY <1>2, ListenerParts, Zenon
  <2> QED
    BY <2>1, Zenon DEF Described
<1> QED
  BY <1>1, <1>3, Zenon DEF IsExplicit, TcpAddress, ssl

LEMMA LegacyParts ==
    ASSUME NEW c, NEW x \in LegacyListeners(c)
    PROVE  /\ x.id = <<"default">> /\ x.server.tcp = TcpAddress(c.server) /\ x.server.tls = c.server.tls
           /\ x.server.limits = c.server.limits /\ x.tlsTermination = LegacyTermination(c)
           /\ x.http3 = Http3Of(c.server.http3, TcpAddress(c.server))
<1> DEFINE ssl == LegacyTermination(c)
<1> HIDE DEF ssl
<1>1. x = ListenerOf(<<"default">>, c.server, ssl, TrueIn(c.server.proxyProtocol), c.server.http3)
  BY Zenon DEF LegacyListeners, ssl
<1>2. Described(x, <<"default">>, c.server, ssl, c.server.http3)
  BY <1>1, ListenerParts, Zenon
<1> QED
  BY <1>2, Zenon DEF Described, TcpAddress, ssl

\* The entry of a virtual host that declares a listener, and the listener.
Entry(c, p) == c.vhosts[p[1]].listen[p[2]]
First(c, addr) == FirstBinding(c.vhosts, addr)

VhostOf(c, addr) ==
    ListenerOf(<<"vhost", addr>>, VhostFields(c, addr), ParsedListen(Entry(c, First(c, addr))).ssl,
               ParsedListen(Entry(c, First(c, addr))).proxyProtocol,
               VhostHttp3(c.vhosts[First(c, addr)[1]], Entry(c, First(c, addr))))

IsVhost(c, addr, x) ==
    /\ x = VhostOf(c, addr)
    /\ x.id = <<"vhost", addr>> /\ x.server.tcp = addr
    /\ x.server.tls = (IF ParsedListen(Entry(c, First(c, addr))).ssl THEN c.server.tls ELSE {})
    /\ x.server.limits = c.server.limits
    /\ x.tlsTermination = ParsedListen(Entry(c, First(c, addr))).ssl
    /\ x.http3 = Http3Of(VhostHttp3(c.vhosts[First(c, addr)[1]], Entry(c, First(c, addr))), addr)

LEMMA VhostParts ==
    ASSUME NEW c, ListenerShape(c.server), NEW addr
    PROVE  IsVhost(c, addr, VhostOf(c, addr))
<1> DEFINE p == First(c, addr)
           ssl == ParsedListen(Entry(c, p)).ssl
           own == IF c.server.tls = {} THEN {c.vhosts[p[1]].names[1]} ELSE {}
           tls == IF ssl THEN c.server.tls ELSE {}
           cert == IF ssl THEN OrElse(c.server.defaultCertificate, own) ELSE {}
           fields == [c.server EXCEPT !.listen = {addr}, !.tls = tls, !.defaultCertificate = cert]
           http3 == VhostHttp3(c.vhosts[p[1]], Entry(c, p))
<1>1. VhostFields(c, addr) = fields
  BY Zenon DEF VhostFields, Entry, First
<1> HIDE DEF tls, cert
<1>2. fields.listen = {addr} /\ fields.tls = tls /\ fields.limits = c.server.limits
  BY DEF ListenerShape
<1>3. Get({addr}, Unparsable) = addr
  BY DEF Get
<1> HIDE DEF fields, ssl, http3
<1>4. VhostOf(c, addr) = ListenerOf(<<"vhost", addr>>, fields, ssl, ParsedListen(Entry(c, p)).proxyProtocol, http3)
  BY <1>1, Zenon DEF VhostOf, ssl, http3
<1>5. LET x == VhostOf(c, addr) IN
        /\ x.id = <<"vhost", addr>> /\ x.server.tcp = Get(fields.listen, Unparsable) /\ x.server.tls = fields.tls
        /\ x.server.limits = fields.limits /\ x.tlsTermination = ssl
        /\ x.http3 = Http3Of(http3, Get(fields.listen, Unparsable))
  <2>1. Described(VhostOf(c, addr), <<"vhost", addr>>, fields, ssl, http3)
    BY <1>4, ListenerParts, Zenon
  <2> QED
    BY <2>1, Zenon DEF Described
<1> QED
  BY <1>2, <1>3, <1>5, Zenon DEF IsVhost, tls, ssl, http3

\* An address a virtual host listens on has a first entry.
LEMMA FirstExists ==
    ASSUME NEW c, ConfigShape(c), NEW addr \in VhostAddresses(c)
    PROVE  /\ First(c, addr) \in VhostListens(c.vhosts) /\ Entry(c, First(c, addr)).addr = addr
           /\ First(c, addr)[1] \in DOMAIN c.vhosts
           /\ First(c, addr)[2] \in DOMAIN c.vhosts[First(c, addr)[1]].listen
<1> DEFINE V == VhostListens(c.vhosts)
           A == {v \in Nat : \E i \in Nat : <<v, i>> \in V /\ Entry(c, <<v, i>>).addr = addr}
<1>1. ASSUME NEW q \in V
      PROVE  /\ q[1] \in DOMAIN c.vhosts /\ q[2] \in DOMAIN c.vhosts[q[1]].listen /\ q = <<q[1], q[2]>>
             /\ q[1] \in Nat /\ q[2] \in Nat
  <2>1. PICK v \in DOMAIN c.vhosts : \E i \in DOMAIN c.vhosts[v].listen : q = <<v, i>>
    BY <1>1, Zenon DEF VhostListens
  <2>2. PICK i \in DOMAIN c.vhosts[v].listen : q = <<v, i>>
    BY <2>1
  <2>3. q[1] = v /\ q[2] = i
    BY <2>2
  <2>4. IsVec(c.vhosts) /\ IsVec(c.vhosts[v].listen)
    BY <2>1 DEF ConfigShape, Range
  <2>5. DOMAIN c.vhosts \subseteq Nat
    BY <2>4 DEF IsVec
  <2>6. DOMAIN c.vhosts[v].listen \subseteq Nat
    <3> DEFINE s == c.vhosts[v].listen
    <3>1. s \in Seq(Range(s))
      BY <2>4 DEF IsVec
    <3> HIDE DEF s
    <3>2. DOMAIN s \subseteq Nat
      BY <3>1
    <3> QED
      BY <3>2 DEF s
  <2> QED
    BY <2>1, <2>2, <2>3, <2>5, <2>6
<1>2. PICK q \in V : Entry(c, q).addr = addr
  BY Zenon DEF VhostAddresses, Entry
<1>3. q[1] \in A
  BY <1>1, <1>2, Zenon
<1>4. PICK v \in A : \A w \in A : v <= w
  BY <1>3, LeastNatural, Zenon
<1> DEFINE B == {i \in Nat : <<v, i>> \in V /\ Entry(c, <<v, i>>).addr = addr}
<1>5. PICK j : j \in B
  BY <1>4, Zenon
<1>6. PICK i \in B : \A k \in B : i <= k
  BY <1>5, LeastNatural, Zenon
<1> DEFINE p == <<v, i>>
<1>7. p \in V /\ Entry(c, p).addr = addr /\ p[1] = v /\ p[2] = i
  BY <1>6
<1>8. ASSUME NEW r \in V, Entry(c, r).addr = addr
      PROVE  p[1] < r[1] \/ (p[1] = r[1] /\ p[2] <= r[2])
  <2>1. r[1] \in Nat /\ r[2] \in Nat /\ r = <<r[1], r[2]>>
    BY <1>1, <1>8, Zenon
  <2>2. r[1] \in A
    BY <1>8, <2>1, Zenon
  <2>3. v <= r[1] /\ v \in Nat
    BY <1>4, <2>2
  <2>4. CASE r[1] = v
    <3>1. r[2] \in B
      BY <1>8, <2>1, <2>4, Zenon
    <3>2. i <= r[2]
      BY <1>6, <3>1, Zenon
    <3> QED
      BY <1>7, <2>4, <3>2
  <2>5. CASE r[1] # v
    BY <1>7, <2>1, <2>3, <2>5
  <2> QED
    BY <2>4, <2>5
<1>9. \E s \in V : /\ Entry(c, s).addr = addr
                   /\ \A r \in V : Entry(c, r).addr = addr => s[1] < r[1] \/ (s[1] = r[1] /\ s[2] <= r[2])
  <2> HIDE DEF p
  <2> QED
    BY <1>7, <1>8, Zenon
<1> DEFINE f == CHOOSE s \in V : /\ Entry(c, s).addr = addr
                                 /\ \A r \in V : Entry(c, r).addr = addr => s[1] < r[1] \/ (s[1] = r[1] /\ s[2] <= r[2])
<1>10. First(c, addr) = f
  BY Zenon DEF First, FirstBinding, Entry
<1>11. f \in V /\ Entry(c, f).addr = addr
  BY <1>9, Zenon
<1> QED
  BY <1>1, <1>10, <1>11, Zenon

\* The three ways, and what validation has checked of each.
LEMMA VhostMode ==
    ASSUME NEW c, ConfigShape(c), Validate(c), AnyVhostListen(c.vhosts)
    PROVE  /\ c.listeners = <<>> /\ ValidVhostBindings(c.vhosts)
           /\ \A x \in Listeners(c) : \E addr \in VhostAddresses(c) : IsVhost(c, addr, x)
           /\ \A addr \in VhostAddresses(c) : \E x \in Listeners(c) : IsVhost(c, addr, x)
<1>1. ValidListeners(c)
  BY DEF Validate
<1>2. c.listeners = <<>> /\ ValidVhostBindings(c.vhosts)
  BY <1>1, Zenon DEF ValidListeners
<1>3. Listeners(c) = VhostListeners(c)
  BY Zenon DEF Listeners
<1>4. VhostListeners(c) = {VhostOf(c, addr) : addr \in VhostAddresses(c)}
  BY Zenon DEF VhostListeners, VhostOf, Entry, First
<1>5. ASSUME NEW addr PROVE IsVhost(c, addr, VhostOf(c, addr))
  BY VhostParts, Zenon DEF ConfigShape
<1> QED
  BY <1>2, <1>3, <1>4, <1>5, Zenon

LEMMA LegacyMode ==
    ASSUME NEW c, ~AnyVhostListen(c.vhosts), c.listeners = <<>>
    PROVE  Listeners(c) = LegacyListeners(c)
BY Zenon DEF Listeners

LEMMA ExplicitMode ==
    ASSUME NEW c, ConfigShape(c), Validate(c), ~AnyVhostListen(c.vhosts), c.listeners # <<>>
    PROVE  /\ ValidExplicitListeners(c.listeners, c.vhosts)
           /\ \A x \in Listeners(c) : \E l \in Range(c.listeners) : IsExplicit(c, l, x)
           /\ \A l \in Range(c.listeners) : \E x \in Listeners(c) : IsExplicit(c, l, x)
<1>1. ValidListeners(c)
  BY DEF Validate
<1>2. ValidExplicitListeners(c.listeners, c.vhosts)
  BY <1>1, Zenon DEF ValidListeners
<1>3. Listeners(c) = ExplicitListeners(c)
  BY Zenon DEF Listeners
<1>4. ExplicitListeners(c) = {ExplicitOf(c, l) : l \in Range(c.listeners)}
  BY Zenon DEF ExplicitListeners, ExplicitOf
<1>5. ASSUME NEW l \in Range(c.listeners) PROVE IsExplicit(c, l, ExplicitOf(c, l))
  BY ExplicitParts, Zenon DEF ConfigShape
<1> QED
  BY <1>2, <1>3, <1>4, <1>5, Zenon

\* The entries of one address agree on what it speaks.
LEMMA Agree ==
    ASSUME NEW c, ValidVhostBindings(c.vhosts), NEW p \in VhostListens(c.vhosts), NEW q \in VhostListens(c.vhosts),
           Entry(c, p).addr = Entry(c, q).addr
    PROVE  /\ ParsedListen(Entry(c, p)).ssl = ParsedListen(Entry(c, q)).ssl
           /\ ParsedListen(Entry(c, p)).http3 = ParsedListen(Entry(c, q)).http3
<1>1. SameBinding(c.vhosts, p, q)
  BY Zenon DEF ValidVhostBindings
<1>2. ParsedListen(Entry(c, p)).addr = ParsedListen(Entry(c, q)).addr
  BY DEF ParsedListen
<1>3. ParsedListen(Entry(c, p)) = ParsedListen(Entry(c, q))
  BY <1>1, <1>2, Zenon DEF SameBinding, Entry
<1> QED
  BY <1>3

LEMMA DistinctOfVhosts ==
    ASSUME NEW c, ConfigShape(c), Validate(c), AnyVhostListen(c.vhosts),
           NEW a \in Listeners(c), NEW b \in Listeners(c), a # b
    PROVE  a.id # b.id /\ a.server.tcp # b.server.tcp /\ a.id[1] # "listener"
<1>1. PICK x \in VhostAddresses(c) : IsVhost(c, x, a)
  BY VhostMode, Zenon
<1>2. PICK y \in VhostAddresses(c) : IsVhost(c, y, b)
  BY VhostMode, Zenon
<1>4. a.id = <<"vhost", x>> /\ a.server.tcp = x
  BY <1>1, Zenon DEF IsVhost
<1>5. b.id = <<"vhost", y>> /\ b.server.tcp = y
  BY <1>2, Zenon DEF IsVhost
<1>6. x # y
  BY <1>1, <1>2, Zenon DEF IsVhost
<1> QED
  BY <1>4, <1>5, <1>6

LEMMA DistinctOfExplicit ==
    ASSUME NEW c, ConfigShape(c), Validate(c), ~AnyVhostListen(c.vhosts), c.listeners # <<>>,
           NEW a \in Listeners(c), NEW b \in Listeners(c), a # b
    PROVE  /\ a.id # b.id /\ a.server.tcp # b.server.tcp
           /\ {h.udp : h \in a.http3} \cap {h.udp : h \in b.http3} = {}
<1>1. PICK x \in Range(c.listeners) : IsExplicit(c, x, a)
  BY ExplicitMode, Zenon
<1>2. PICK y \in Range(c.listeners) : IsExplicit(c, y, b)
  BY ExplicitMode, Zenon
<1>4. PICK i \in DOMAIN c.listeners : x = c.listeners[i]
  BY <1>1, Zenon DEF Range
<1>5. PICK j \in DOMAIN c.listeners : y = c.listeners[j]
  BY <1>2, Zenon DEF Range
<1>6. i # j
  BY <1>1, <1>2, <1>4, <1>5, Zenon DEF IsExplicit
<1>7. x.name # y.name /\ TcpAddress(x) # TcpAddress(y) /\ UdpAddresses(x) \cap UdpAddresses(y) = {}
  <2>1. ValidExplicitListeners(c.listeners, c.vhosts)
    BY ExplicitMode, Zenon
  <2> QED
    BY <1>4, <1>5, <1>6, <2>1, Zenon DEF ValidExplicitListeners
<1>8. a.id = <<"listener", x.name>> /\ a.server.tcp = TcpAddress(x) /\ a.http3 = Http3Of(x.http3, TcpAddress(x))
  BY <1>1, Zenon DEF IsExplicit
<1>9. b.id = <<"listener", y.name>> /\ b.server.tcp = TcpAddress(y) /\ b.http3 = Http3Of(y.http3, TcpAddress(y))
  BY <1>2, Zenon DEF IsExplicit
<1>10. ASSUME NEW l PROVE {h.udp : h \in Http3Of(l.http3, TcpAddress(l))} \subseteq UdpAddresses(l)
  <2> SUFFICES ASSUME NEW h \in Http3Of(l.http3, TcpAddress(l)) PROVE h.udp \in UdpAddresses(l)
    BY Zenon
  <2>1. PICK g \in l.http3 : h.udp = Get(g.listen, TcpAddress(l))
    BY DEF Http3Of
  <2> QED
    BY <2>1, Zenon DEF UdpAddresses
<1>11. {h.udp : h \in a.http3} \subseteq UdpAddresses(x) /\ {h.udp : h \in b.http3} \subseteq UdpAddresses(y)
  BY <1>8, <1>9, <1>10, Zenon
<1>12. {h.udp : h \in a.http3} \cap {h.udp : h \in b.http3} = {}
  BY <1>7, <1>11, Zenon
<1>13. <<"listener", x.name>> # <<"listener", y.name>>
  BY <1>7
<1> QED
  BY <1>7, <1>8, <1>9, <1>12, <1>13, Zenon

\* ListenersDistinct, of what a configuration compiles to.
LEMMA CompiledDistinct ==
    ASSUME NEW c, ConfigShape(c), Validate(c), NEW a \in Listeners(c), NEW b \in Listeners(c), a # b
    PROVE  /\ a.id # b.id /\ a.server.tcp # b.server.tcp
           /\ a.id[1] = "listener" => {h.udp : h \in a.http3} \cap {h.udp : h \in b.http3} = {}
<1>1. CASE AnyVhostListen(c.vhosts)
  BY <1>1, DistinctOfVhosts, Zenon
<1>2. CASE ~AnyVhostListen(c.vhosts) /\ c.listeners # <<>>
  BY <1>2, DistinctOfExplicit, Zenon
<1>3. CASE ~AnyVhostListen(c.vhosts) /\ c.listeners = <<>>
  <2>1. a \in LegacyListeners(c) /\ b \in LegacyListeners(c)
    BY <1>3, LegacyMode, Zenon
  <2>2. a = b
    BY <2>1, Zenon DEF LegacyListeners
  <2> QED
    BY <2>2, Zenon
<1> QED
  BY <1>1, <1>2, <1>3, Zenon

\* BufferedBodiesBounded: a buffering location is among the ones validation looked at.
LEMMA CompiledBounded ==
    ASSUME NEW c, ConfigShape(c), Validate(c), NEW r \in Routes(c), r.requestBuffering = "on", NEW x \in Listeners(c)
    PROVE  x.server.limits.maxRequestBody # {}
<1>1. PICK l \in AllLocations(c) : r.requestBuffering = Get(l.requestBuffering, "auto")
  <2>1. ASSUME NEW ls, NEW visible, NEW names, NEW scope, r \in RoutesOf(ls, visible, names, scope)
        PROVE  \E l \in Range(ls) : r.requestBuffering = Get(l.requestBuffering, "auto")
    BY <2>1 DEF RoutesOf, RouteOf
  <2>2. CASE r \in RoutesOf(c.locations, VisibleTo(c, 0), {}, 0)
    BY <2>1, <2>2, Zenon DEF AllLocations
  <2>3. CASE r \notin RoutesOf(c.locations, VisibleTo(c, 0), {}, 0)
    <3>1. PICK v \in DOMAIN c.vhosts : r \in RoutesOf(c.vhosts[v].locations, VisibleTo(c, v),
                                                     UpstreamNames(c.vhosts[v].upstreams), v)
      BY <2>3, Zenon DEF Routes
    <3>2. PICK l \in Range(c.vhosts[v].locations) : r.requestBuffering = Get(l.requestBuffering, "auto")
      BY <2>1, <3>1, Zenon
    <3>3. c.vhosts[v] \in Range(c.vhosts)
      BY Zenon DEF Range
    <3>4. l \in AllLocations(c)
      BY <3>2, <3>3, Zenon DEF AllLocations
    <3> QED
      BY <3>2, <3>4, Zenon
  <2> QED
    BY <2>2, <2>3
<1>2. "on" \in l.requestBuffering
  <2>1. l.requestBuffering # {}
    BY <1>1 DEF Get
  <2> QED
    BY <1>1, <2>1, Zenon DEF Get
<1>3. ValidRequestBuffering(c)
  BY Zenon DEF Validate
<1>4. IF c.listeners = <<>> THEN c.server.limits.maxRequestBody # {}
      ELSE \A k \in Range(c.listeners) : k.limits.maxRequestBody # {}
  BY <1>1, <1>2, <1>3, Zenon DEF ValidRequestBuffering
<1>5. CASE AnyVhostListen(c.vhosts)
  <2>1. PICK addr \in VhostAddresses(c) : IsVhost(c, addr, x)
    BY <1>5, VhostMode, Zenon
  <2>3. x.server.limits = c.server.limits
    BY <2>1, Zenon DEF IsVhost
  <2>4. c.listeners = <<>>
    BY <1>5, VhostMode, Zenon
  <2> QED
    BY <1>4, <2>3, <2>4, Zenon
<1>6. CASE ~AnyVhostListen(c.vhosts) /\ c.listeners = <<>>
  <2>1. x.server.limits = c.server.limits
    BY <1>6, LegacyMode, LegacyParts, Zenon
  <2> QED
    BY <1>4, <1>6, <2>1, Zenon
<1>7. CASE ~AnyVhostListen(c.vhosts) /\ c.listeners # <<>>
  <2>1. PICK k \in Range(c.listeners) : IsExplicit(c, k, x)
    BY <1>7, ExplicitMode, Zenon
  <2>3. x.server.limits = k.limits
    BY <2>1, Zenon DEF IsExplicit
  <2> QED
    BY <1>4, <1>7, <2>1, <2>3, Zenon
<1> QED
  BY <1>5, <1>6, <1>7, Zenon

\* A virtual host's names are not empty.
LEMMA VhostNamed ==
    ASSUME NEW c, ConfigShape(c), Validate(c), NEW v \in Range(c.vhosts)
    PROVE  Range(v.names) # {}
<1>1. v.names # <<>> /\ IsVec(v.names)
  BY DEF Validate, ValidVhosts, ConfigShape
<1> DEFINE s == v.names
<1>2. s # <<>> /\ s \in Seq(Range(s))
  BY <1>1 DEF IsVec
<1> HIDE DEF s
<1>3. s[1] \in Range(s)
  BY <1>2 DEF Range
<1> QED
  BY <1>3 DEF s

\* TlsListenersHaveCertificates
LEMMA CompiledCertified ==
    ASSUME NEW c, ConfigShape(c), Validate(c), NEW x \in Listeners(c), x.tlsTermination
    PROVE  HasCertificate(x, c)
<1>1. ASSUME NEW v \in Range(c.vhosts), v.tls # {} PROVE HasCertificate(x, c)
  <2>1. Range(v.names) # {}
    BY VhostNamed, Zenon
  <2>2. Range(v.names) \subseteq CertificateNames(x, c)
    BY <1>1, Zenon DEF CertificateNames
  <2> QED
    BY <2>1, <2>2, Zenon DEF HasCertificate
<1>2. CASE AnyVhostListen(c.vhosts)
  <2>1. PICK addr \in VhostAddresses(c) : IsVhost(c, addr, x)
    BY <1>2, VhostMode, Zenon
  <2> DEFINE p == First(c, addr)
             v == c.vhosts[p[1]]
  <2>3. ParsedListen(Entry(c, p)).ssl
    BY <2>1, Zenon DEF IsVhost
  <2>4. p[1] \in DOMAIN c.vhosts /\ p[2] \in DOMAIN v.listen
    BY FirstExists, Zenon
  <2>5. v \in Range(c.vhosts) /\ Entry(c, p) \in Range(v.listen)
    BY <2>4, Zenon DEF Range, Entry
  <2> HIDE DEF p, v
  <2>6. ValidVhostListens(v, AnyVhostListen(c.vhosts), c.server.tls)
    BY <2>5, Zenon DEF Validate, ValidVhosts
  <2>7. v.tls # {}
    BY <2>3, <2>5, <2>6, Zenon DEF ValidVhostListens
  <2> QED
    BY <1>1, <2>5, <2>7, Zenon
<1>3. CASE ~AnyVhostListen(c.vhosts) /\ c.listeners = <<>>
  <2>1. x.server.tls = c.server.tls /\ x.tlsTermination = LegacyTermination(c)
    BY <1>3, LegacyMode, LegacyParts, Zenon
  <2>2. LegacyTermination(c)
    BY <2>1, Zenon
  <2> QED
    BY <1>1, <2>1, <2>2, Zenon DEF LegacyTermination, AnyVhostTls, HasCertificate
<1>4. CASE ~AnyVhostListen(c.vhosts) /\ c.listeners # <<>>
  <2>1. PICK k \in Range(c.listeners) : IsExplicit(c, k, x)
    BY <1>4, ExplicitMode, Zenon
  <2>3. x.server.tls = k.tls /\ x.tlsTermination = (k.tls # {})
    BY <2>1, Zenon DEF IsExplicit
  <2> QED
    BY <2>3, Zenon DEF HasCertificate
<1> QED
  BY <1>2, <1>3, <1>4, Zenon

\* ManagedCertificatesRenewable: the listener for the challenge, and no HTTP/3 beside it.
Renewable(c, m, listeners) ==
    /\ \E x \in listeners : x.server.tcp = 80 /\ ~x.tlsTermination
    /\ \A x \in listeners :
         x.http3 # {} => ~(x.id[1] = "listener" \/
                           \E e \in Range(c.vhosts[m.scope].listen) : e.addr = x.server.tcp)

LEMMA CompiledRenewable ==
    ASSUME NEW c, ConfigShape(c), Validate(c), NEW m \in ManagedCertificates(c)
    PROVE  Renewable(c, m, Listeners(c))
<1>1. m.scope \in DOMAIN c.vhosts /\ Managed(c.vhosts[m.scope])
  BY DEF ManagedCertificates
<1> DEFINE vhost == c.vhosts[m.scope]
<1>2. vhost \in Range(c.vhosts) /\ Managed(vhost)
  BY <1>1, Zenon DEF Range
<1>3. HasHttp01Listener(c) /\ ManagedWithoutHttp3(c)
  BY <1>2, Zenon DEF Validate, ValidAcme
<1>4. ASSUME NEW tcp PROVE Http3Of({}, tcp) = {}
  BY DEF Http3Of
<1> HIDE DEF vhost
<1>5. CASE AnyVhostListen(c.vhosts)
  <2>1. PICK p \in VhostListens(c.vhosts) : ParsedListen(Entry(c, p)).addr = 80 /\ ~ParsedListen(Entry(c, p)).ssl
    BY <1>3, <1>5, Zenon DEF HasHttp01Listener, Entry
  <2>2. Entry(c, p).addr = 80
    BY <2>1 DEF ParsedListen
  <2>3. 80 \in VhostAddresses(c)
    BY <2>1, <2>2, Zenon DEF VhostAddresses, Entry
  <2>4. PICK x \in Listeners(c) : IsVhost(c, 80, x)
    BY <1>5, <2>3, VhostMode, Zenon
  <2>5. First(c, 80) \in VhostListens(c.vhosts) /\ Entry(c, First(c, 80)).addr = 80
    BY <2>3, FirstExists, Zenon
  <2>6. ValidVhostBindings(c.vhosts)
    BY <1>5, VhostMode, Zenon
  <2>7. ParsedListen(Entry(c, First(c, 80))).ssl = ParsedListen(Entry(c, p)).ssl
    <3>1. Entry(c, First(c, 80)).addr = Entry(c, p).addr
      BY <2>2, <2>5, Zenon
    <3> QED
      BY <2>5, <2>6, <3>1, Agree, Zenon
  <2>8. x.server.tcp = 80 /\ ~x.tlsTermination
    BY <2>1, <2>4, <2>7, Zenon DEF IsVhost
  <2>9. ASSUME NEW y \in Listeners(c), y.http3 # {},
               NEW e \in Range(vhost.listen), e.addr = y.server.tcp
        PROVE  FALSE
    <3>1. PICK addr \in VhostAddresses(c) : IsVhost(c, addr, y)
      BY <1>5, VhostMode, Zenon
    <3>2. PICK j \in DOMAIN vhost.listen : e = vhost.listen[j]
      BY Zenon DEF Range
    <3> DEFINE q == <<m.scope, j>>
    <3>3. q \in VhostListens(c.vhosts)
      <4> DEFINE at(v) == {<<v, i>> : i \in DOMAIN c.vhosts[v].listen}
      <4>1. q \in at(m.scope)
        BY <3>2, Zenon DEF vhost
      <4> HIDE DEF q
      <4> QED
        BY <1>1, <4>1, Zenon DEF VhostListens
    <3>4. Entry(c, q) = e
      BY <3>2 DEF Entry, vhost
    <3> HIDE DEF q
    <3>5. e.addr = addr
      BY <2>9, <3>1, Zenon DEF IsVhost
    <3>6. First(c, addr) \in VhostListens(c.vhosts) /\ Entry(c, First(c, addr)).addr = addr
      BY FirstExists, Zenon
    <3>7. ParsedListen(Entry(c, First(c, addr))).http3 = ParsedListen(e).http3
      BY <2>6, <3>3, <3>4, <3>5, <3>6, Agree, Zenon
    <3>8. ~ParsedListen(e).http3
      BY <1>2, <1>3, <1>5, <2>9, Zenon DEF ManagedWithoutHttp3
    <3>9. VhostHttp3(c.vhosts[First(c, addr)[1]], Entry(c, First(c, addr))) = {}
      BY <3>7, <3>8, Zenon DEF VhostHttp3
    <3>10. y.http3 = {}
      BY <1>4, <3>1, <3>9, Zenon DEF IsVhost
    <3> QED
      BY <2>9, <3>10, Zenon
  <2>10. ASSUME NEW y \in Listeners(c) PROVE y.id[1] # "listener"
    <3>1. PICK addr \in VhostAddresses(c) : IsVhost(c, addr, y)
      BY <1>5, VhostMode, Zenon
    <3>2. y.id = <<"vhost", addr>>
      BY <3>1, Zenon DEF IsVhost
    <3> QED
      BY <3>2
  <2> QED
    BY <2>8, <2>9, <2>10, Zenon DEF Renewable, vhost
<1>6. CASE ~AnyVhostListen(c.vhosts)
  <2>1. PICK l \in Range(c.listeners) : l.tls = {} /\ TcpAddress(l) = 80
    BY <1>3, <1>6, Zenon DEF HasHttp01Listener
  <2>2. c.listeners # <<>>
    <3>1. l \in Range(c.listeners)
      OBVIOUS
    <3> QED
      BY <3>1, RangeMemberOfNonempty, Zenon
  <2>3. PICK x \in Listeners(c) : IsExplicit(c, l, x)
    <3>1. \A k \in Range(c.listeners) : \E x \in Listeners(c) : IsExplicit(c, k, x)
      BY <1>6, <2>2, ExplicitMode, Zenon
    <3>2. l \in Range(c.listeners)
      OBVIOUS
    <3> QED
      BY <3>1, <3>2, Zenon
  <2>4. x.server.tcp = 80 /\ ~x.tlsTermination
    BY <2>1, <2>3, Zenon DEF IsExplicit
  <2>5. ASSUME NEW y \in Listeners(c), y.http3 # {} PROVE FALSE
    <3>1. PICK k \in Range(c.listeners) : IsExplicit(c, k, y)
      BY <1>6, <2>2, ExplicitMode, Zenon
    <3>2. k.http3 # {}
      BY <1>4, <2>5, <3>1, Zenon DEF IsExplicit
    <3>3. PICK h : h \in k.http3
      BY <3>2, Zenon
    <3>4. ValidExplicitListeners(c.listeners, c.vhosts)
      BY <1>6, <2>2, ExplicitMode, Zenon
    <3>5. ValidListenerLike(k, TRUE)
      BY <3>1, <3>4, Zenon DEF ValidExplicitListeners, Range
    <3>6. k.tls # {}
      BY <3>3, <3>5, Zenon DEF ValidListenerLike, ValidHttp3
    <3>7. ~(k.tls # {} /\ k.http3 # {})
      BY <1>2, <1>3, <1>6, <3>1, Zenon DEF ManagedWithoutHttp3
    <3> QED
      BY <3>2, <3>6, <3>7, Zenon
  <2> QED
    BY <2>4, <2>5, Zenon DEF Renewable
<1> QED
  BY <1>5, <1>6, Zenon

\* What HTTP/3 is compiled to.
Http3Compiled(g, tcp) ==
    [udp |-> Get(g.listen, tcp), connectionIds |-> Get(g.connectionIds, 2),
     retry |-> TrueIn(g.retry), hostKey |-> g.hostKey, earlyData |-> TrueIn(g.earlyData)]

\* A TLS policy early data is offered with.
Resumable(t) == KeepsSessions(t) /\ (IssuesTickets(t) => ~TrueIn(t.tickets) /\ t.ticketCount # {})

\* A block validation has checked, against the TLS policy of the listener.
LEMMA Http3Checked ==
    ASSUME NEW g, NEW tls, ValidHttp3(g, tls), NEW tcp, NEW h, h = Http3Compiled(g, tcp)
    PROVE  /\ h.earlyData => \A t \in tls : Resumable(t)
           /\ (h.retry \/ h.connectionIds > 2) => h.hostKey # {}
<1>1. /\ h.connectionIds = Get(g.connectionIds, 2) /\ h.retry = TrueIn(g.retry)
      /\ h.hostKey = g.hostKey /\ h.earlyData = TrueIn(g.earlyData)
  BY DEF Http3Compiled
<1>2. h.earlyData => \A t \in tls : Resumable(t)
  <2>1. h.earlyData => \A t \in tls : ~FalseIn(t.resumption) /\ ~TrueIn(t.tickets) /\ 0 \notin t.cacheSize
    BY <1>1, Zenon DEF ValidHttp3, Positive
  <2> QED
    BY <2>1, Zenon DEF Resumable, KeepsSessions, IssuesTickets
<1>3. h.retry => h.hostKey # {}
  BY <1>1, Zenon DEF ValidHttp3
<1>4. h.connectionIds > 2 => h.hostKey # {}
  <2> SUFFICES ASSUME h.connectionIds > 2 PROVE h.hostKey # {}
    OBVIOUS
  <2> DEFINE n == Get(g.connectionIds, 2)
  <2>1. n > 2
    BY <1>1
  <2>2. g.connectionIds # {}
    BY <2>1 DEF Get
  <2>3. n \in g.connectionIds
    BY <2>2, Zenon DEF Get
  <2>4. g.connectionIds \subseteq {2, 5} /\ (5 \in g.connectionIds => g.hostKey # {})
    BY Zenon DEF ValidHttp3
  <2> HIDE DEF n
  <2>5. n = 5
    BY <2>1, <2>3, <2>4
  <2> QED
    BY <1>1, <2>3, <2>4, <2>5
<1> QED
  BY <1>2, <1>3, <1>4, Zenon

\* The block a virtual host without one is given.
LEMMA Http3Default ==
    ASSUME NEW tcp, NEW h, h = Http3Compiled(DefaultHttp3, tcp)
    PROVE  ~h.earlyData /\ ~(h.retry \/ h.connectionIds > 2)
<1> DEFINE g == DefaultHttp3
<1>1. g.connectionIds = {} /\ g.retry = {} /\ g.earlyData = {}
  BY DEF DefaultHttp3
<1> HIDE DEF g
<1>2. h.connectionIds = Get(g.connectionIds, 2) /\ h.retry = TrueIn(g.retry) /\ h.earlyData = TrueIn(g.earlyData)
  BY DEF Http3Compiled, g
<1>3. Get(g.connectionIds, 2) = 2
  BY <1>1, Zenon DEF Get
<1>4. ~TrueIn(g.retry) /\ ~TrueIn(g.earlyData)
  BY <1>1, Zenon DEF TrueIn
<1>5. ~(h.connectionIds > 2)
  BY <1>2, <1>3
<1> QED
  BY <1>2, <1>4, <1>5, Zenon

\* Http3IsSecured
LEMMA CompiledSecured ==
    ASSUME NEW c, ConfigShape(c), Validate(c), NEW en, Compiles(c, en),
           NEW x \in Listeners(c), BuildsAcceptor(x, c, en), NEW h \in x.http3
    PROVE  /\ x.tlsTermination
           /\ \A t \in x.server.tls : \A v \in t.versions : "tls13" \in Range(v)
           /\ h.earlyData => \A t \in x.server.tls : Resumable(t)
           /\ (h.retry \/ h.connectionIds > 2) => h.hostKey # {}
<1> DEFINE Secured ==
             /\ h.earlyData => \A t \in x.server.tls : Resumable(t)
             /\ (h.retry \/ h.connectionIds > 2) => h.hostKey # {}
<1>1. CompilesListeners(c, en)
  BY Zenon DEF Compiles
<1>2. ASSUME NEW S, NEW tcp, x.http3 = Http3Of(S, tcp) PROVE \E g \in S : h = Http3Compiled(g, tcp)
  BY <1>2, Zenon DEF Http3Of, Http3Compiled
<1>3. ASSUME NEW g, NEW tcp, h = Http3Compiled(g, tcp), NEW tls, ValidHttp3(g, tls), x.server.tls \subseteq tls
      PROVE  Secured
  BY <1>3, Http3Checked, Zenon
<1>4. x.tlsTermination /\ Secured
  <2>1. CASE AnyVhostListen(c.vhosts)
    <3>1. PICK addr \in VhostAddresses(c) : IsVhost(c, addr, x)
      BY <2>1, VhostMode, Zenon
    <3> DEFINE p == First(c, addr)
               v == c.vhosts[p[1]]
    <3>2. /\ p[1] \in DOMAIN c.vhosts
          /\ x.http3 = Http3Of(VhostHttp3(v, Entry(c, p)), addr)
          /\ x.server.tls = (IF ParsedListen(Entry(c, p)).ssl THEN c.server.tls ELSE {})
          /\ x.tlsTermination = ParsedListen(Entry(c, p)).ssl
      BY <3>1, FirstExists, Zenon DEF IsVhost
    <3>3. v \in Range(c.vhosts)
      BY <3>2, Zenon DEF Range
    <3>4. CompilesHttp3(VhostHttp3(v, Entry(c, p)), ParsedListen(Entry(c, p)).ssl)
      BY <1>1, <2>1, Zenon DEF CompilesListeners, CompilesVhostListeners, Entry, First
    <3> HIDE DEF p, v
    <3>5. PICK g \in VhostHttp3(v, Entry(c, p)) : h = Http3Compiled(g, addr)
      BY <1>2, <3>2, Zenon
    <3>6. ParsedListen(Entry(c, p)).ssl
      BY <3>4, <3>5, Zenon DEF CompilesHttp3
    <3>7. g = Get(v.http3, DefaultHttp3)
      BY <3>5, Zenon DEF VhostHttp3
    <3>8. CASE v.http3 = {}
      <4>1. g = DefaultHttp3
        BY <3>7, <3>8, Zenon DEF Get
      <4>2. ~h.earlyData /\ ~(h.retry \/ h.connectionIds > 2)
        BY <3>5, <4>1, Http3Default, Zenon
      <4> QED
        BY <3>2, <3>6, <4>2, Zenon
    <3>9. CASE v.http3 # {}
      <4>1. g \in v.http3
        BY <3>7, <3>9, Zenon DEF Get
      <4> DEFINE tls == IF c.server.tls # {} THEN c.server.tls ELSE {VhostTlsPolicy(t) : t \in v.tls}
      <4>2. ValidVhostListens(v, AnyVhostListen(c.vhosts), c.server.tls)
        BY <3>3, Zenon DEF Validate, ValidVhosts
      <4>3. ValidHttp3(g, tls)
        BY <4>1, <4>2, Zenon DEF ValidVhostListens
      <4>4. x.server.tls \subseteq tls
        BY <3>2, <3>6, Zenon
      <4> HIDE DEF tls
      <4>5. Secured
        BY <1>3, <3>5, <4>3, <4>4, Zenon
      <4> QED
        BY <3>2, <3>6, <4>5, Zenon
    <3> QED
      BY <3>8, <3>9, Zenon
  <2>2. CASE ~AnyVhostListen(c.vhosts) /\ c.listeners = <<>>
    <3>1. /\ x.server.tls = c.server.tls /\ x.tlsTermination = LegacyTermination(c)
          /\ x.http3 = Http3Of(c.server.http3, TcpAddress(c.server))
      BY <2>2, LegacyMode, LegacyParts, Zenon
    <3>2. PICK g \in c.server.http3 : h = Http3Compiled(g, TcpAddress(c.server))
      BY <1>2, <3>1, Zenon
    <3>3. CompilesHttp3(c.server.http3, LegacyTermination(c))
      BY <1>1, <2>2, Zenon DEF CompilesListeners, CompilesLegacy
    <3>4. ValidHttp3(g, c.server.tls)
      BY <3>2, Zenon DEF Validate, ValidListenerLike
    <3>5. Secured
      BY <1>3, <3>1, <3>2, <3>4, Zenon
    <3>6. LegacyTermination(c)
      BY <3>2, <3>3, Zenon DEF CompilesHttp3
    <3> QED
      BY <3>1, <3>5, <3>6, Zenon
  <2>3. CASE ~AnyVhostListen(c.vhosts) /\ c.listeners # <<>>
    <3>1. PICK k \in Range(c.listeners) : IsExplicit(c, k, x)
      BY <2>3, ExplicitMode, Zenon
    <3>2. x.server.tls = k.tls /\ x.tlsTermination = (k.tls # {}) /\ x.http3 = Http3Of(k.http3, TcpAddress(k))
      BY <3>1, Zenon DEF IsExplicit
    <3>3. PICK g \in k.http3 : h = Http3Compiled(g, TcpAddress(k))
      BY <1>2, <3>2, Zenon
    <3>4. ValidExplicitListeners(c.listeners, c.vhosts)
      BY <2>3, ExplicitMode, Zenon
    <3>5. ValidListenerLike(k, TRUE)
      BY <3>1, <3>4, Zenon DEF ValidExplicitListeners, Range
    <3>6. ValidHttp3(g, k.tls)
      BY <3>3, <3>5, Zenon DEF ValidListenerLike
    <3>7. Secured
      BY <1>3, <3>2, <3>3, <3>6, Zenon
    <3>8. k.tls # {}
      BY <3>6, Zenon DEF ValidHttp3
    <3> QED
      BY <3>2, <3>7, <3>8, Zenon
  <2> QED
    BY <2>1, <2>2, <2>3, Zenon
<1>5. \A t \in x.server.tls : \A v \in t.versions : "tls13" \in Range(v)
  BY <1>4, Zenon DEF BuildsAcceptor
<1> QED
  BY <1>4, <1>5, Zenon

\* The names of upstreams: the scope of a virtual host is never the global one.
LEMMA ScopesNotZero == ASSUME NEW c, ConfigShape(c), NEW v \in DOMAIN c.vhosts PROVE v # 0
<1>1. DOMAIN c.vhosts = 1 .. Len(c.vhosts) /\ Len(c.vhosts) \in Nat
  BY DEF ConfigShape, IsVec
<1> QED
  BY <1>1

LEMMA SamePair == ASSUME NEW v, NEW n, NEW w, NEW k, <<v, n>> = <<w, k>> PROVE v = w /\ n = k
  OBVIOUS

LEMMA LocalScope ==
    ASSUME NEW c, ConfigShape(c), NEW v \in DOMAIN c.vhosts, NEW n PROVE ScopedName(v, n) = <<v, n>>
BY ScopesNotZero, Zenon DEF ScopedName

\* An upstream of a scope, and the declaration it comes from.
FromOneOf(ups, scope, u) ==
    u.scope = scope /\ \E g \in Range(ups) : u.name = ScopedName(scope, g.name) /\ u.upstream = UpstreamOf(g)

LEMMA ScopedOrigin ==
    ASSUME NEW ups, NEW scope, NEW u \in ScopedUpstreams(ups, scope)
    PROVE  FromOneOf(ups, scope, u)
BY DEF ScopedUpstreams, FromOneOf

LEMMA ScopedMember ==
    ASSUME NEW ups, NEW scope, NEW n \in UpstreamNames(ups)
    PROVE  \E u \in ScopedUpstreams(ups, scope) : u.name = ScopedName(scope, n)
<1>1. PICK g \in Range(ups) : n = g.name
  BY Zenon DEF UpstreamNames
<1> DEFINE u == [name |-> ScopedName(scope, g.name), scope |-> scope, upstream |-> UpstreamOf(g)]
<1>2. u.name = ScopedName(scope, n)
  BY <1>1
<1>3. u \in ScopedUpstreams(ups, scope)
  BY Zenon DEF ScopedUpstreams
<1> QED
  BY <1>2, <1>3, Zenon

\* The name of an upstream of a virtual host leads back to its own name.
LEMMA OwnName ==
    ASSUME NEW c, ConfigShape(c), NEW v \in DOMAIN c.vhosts, NEW w \in OwnUpstreams(c, v), NEW n,
           w.name = ScopedName(v, n)
    PROVE  n \in UpstreamNames(c.vhosts[v].upstreams)
<1>1. FromOneOf(c.vhosts[v].upstreams, v, w)
  BY ScopedOrigin, Zenon DEF OwnUpstreams
<1>2. PICK g \in Range(c.vhosts[v].upstreams) : w.name = ScopedName(v, g.name)
  BY <1>1, Zenon DEF FromOneOf
<1>3. <<v, g.name>> = <<v, n>>
  BY <1>2, LocalScope, Zenon
<1>4. g.name = n
  BY <1>3, SamePair
<1> QED
  BY <1>2, <1>4, Zenon DEF UpstreamNames

\* An upstream of the snapshot is global, or of one virtual host.
AllOwn(c) == UNION {OwnUpstreams(c, v) : v \in DOMAIN c.vhosts}

LEMMA UpstreamOrigins ==
    ASSUME NEW c, NEW u \in CompiledUpstreams(c)
    PROVE  \/ u \in GlobalUpstreams(c)
           \/ \E v \in DOMAIN c.vhosts : u \in OwnUpstreams(c, v)
<1>1. u \in Extended(GlobalUpstreams(c), AllOwn(c))
  BY Zenon DEF CompiledUpstreams, AllOwn
<1>2. u \in GlobalUpstreams(c) \/ u \in AllOwn(c)
  BY <1>1, Zenon DEF Extended
<1> QED
  BY <1>2, Zenon DEF AllOwn

LEMMA OwnIsCompiled ==
    ASSUME NEW c, NEW v \in DOMAIN c.vhosts, NEW u \in OwnUpstreams(c, v)
    PROVE  u \in CompiledUpstreams(c)
<1>1. u \in AllOwn(c)
  BY Zenon DEF AllOwn
<1>2. u \in Extended(GlobalUpstreams(c), AllOwn(c))
  BY <1>1, Zenon DEF Extended
<1> QED
  BY <1>2, Zenon DEF CompiledUpstreams, AllOwn

LEMMA GlobalIsCompiled ==
    ASSUME NEW c, ConfigShape(c), NEW u \in GlobalUpstreams(c)
    PROVE  \/ u \in CompiledUpstreams(c)
           \/ \E w \in CompiledUpstreams(c) : w.name = u.name /\ w.scope # 0
<1>1. CASE \A w \in AllOwn(c) : w.name # u.name
  <2>1. u \in Extended(GlobalUpstreams(c), AllOwn(c))
    BY <1>1, Zenon DEF Extended
  <2> QED
    BY <2>1, Zenon DEF CompiledUpstreams, AllOwn
<1>2. CASE \E w \in AllOwn(c) : w.name = u.name
  <2>1. PICK v \in DOMAIN c.vhosts : \E w \in OwnUpstreams(c, v) : w.name = u.name
    BY <1>2, Zenon DEF AllOwn
  <2>2. PICK w \in OwnUpstreams(c, v) : w.name = u.name
    BY <2>1
  <2>3. w.scope = v
    BY ScopedOrigin, Zenon DEF OwnUpstreams, FromOneOf
  <2>4. w \in CompiledUpstreams(c) /\ w.scope # 0
    BY <2>3, OwnIsCompiled, ScopesNotZero, Zenon
  <2> QED
    BY <2>2, <2>4, Zenon
<1> QED
  BY <1>1, <1>2, Zenon

\* A compiled route, and the location it comes from.
RouteFrom(r, l, visible, names, scope) ==
    /\ r.scope = scope /\ r.cache = RouteCacheOf(l.cache)
    /\ r.action.kind = "proxy" => l.handler.kind = "proxy"
    /\ r.action.upstream =
         IF l.handler.kind = "proxy" THEN ProxiedUpstream(l.handler, visible, names, scope) ELSE {}

LEMMA RouteParts ==
    ASSUME NEW ls, NEW visible, NEW names, NEW scope, NEW r \in RoutesOf(ls, visible, names, scope)
    PROVE  \E l \in Range(ls) : RouteFrom(r, l, visible, names, scope)
<1>1. PICK l \in Range(ls) : r = RouteOf(l, visible, names, scope)
  BY Zenon DEF RoutesOf
<1> DEFINE a == ActionOf(l.handler, visible, names, scope)
<1>2. r.scope = scope /\ r.cache = RouteCacheOf(l.cache) /\ r.action = a
  BY <1>1 DEF RouteOf
<1>3. /\ a.upstream = IF l.handler.kind = "proxy" THEN ProxiedUpstream(l.handler, visible, names, scope) ELSE {}
      /\ a.kind = "proxy" => l.handler.kind = "proxy"
  BY DEF ActionOf
<1> HIDE DEF a
<1>4. RouteFrom(r, l, visible, names, scope)
  BY <1>2, <1>3, Zenon DEF RouteFrom
<1> QED
  BY <1>4, Zenon

\* The two kinds of routes: the default host's, and a virtual host's.
LEMMA RouteOrigins ==
    ASSUME NEW c, NEW r \in Routes(c)
    PROVE  \/ r \in RoutesOf(c.locations, VisibleTo(c, 0), {}, 0)
           \/ \E v \in DOMAIN c.vhosts :
                r \in RoutesOf(c.vhosts[v].locations, VisibleTo(c, v), UpstreamNames(c.vhosts[v].upstreams), v)
BY Zenon DEF Routes

\* Where a proxied route of a scope leads.
Resolved(upstreams, u, scope) ==
    /\ u.scope \in {0, scope}
    /\ u.scope = 0 /\ scope # 0 =>
         ~\E w \in upstreams : w.scope = scope /\ w.name = ScopedName(scope, u.name)
    /\ \/ u \in upstreams
       \/ u.scope = 0 /\ \E w \in upstreams : w.name = u.name /\ w.scope # 0

LEMMA ResolvedGlobally ==
    ASSUME NEW c, ConfigShape(c), NEW u \in GlobalUpstreams(c), NEW scope,
           \A v \in DOMAIN c.vhosts : v = scope => u.name \notin UpstreamNames(c.vhosts[v].upstreams)
    PROVE  Resolved(CompiledUpstreams(c), u, scope)
<1>1. u.scope = 0
  BY ScopedOrigin, Zenon DEF GlobalUpstreams, FromOneOf
<1>2. \/ u \in CompiledUpstreams(c)
      \/ \E w \in CompiledUpstreams(c) : w.name = u.name /\ w.scope # 0
  BY GlobalIsCompiled, Zenon
<1>3. ASSUME NEW w \in CompiledUpstreams(c), w.scope = scope, scope # 0, w.name = ScopedName(scope, u.name)
      PROVE  FALSE
  <2>1. w \notin GlobalUpstreams(c)
    BY <1>3, ScopedOrigin, Zenon DEF GlobalUpstreams, FromOneOf
  <2>2. PICK v \in DOMAIN c.vhosts : w \in OwnUpstreams(c, v)
    BY <2>1, UpstreamOrigins, Zenon
  <2>3. v = scope
    BY <1>3, <2>2, ScopedOrigin, Zenon DEF OwnUpstreams, FromOneOf
  <2>4. w.name = ScopedName(v, u.name)
    BY <1>3, <2>3, Zenon
  <2>5. u.name \in UpstreamNames(c.vhosts[v].upstreams)
    BY <2>2, <2>4, OwnName, Zenon
  <2> QED
    BY <2>3, <2>5, Zenon
<1> QED
  BY <1>1, <1>2, <1>3, Zenon DEF Resolved

LEMMA ResolvedLocally ==
    ASSUME NEW c, ConfigShape(c), NEW v \in DOMAIN c.vhosts, NEW u \in OwnUpstreams(c, v)
    PROVE  Resolved(CompiledUpstreams(c), u, v)
<1>1. u.scope = v
  BY ScopedOrigin, Zenon DEF OwnUpstreams, FromOneOf
<1>2. u \in CompiledUpstreams(c) /\ v # 0
  BY OwnIsCompiled, ScopesNotZero, Zenon
<1> QED
  BY <1>1, <1>2, Zenon DEF Resolved

LEMMA CompiledResolved ==
    ASSUME NEW c, ConfigShape(c), NEW en, Compiles(c, en), NEW r \in Routes(c)
    PROVE  /\ r.action.kind = "proxy" => r.action.upstream # {}
           /\ \A u \in r.action.upstream : Resolved(CompiledUpstreams(c), u, r.scope)
<1>1. CASE r \in RoutesOf(c.locations, VisibleTo(c, 0), {}, 0)
  <2>1. PICK l \in Range(c.locations) : RouteFrom(r, l, VisibleTo(c, 0), {}, 0)
    BY <1>1, RouteParts, Zenon
  <2>2. CompilesRoute(l, VisibleTo(c, 0), {}, 0)
    BY Zenon DEF Compiles
  <2>3. r.action.kind = "proxy" => r.action.upstream # {}
    BY <2>1, <2>2, Zenon DEF CompilesRoute, RouteFrom
  <2>4. ASSUME NEW u \in r.action.upstream PROVE Resolved(CompiledUpstreams(c), u, r.scope)
    <3>1. u \in VisibleTo(c, 0) /\ r.scope = 0
      BY <2>1, Zenon DEF RouteFrom, ProxiedUpstream
    <3>2. u \in GlobalUpstreams(c)
      BY <3>1, Zenon DEF VisibleTo
    <3>3. \A v \in DOMAIN c.vhosts : v # 0
      BY ScopesNotZero, Zenon
    <3> QED
      BY <3>1, <3>2, <3>3, ResolvedGlobally, Zenon
  <2> QED
    BY <2>3, <2>4, Zenon
<1>2. ASSUME NEW v \in DOMAIN c.vhosts,
             r \in RoutesOf(c.vhosts[v].locations, VisibleTo(c, v), UpstreamNames(c.vhosts[v].upstreams), v)
      PROVE  /\ r.action.kind = "proxy" => r.action.upstream # {}
             /\ \A u \in r.action.upstream : Resolved(CompiledUpstreams(c), u, r.scope)
  <2> DEFINE local == UpstreamNames(c.vhosts[v].upstreams)
  <2>1. PICK l \in Range(c.vhosts[v].locations) : RouteFrom(r, l, VisibleTo(c, v), local, v)
    BY <1>2, RouteParts, Zenon
  <2>2. CompilesRoute(l, VisibleTo(c, v), local, v)
    <3>1. CompilesVhost(c, v, en)
      BY Zenon DEF Compiles
    <3> QED
      BY <2>1, <3>1, Zenon DEF CompilesVhost
  <2>3. ASSUME NEW n \in local PROVE \E w \in OwnUpstreams(c, v) : w.name = ScopedName(v, n)
    BY <2>3, ScopedMember, Zenon DEF OwnUpstreams
  <2> HIDE DEF local
  <2>4. r.action.kind = "proxy" => r.action.upstream # {}
    BY <2>1, <2>2, Zenon DEF CompilesRoute, RouteFrom
  <2>5. ASSUME NEW u \in r.action.upstream PROVE Resolved(CompiledUpstreams(c), u, r.scope)
    <3> DEFINE n == l.handler.upstream
    <3>1. u \in VisibleTo(c, v) /\ u.name = ResolveUpstream(n, local, v) /\ r.scope = v
      BY <2>1, Zenon DEF RouteFrom, ProxiedUpstream
    <3>2. u \in Extended(GlobalUpstreams(c), OwnUpstreams(c, v))
      BY <3>1, ScopesNotZero, Zenon DEF VisibleTo
    <3> HIDE DEF n
    <3>3. CASE u \in OwnUpstreams(c, v)
      BY <3>1, <3>3, ResolvedLocally, Zenon
    <3>4. CASE u \notin OwnUpstreams(c, v)
      <4>1. u \in GlobalUpstreams(c) /\ \A w \in OwnUpstreams(c, v) : w.name # u.name
        BY <3>2, <3>4, Zenon DEF Extended
      <4>2. n \notin local
        BY <2>3, <3>1, <4>1, Zenon DEF ResolveUpstream
      <4>3. u.name = n
        BY <3>1, <4>2, Zenon DEF ResolveUpstream, ScopedName
      <4>4. \A w \in DOMAIN c.vhosts : w = v => u.name \notin UpstreamNames(c.vhosts[w].upstreams)
        BY <4>2, <4>3, Zenon DEF local
      <4> QED
        BY <3>1, <4>1, <4>4, ResolvedGlobally, Zenon
    <3> QED
      BY <3>3, <3>4, Zenon
  <2> QED
    BY <2>4, <2>5, Zenon
<1> QED
  BY <1>1, <1>2, RouteOrigins, Zenon

\* What a route caches: a zone that exists, and ranges where it slices them.
LEMMA CompiledCaches ==
    ASSUME NEW c, ConfigShape(c), Validate(c), NEW r \in Routes(c), NEW k \in r.cache
    PROVE  /\ \E z \in Range(c.zones) : ZoneOf(z).name = k.zone
           /\ k.sliceSize # {} => k.rangeRequests = "cache"
<1>1. ASSUME NEW ls, NEW visible, NEW names, NEW scope, r \in RoutesOf(ls, visible, names, scope), NEW ups,
             ValidLocations(ls, ups, ZoneNames(c.zones)),
             \A l \in Range(ls) : \A cache \in l.cache : AtMostOne(cache.rangeRequests)
      PROVE  /\ \E z \in Range(c.zones) : ZoneOf(z).name = k.zone
             /\ k.sliceSize # {} => k.rangeRequests = "cache"
  <2>1. PICK l \in Range(ls) : r.cache = RouteCacheOf(l.cache)
    <3>1. PICK l \in Range(ls) : RouteFrom(r, l, visible, names, scope)
      BY <1>1, RouteParts, Zenon
    <3> QED
      BY <3>1, Zenon DEF RouteFrom
  <2>2. PICK g \in l.cache : /\ k.zone = g.zone /\ k.rangeRequests = Get(g.rangeRequests, "bypass")
                             /\ k.sliceSize = g.sliceSize
    BY <2>1 DEF RouteCacheOf
  <2>3. ValidRouteCache(g, ZoneNames(c.zones))
    BY <1>1, <2>1, <2>2, Zenon DEF ValidLocations
  <2>4. PICK z \in Range(c.zones) : z.name = g.zone
    BY <2>3, Zenon DEF ValidRouteCache, ZoneNames
  <2>5. ZoneOf(z).name = z.name
    BY DEF ZoneOf
  <2>6. ASSUME k.sliceSize # {} PROVE k.rangeRequests = "cache"
    <3>1. "cache" \in g.rangeRequests
      BY <2>2, <2>3, <2>6, Zenon DEF ValidRouteCache
    <3>2. Get(g.rangeRequests, "bypass") \in g.rangeRequests
      BY <3>1, Zenon DEF Get
    <3>3. AtMostOne(g.rangeRequests)
      BY <1>1, <2>1, <2>2, Zenon
    <3> QED
      BY <2>2, <3>1, <3>2, <3>3, Zenon DEF AtMostOne
  <2> QED
    BY <2>2, <2>4, <2>5, <2>6, Zenon
<1>2. CASE r \in RoutesOf(c.locations, VisibleTo(c, 0), {}, 0)
  <2>1. ValidLocations(c.locations, UpstreamNames(c.upstreams), ZoneNames(c.zones))
    BY Zenon DEF Validate
  <2>2. \A l \in Range(c.locations) : \A cache \in l.cache : AtMostOne(cache.rangeRequests)
    BY Zenon DEF ConfigShape, AllLocations
  <2> QED
    BY <1>1, <1>2, <2>1, <2>2, Zenon
<1>3. ASSUME NEW v \in DOMAIN c.vhosts,
             r \in RoutesOf(c.vhosts[v].locations, VisibleTo(c, v), UpstreamNames(c.vhosts[v].upstreams), v)
      PROVE  /\ \E z \in Range(c.zones) : ZoneOf(z).name = k.zone
             /\ k.sliceSize # {} => k.rangeRequests = "cache"
  <2>1. c.vhosts[v] \in Range(c.vhosts)
    BY Zenon DEF Range
  <2>2. ValidLocations(c.vhosts[v].locations, VisibleUpstreams(c, c.vhosts[v]), ZoneNames(c.zones))
    BY <2>1, Zenon DEF Validate, ValidVhosts
  <2>3. \A l \in Range(c.vhosts[v].locations) : \A cache \in l.cache : AtMostOne(cache.rangeRequests)
    BY <2>1, Zenon DEF ConfigShape, AllLocations
  <2> QED
    BY <1>1, <1>3, <2>2, <2>3, Zenon
<1> QED
  BY <1>2, <1>3, RouteOrigins, Zenon

\* The lifetimes of resolved names, with their defaults.
LEMMA CompiledLifetimes ==
    ASSUME NEW c, NEW en, Compiles(c, en), NEW u \in CompiledUpstreams(c), NEW d \in u.upstream.dns
    PROVE  d.min <= d.max
<1>1. PICK g : u.upstream = UpstreamOf(g) /\ CompilesUpstream(g, en)
  <2>1. CASE u \in GlobalUpstreams(c)
    <3>1. FromOneOf(c.upstreams, 0, u)
      BY <2>1, ScopedOrigin, Zenon DEF GlobalUpstreams
    <3> QED
      BY <3>1, Zenon DEF FromOneOf, Compiles
  <2>2. CASE \E v \in DOMAIN c.vhosts : u \in OwnUpstreams(c, v)
    <3>1. PICK v \in DOMAIN c.vhosts : u \in OwnUpstreams(c, v)
      BY <2>2
    <3>2. FromOneOf(c.vhosts[v].upstreams, v, u)
      BY <3>1, ScopedOrigin, Zenon DEF OwnUpstreams
    <3>3. CompilesVhost(c, v, en)
      BY Zenon DEF Compiles
    <3> QED
      BY <3>2, <3>3, Zenon DEF FromOneOf, CompilesVhost
  <2> QED
    BY <2>1, <2>2, UpstreamOrigins, Zenon
<1> DEFINE default == [min |-> DefaultDnsMinTtl, max |-> DefaultDnsMaxTtl]
           given == {[min |-> DnsMin(x), max |-> DnsMax(x)] : x \in g.dns}
<1>2. u.upstream.dns = OrElse(given, {default})
  BY <1>1 DEF UpstreamOf
<1>3. CASE d \in given
  <2>1. PICK x \in g.dns : d = [min |-> DnsMin(x), max |-> DnsMax(x)]
    BY <1>3, Zenon
  <2>2. d.min = DnsMin(x) /\ d.max = DnsMax(x)
    BY <2>1
  <2>3. DnsMin(x) <= DnsMax(x)
    BY <1>1, <2>1, Zenon DEF CompilesUpstream
  <2> QED
    BY <2>2, <2>3
<1>4. CASE d = default
  BY <1>4 DEF DefaultDnsMinTtl, DefaultDnsMaxTtl
<1> HIDE DEF given, default
<1>5. d \in given \/ d = default
  BY <1>2, Zenon DEF OrElse
<1> QED
  BY <1>3, <1>4, <1>5

\* DefaultsKeepBounds of a zone.
LEMMA CompiledZones ==
    ASSUME NEW c, NEW en, Compiles(c, en), NEW z \in {ZoneOf(x) : x \in Range(c.zones)}, NEW size \in z.maxSize
    PROVE  z.maxEntry <= size
<1>1. PICK x \in Range(c.zones) : z = ZoneOf(x)
  BY Zenon
<1>2. z.maxSize = x.sizes.maxSize /\ z.maxEntry = MaxEntry(x)
  BY <1>1 DEF ZoneOf
<1>3. CompilesZone(x)
  BY Zenon DEF Compiles
<1> QED
  BY <1>2, <1>3 DEF CompilesZone

\* The inductive invariant: a snapshot was compiled from a configuration that passed
\* validation, and every acceptor was built before the server is ready.
SnapshotInv ==
    /\ ConfigShape(config)
    /\ loadPhase \in {"validated", "compiled", "ready"} => Validate(config)
    /\ snapshot # {} => snapshot = {Snapshot(config)} /\ Validate(config) /\ Compiles(config, env)
    /\ loadPhase = "ready" => \A s \in snapshot : \A l \in s.listeners : BuildsAcceptor(l, config, env)

LEMMA SnapshotSteps == SnapshotInv /\ [LoadNext]_loadVars => SnapshotInv'
<1> SUFFICES ASSUME SnapshotInv, [LoadNext]_loadVars PROVE SnapshotInv'
  OBVIOUS
<1>1. CASE /\ UNCHANGED <<config, env, snapshot>>
           /\ loadPhase' = loadPhase \/ loadPhase' \notin {"validated", "compiled", "ready"}
  BY <1>1 DEF SnapshotInv
<1>2. CASE ExpandText \/ ReadInclude \/ OpenInclude \/ CloseInclude
  BY <1>1, <1>2, Zenon DEF ExpandText, ReadInclude, OpenInclude, CloseInclude, KeepLoaded
<1>3. CASE ExpandTextFails \/ ReadIncludeFails \/ OpenIncludeFails \/ ParseConfig \/ ParseConfigFails
  <2>1. UNCHANGED <<config, env, snapshot>> /\ loadPhase' \in {"rejected", "parsed"}
    BY <1>3 DEF ExpandTextFails, ReadIncludeFails, OpenIncludeFails, ParseConfig, ParseConfigFails, Reject
  <2> QED
    BY <1>1, <2>1
<1>4. CASE ValidateConfig
  <2>1. CASE Validate(config) /\ loadPhase' = "validated" /\ UNCHANGED <<config, env, snapshot>>
    BY <2>1 DEF SnapshotInv
  <2>2. CASE Reject("validate")
    BY <1>1, <2>2 DEF Reject
  <2> QED
    BY <1>4, <2>1, <2>2, Zenon DEF ValidateConfig
<1>5. CASE CompileConfig
  <2>1. CASE /\ loadPhase = "validated" /\ Compiles(config, env) /\ loadPhase' = "compiled"
             /\ snapshot' = {Snapshot(config)} /\ UNCHANGED <<config, env>>
    BY <2>1 DEF SnapshotInv
  <2>2. CASE Reject("compile")
    BY <1>1, <2>2 DEF Reject
  <2> QED
    BY <1>5, <2>1, <2>2, Zenon DEF CompileConfig
<1>6. CASE BuildAcceptors
  <2>1. CASE /\ loadPhase = "compiled" /\ loadPhase' = "ready" /\ UNCHANGED <<config, env, snapshot>>
             /\ \A s \in snapshot : \A l \in s.listeners : BuildsAcceptor(l, config, env)
    BY <2>1 DEF SnapshotInv
  <2>2. CASE Reject("acceptor")
    BY <1>1, <2>2 DEF Reject
  <2> QED
    BY <1>6, <2>1, <2>2, Zenon DEF BuildAcceptors
<1>7. CASE UNCHANGED loadVars
  BY <1>1, <1>7 DEF loadVars
<1> QED
  BY <1>2, <1>3, <1>4, <1>5, <1>6, <1>7, Zenon DEF LoadNext

\* The parts of a snapshot.
LEMMA SnapshotParts ==
    ASSUME SnapshotInv, NEW s \in snapshot
    PROVE  /\ ConfigShape(config) /\ Validate(config) /\ Compiles(config, env)
           /\ s.listeners = Listeners(config) /\ s.upstreams = CompiledUpstreams(config)
           /\ s.zones = {ZoneOf(z) : z \in Range(config.zones)} /\ s.routes = Routes(config)
           /\ s.managed = ManagedCertificates(config)
<1>1. s = Snapshot(config) /\ ConfigShape(config) /\ Validate(config) /\ Compiles(config, env)
  BY DEF SnapshotInv
<1>2. /\ Snapshot(config).listeners = Listeners(config) /\ Snapshot(config).upstreams = CompiledUpstreams(config)
      /\ Snapshot(config).zones = {ZoneOf(z) : z \in Range(config.zones)} /\ Snapshot(config).routes = Routes(config)
      /\ Snapshot(config).managed = ManagedCertificates(config)
  BY DEF Snapshot
<1> QED
  BY <1>1, <1>2

LEMMA SnapshotSound == SnapshotInv => CompiledSound
<1> SUFFICES ASSUME SnapshotInv PROVE CompiledSound
  OBVIOUS
<1>1. ListenersDistinct
  <2> SUFFICES ASSUME NEW s \in snapshot, NEW a \in s.listeners, NEW b \in s.listeners, a # b
               PROVE  /\ a.id # b.id /\ a.server.tcp # b.server.tcp
                      /\ a.id[1] = "listener" => {h.udp : h \in a.http3} \cap {h.udp : h \in b.http3} = {}
    BY Zenon DEF ListenersDistinct
  <2>1. ConfigShape(config) /\ Validate(config) /\ a \in Listeners(config) /\ b \in Listeners(config)
    BY SnapshotParts, Zenon
  <2> QED
    BY <2>1, CompiledDistinct, Zenon
<1>2. ReferencesResolve
  <2> SUFFICES ASSUME NEW s \in snapshot, NEW r \in s.routes
               PROVE  /\ r.action.kind = "proxy" => r.action.upstream # {}
                      /\ \A u \in r.action.upstream : Resolved(s.upstreams, u, r.scope)
                      /\ \A c \in r.cache : \E z \in s.zones : z.name = c.zone
    BY Zenon DEF ReferencesResolve, Resolved
  <2>1. /\ ConfigShape(config) /\ Validate(config) /\ Compiles(config, env) /\ r \in Routes(config)
        /\ s.upstreams = CompiledUpstreams(config) /\ s.zones = {ZoneOf(z) : z \in Range(config.zones)}
    BY SnapshotParts, Zenon
  <2>2. /\ r.action.kind = "proxy" => r.action.upstream # {}
        /\ \A u \in r.action.upstream : Resolved(s.upstreams, u, r.scope)
    BY <2>1, CompiledResolved, Zenon
  <2>3. ASSUME NEW c \in r.cache PROVE \E z \in s.zones : z.name = c.zone
    BY <2>1, CompiledCaches, Zenon
  <2> QED
    BY <2>2, <2>3, Zenon
<1>3. Http3IsSecured
  <2> SUFFICES ASSUME loadPhase = "ready", NEW s \in snapshot, NEW l \in s.listeners, NEW h \in l.http3
               PROVE  /\ l.tlsTermination
                      /\ \A t \in l.server.tls : \A v \in t.versions : "tls13" \in Range(v)
                      /\ h.earlyData => \A t \in l.server.tls : Resumable(t)
                      /\ (h.retry \/ h.connectionIds > 2) => h.hostKey # {}
    BY Zenon DEF Http3IsSecured, Resumable
  <2>1. ConfigShape(config) /\ Validate(config) /\ Compiles(config, env) /\ l \in Listeners(config)
    BY SnapshotParts, Zenon
  <2>2. BuildsAcceptor(l, config, env)
    BY Zenon DEF SnapshotInv
  <2> QED
    BY <2>1, <2>2, CompiledSecured, Zenon
<1>4. TlsListenersHaveCertificates
  BY SnapshotParts, CompiledCertified, Zenon DEF TlsListenersHaveCertificates
<1>5. ManagedCertificatesRenewable
  <2> SUFFICES ASSUME NEW s \in snapshot, NEW m \in s.managed
               PROVE  /\ \E l \in s.listeners : l.server.tcp = 80 /\ ~l.tlsTermination
                      /\ \A l \in s.listeners :
                           l.http3 # {} => ~(l.id[1] = "listener" \/
                                             \E e \in Range(config.vhosts[m.scope].listen) : e.addr = l.server.tcp)
    BY Zenon DEF ManagedCertificatesRenewable
  <2>1. /\ ConfigShape(config) /\ Validate(config) /\ s.listeners = Listeners(config)
        /\ m \in ManagedCertificates(config)
    BY SnapshotParts, Zenon
  <2>2. Renewable(config, m, Listeners(config))
    BY <2>1, CompiledRenewable, Zenon
  <2>3. Renewable(config, m, s.listeners)
    BY <2>1, <2>2, Zenon
  <2> QED
    BY <2>3, Zenon DEF Renewable
<1>6. BufferedBodiesBounded
  BY SnapshotParts, CompiledBounded, Zenon DEF BufferedBodiesBounded
<1>7. DefaultsKeepBounds
  <2> SUFFICES ASSUME NEW s \in snapshot
               PROVE  /\ \A z \in s.zones : \A size \in z.maxSize : z.maxEntry <= size
                      /\ \A u \in s.upstreams : \A d \in u.upstream.dns : d.min <= d.max
                      /\ \A r \in s.routes : \A c \in r.cache : c.sliceSize # {} => c.rangeRequests = "cache"
    BY Zenon DEF DefaultsKeepBounds
  <2>1. /\ ConfigShape(config) /\ Validate(config) /\ Compiles(config, env) /\ s.routes = Routes(config)
        /\ s.upstreams = CompiledUpstreams(config) /\ s.zones = {ZoneOf(z) : z \in Range(config.zones)}
    BY SnapshotParts, Zenon
  <2>2. \A z \in s.zones : \A size \in z.maxSize : z.maxEntry <= size
    BY <2>1, CompiledZones, Zenon
  <2>3. \A u \in s.upstreams : \A d \in u.upstream.dns : d.min <= d.max
    BY <2>1, CompiledLifetimes, Zenon
  <2>4. \A r \in s.routes : \A c \in r.cache : c.sliceSize # {} => c.rangeRequests = "cache"
    BY <2>1, CompiledCaches, Zenon
  <2> QED
    BY <2>2, <2>3, <2>4, Zenon
<1> QED
  BY <1>1, <1>2, <1>3, <1>4, <1>5, <1>6, <1>7, Zenon DEF CompiledSound

\* Whatever the configuration, what validate and compile accept has what the runtime takes
\* for granted (CompiledSound), however listeners, certificates, upstreams and zones are
\* declared: for every configuration the model/ structures can hold and every environment.
THEOREM CompiledIsSound == LoadSpec => []CompiledSound
<1>1. LoadInit => SnapshotInv
  BY LoadAssumption DEF LoadInit, SnapshotInv
<1>2. SnapshotInv /\ [LoadNext]_loadVars => SnapshotInv'
  BY SnapshotSteps
<1>3. SnapshotInv => CompiledSound
  BY SnapshotSound
<1> QED
  BY <1>1, <1>2, <1>3, PTL DEF LoadSpec
=============================================================================
