---------------------------- MODULE FormatProofs ----------------------------
(***************************************************************************)
(* Every versioned format is canonical in both directions, for every value *)
(* of the limits and for states of every size. What decode accepts passes  *)
(* the checks that the format makes and is encoded to the very words it    *)
(* was read from; what passes the checks is encoded, and decode reads it   *)
(* back unchanged.                                                         *)
(*                                                                         *)
(* The formats nest, and so do the lemmas. A field is a word or a fixed    *)
(* number of words; a vCPU is its fields in order and a list of MSRs whose *)
(* length is stored before it; a container is a header, the lengths of its *)
(* parts and the parts. Each layer cites the lemmas of the one below for   *)
(* its parts and shows where in the words a part begins and ends.          *)
(***************************************************************************)
EXTENDS TransactionFormats, TLAPS

\* Equality as a predicate: the provers find the instance of a lemma by its
\* shape, which an equation does not show.
Same(u, v) == u = v

-----------------------------------------------------------------------------
\* Sequences: pieces of words and what they are put together to

Words == Seq(Nat)
WordsOf(n) == {w \in Words : Len(w) = n}

\* The piece a cursor reads.
LEMMA FromIs ==
  ASSUME NEW w \in Words, NEW a \in Nat \ {0}, NEW n \in Nat, a + n <= Len(w) + 1
  PROVE  /\ From(w, a, n) \in Words
         /\ Len(From(w, a, n)) = n
         /\ \A i \in 1..n : From(w, a, n)[i] = w[a + i - 1]
BY DEF From, Words

\* u is the n words of w from position a on.
Piece(u, w, a, n) == u \in Words /\ Len(u) = n /\ u \in [1..n -> Nat] /\ \A i \in 1..n : u[i] = w[a + i - 1]

\* The same as one predicate.
LEMMA FromPiece ==
  ASSUME NEW w \in Words, NEW a \in Nat \ {0}, NEW n \in Nat, a + n <= Len(w) + 1
  PROVE  Piece(From(w, a, n), w, a, n)
<1> DEFINE u == From(w, a, n)
<1>1. u \in Words /\ Len(u) = n /\ \A i \in 1..n : u[i] = w[a + i - 1]
  BY FromIs
<1> HIDE DEF u
<1>2. u \in [1..Len(u) -> Nat]
  BY <1>1, SMTT(30) DEF Words
<1> QED
  BY <1>1, <1>2, Zenon DEF Piece, u

\* Two sequences of words are equal when they agree in length and position by position.
LEMMA SameWords ==
  ASSUME NEW u \in Words, NEW v \in Words, Len(u) = Len(v), \A i \in 1..Len(u) : u[i] = v[i]
  PROVE  u = v
BY SMTT(30) DEF Words

\* A sequence of words is a function of the positions.
LEMMA AsFunction ==
  ASSUME NEW u \in Words, NEW n, Len(u) = n
  PROVE  u \in [1..n -> Nat]
<1>1. u \in [1..Len(u) -> Nat]
  BY DEF Words
<1> QED
  BY <1>1, Zenon

\* Two sequences of words one after the other.
LEMMA ConcatIs ==
  ASSUME NEW u \in Words, NEW v \in Words
  PROVE  /\ u \o v \in Words
         /\ Len(u \o v) = Len(u) + Len(v)
         /\ \A i \in 1..Len(u) : (u \o v)[i] = u[i]
         /\ \A i \in 1..Len(v) : (u \o v)[Len(u) + i] = v[i]
BY DEF Words

\* A piece read to the end is the whole.
LEMMA FromAll ==
  ASSUME NEW w \in Words
  PROVE  From(w, 1, Len(w)) = w
<1>1. Len(w) \in Nat
  BY DEF Words
<1> QED
  BY <1>1, FromIs, SameWords

\* Adjacent pieces make a piece.
LEMMA FromJoin ==
  ASSUME NEW w \in Words, NEW a \in Nat \ {0}, NEW n \in Nat, NEW m \in Nat, a + n + m <= Len(w) + 1
  PROVE  Same(From(w, a, n) \o From(w, a + n, m), From(w, a, n + m))
<1>1. Len(w) \in Nat
  BY DEF Words
<1> DEFINE u == From(w, a, n)
           v == From(w, a + n, m)
           t == From(w, a, n + m)
           c == u \o v
<1>2. u \in Words /\ Len(u) = n /\ \A i \in 1..n : u[i] = w[a + i - 1]
  BY <1>1, FromIs
<1>3. v \in Words /\ Len(v) = m /\ \A i \in 1..m : v[i] = w[a + n + i - 1]
  BY <1>1, FromIs
<1>4. t \in Words /\ Len(t) = n + m /\ \A i \in 1..(n + m) : t[i] = w[a + i - 1]
  BY <1>1, FromIs
<1> HIDE DEF u, v, t
<1>5. /\ c \in Words /\ Len(c) = n + m
      /\ \A i \in 1..n : c[i] = u[i]
      /\ \A i \in 1..m : c[n + i] = v[i]
  BY <1>2, <1>3, ConcatIs, Zenon
<1> HIDE DEF c
<1>6. ASSUME NEW i \in 1..(n + m) PROVE c[i] = t[i]
  <2>1. CASE i <= n
    BY <1>2, <1>4, <1>5, <2>1
  <2>2. CASE i > n
    <3>1. i - n \in 1..m /\ i = n + (i - n)
      BY <2>2
    <3>2. c[n + (i - n)] = w[a + n + (i - n) - 1]
      BY <1>3, <1>5, <3>1
    <3> QED
      BY <1>4, <3>1, <3>2
  <2> QED
    BY <2>1, <2>2
<1> QED
  BY <1>4, <1>5, <1>6, SameWords DEF u, v, t, c, Same

\* A piece of a piece.
LEMMA FromFrom ==
  ASSUME NEW w \in Words, NEW a \in Nat \ {0}, NEW n \in Nat, a + n <= Len(w) + 1,
         NEW b \in Nat \ {0}, NEW m \in Nat, b + m <= n + 1
  PROVE  Same(From(From(w, a, n), b, m), From(w, a + b - 1, m))
<1>1. Len(w) \in Nat
  BY DEF Words
<1> DEFINE u == From(w, a, n)
           v == From(u, b, m)
           t == From(w, a + b - 1, m)
<1>2. u \in Words /\ Len(u) = n /\ \A i \in 1..n : u[i] = w[a + i - 1]
  BY <1>1, FromIs
<1>3. t \in Words /\ Len(t) = m /\ \A i \in 1..m : t[i] = w[a + b - 1 + i - 1]
  BY <1>1, FromIs
<1> HIDE DEF u, t
<1>4. v \in Words /\ Len(v) = m /\ \A i \in 1..m : v[i] = u[b + i - 1]
  BY <1>2, FromIs
<1> HIDE DEF v
<1>5. ASSUME NEW i \in 1..m PROVE v[i] = t[i]
  <2>1. b + i - 1 \in 1..n /\ a + (b + i - 1) - 1 = a + b - 1 + i - 1
    OBVIOUS
  <2>2. v[i] = w[a + (b + i - 1) - 1]
    BY <1>2, <1>4, <2>1
  <2> QED
    BY <1>3, <2>1, <2>2
<1> QED
  BY <1>3, <1>4, <1>5, SameWords DEF u, v, t, Same

\* A piece of two sequences put together, on the left and on the right.
LEMMA FromConcat ==
  ASSUME NEW u \in Words, NEW v \in Words, NEW a \in Nat \ {0}, NEW n \in Nat
  PROVE  /\ a + n <= Len(u) + 1 => From(u \o v, a, n) = From(u, a, n)
         /\ a + n <= Len(v) + 1 => From(u \o v, Len(u) + a, n) = From(v, a, n)
<1> DEFINE c == u \o v
<1>1. Len(u) \in Nat /\ Len(v) \in Nat
  BY DEF Words
<1>2. /\ c \in Words /\ Len(c) = Len(u) + Len(v)
      /\ \A i \in 1..Len(u) : c[i] = u[i]
      /\ \A i \in 1..Len(v) : c[Len(u) + i] = v[i]
  BY ConcatIs
<1> HIDE DEF c
<1>3. ASSUME a + n <= Len(u) + 1 PROVE From(c, a, n) = From(u, a, n)
  <2>1. /\ From(u, a, n) \in Words /\ Len(From(u, a, n)) = n
        /\ \A i \in 1..n : From(u, a, n)[i] = u[a + i - 1]
    BY <1>1, <1>3, FromIs
  <2>2. /\ From(c, a, n) \in Words /\ Len(From(c, a, n)) = n
        /\ \A i \in 1..n : From(c, a, n)[i] = c[a + i - 1]
    BY <1>1, <1>2, <1>3, FromIs
  <2>3. \A i \in 1..n : c[a + i - 1] = u[a + i - 1]
    BY <1>1, <1>2, <1>3
  <2> QED
    BY <2>1, <2>2, <2>3, SameWords
<1>4. ASSUME a + n <= Len(v) + 1 PROVE From(c, Len(u) + a, n) = From(v, a, n)
  <2>1. /\ From(v, a, n) \in Words /\ Len(From(v, a, n)) = n
        /\ \A i \in 1..n : From(v, a, n)[i] = v[a + i - 1]
    BY <1>1, <1>4, FromIs
  <2>2. /\ From(c, Len(u) + a, n) \in Words /\ Len(From(c, Len(u) + a, n)) = n
        /\ \A i \in 1..n : From(c, Len(u) + a, n)[i] = c[Len(u) + a + i - 1]
    BY <1>1, <1>2, <1>4, FromIs, SMTT(30)
  <2>3. ASSUME NEW i \in 1..n PROVE c[Len(u) + a + i - 1] = v[a + i - 1]
    <3>1. a + i - 1 \in 1..Len(v) /\ Len(u) + a + i - 1 = Len(u) + (a + i - 1)
      BY <1>1, <1>4
    <3> QED
      BY <1>2, <3>1
  <2> QED
    BY <2>1, <2>2, <2>3, SameWords
<1> QED
  BY <1>3, <1>4 DEF c

\* From returns the second of two concatenated runs of words: the body that
\* every encode appends to its header.
LEMMA FromTail ==
  ASSUME NEW u \in Words, NEW v \in Words
  PROVE  From(u \o v, Len(u) + 1, Len(v)) = v
<1>1. Len(v) \in Nat /\ 1 \in Nat \ {0} /\ 1 + Len(v) <= Len(v) + 1
  BY DEF Words
<1>2. From(u \o v, Len(u) + 1, Len(v)) = From(v, 1, Len(v))
  BY <1>1, FromConcat
<1> QED
  BY <1>2, FromAll, Zenon

-----------------------------------------------------------------------------
\* Records of equal length

\* A function of the positions is a sequence of words.
LEMMA FunctionIsWords ==
  ASSUME NEW n \in Nat, NEW f \in [1..n -> Nat]
  PROVE  f \in WordsOf(n)
BY DEF WordsOf, Words

\* A sequence given by its positions.
LEMMA ByPosition ==
  ASSUME NEW n \in Nat, NEW S, NEW s, s \in [1..n -> S]
  PROVE  s \in Seq(S) /\ Len(s) = n /\ DOMAIN s = 1..n
OBVIOUS

Widths == {2, 3, 5}

\* The record and the field within it that a word of a table of records belongs to.
LEMMA RowArithmetic ==
  ASSUME NEW n \in Widths, NEW m \in Nat, NEW k \in 1..n * m
  PROVE  /\ ((k - 1) \div n) + 1 \in 1..m /\ ((k - 1) % n) + 1 \in 1..n
         /\ k = n * (((k - 1) \div n) + 1) - n + (((k - 1) % n) + 1)
<1>1. \A l \in 1..2 * m : /\ ((l - 1) \div 2) + 1 \in 1..m /\ ((l - 1) % 2) + 1 \in 1..2
                          /\ l = 2 * (((l - 1) \div 2) + 1) - 2 + (((l - 1) % 2) + 1)
  OBVIOUS
<1>2. \A l \in 1..3 * m : /\ ((l - 1) \div 3) + 1 \in 1..m /\ ((l - 1) % 3) + 1 \in 1..3
                          /\ l = 3 * (((l - 1) \div 3) + 1) - 3 + (((l - 1) % 3) + 1)
  OBVIOUS
<1>3. \A l \in 1..5 * m : /\ ((l - 1) \div 5) + 1 \in 1..m /\ ((l - 1) % 5) + 1 \in 1..5
                          /\ l = 5 * (((l - 1) \div 5) + 1) - 5 + (((l - 1) % 5) + 1)
  OBVIOUS
<1>4. n \in {2, 3, 5}
  BY DEF Widths
<1>5. CASE n = 2
  BY <1>1, <1>5
<1>6. CASE n = 3
  BY <1>2, <1>6
<1>7. CASE n = 5
  BY <1>3, <1>7
<1> QED
  BY <1>4, <1>5, <1>6, <1>7

\* The word of a record's field.
LEMMA RowPlace ==
  ASSUME NEW n \in Widths, NEW m \in Nat, NEW i \in 1..m, NEW j \in 1..n
  PROVE  /\ n * i - n + j \in 1..n * m
         /\ (((n * i - n + j) - 1) \div n) + 1 = i /\ (((n * i - n + j) - 1) % n) + 1 = j
<1>1. \A l \in 1..2 : /\ 2 * i - 2 + l \in 1..2 * m
                      /\ (((2 * i - 2 + l) - 1) \div 2) + 1 = i /\ (((2 * i - 2 + l) - 1) % 2) + 1 = l
  OBVIOUS
<1>2. \A l \in 1..3 : /\ 3 * i - 3 + l \in 1..3 * m
                      /\ (((3 * i - 3 + l) - 1) \div 3) + 1 = i /\ (((3 * i - 3 + l) - 1) % 3) + 1 = l
  OBVIOUS
<1>3. \A l \in 1..5 : /\ 5 * i - 5 + l \in 1..5 * m
                      /\ (((5 * i - 5 + l) - 1) \div 5) + 1 = i /\ (((5 * i - 5 + l) - 1) % 5) + 1 = l
  OBVIOUS
<1>4. n \in {2, 3, 5}
  BY DEF Widths
<1>5. CASE n = 2
  BY <1>1, <1>5
<1>6. CASE n = 3
  BY <1>2, <1>6
<1>7. CASE n = 5
  BY <1>3, <1>7
<1> QED
  BY <1>4, <1>5, <1>6, <1>7

\* w holds the fields of m records, n words each.
HoldsRows(w, n, m, rows) == \A i \in 1..m, j \in 1..n : w[n * i - n + j] = rows[i][j]

\* Records laid out one after the other, by record and field.
LEMMA RowsIs ==
  ASSUME NEW n \in Widths, NEW m \in Nat, NEW rows \in [1..m -> [1..n -> Nat]]
  PROVE  Rows(n, rows) \in WordsOf(n * m) /\ HoldsRows(Rows(n, rows), n, m, rows)
<1> DEFINE r == Rows(n, rows)
<1>1. Len(rows) = m
  BY ByPosition
<1>2. n \in Nat /\ n > 0 /\ n * m \in Nat
  BY DEF Widths
<1>3. r = [k \in 1..n * m |-> rows[((k - 1) \div n) + 1][((k - 1) % n) + 1]]
  BY <1>1 DEF Rows
<1>4. ASSUME NEW k \in 1..n * m PROVE rows[((k - 1) \div n) + 1][((k - 1) % n) + 1] \in Nat
  <2>1. ((k - 1) \div n) + 1 \in 1..m /\ ((k - 1) % n) + 1 \in 1..n
    BY RowArithmetic
  <2> QED
    BY <2>1
<1>5. ASSUME NEW i \in 1..m, NEW j \in 1..n
      PROVE  n * i - n + j \in 1..n * m /\ r[n * i - n + j] = rows[i][j]
  <2> DEFINE k == n * i - n + j
  <2>1. k \in 1..n * m /\ ((k - 1) \div n) + 1 = i /\ ((k - 1) % n) + 1 = j
    BY RowPlace
  <2> HIDE DEF k
  <2> QED
    BY <1>3, <2>1 DEF k
<1> HIDE DEF r
<1>6. r \in [1..n * m -> Nat]
  BY <1>3, <1>4
<1> QED
  BY <1>2, <1>5, <1>6, FunctionIsWords DEF r, HoldsRows

\* Words that hold the fields of every record are those records laid out.
LEMMA RowsAre ==
  ASSUME NEW n \in Widths, NEW m \in Nat, NEW rows \in [1..m -> [1..n -> Nat]],
         NEW w \in WordsOf(n * m), HoldsRows(w, n, m, rows)
  PROVE  Same(Rows(n, rows), w)
<1> DEFINE r == Rows(n, rows)
<1>1. /\ r \in Words /\ Len(r) = n * m
      /\ \A i \in 1..m, j \in 1..n : r[n * i - n + j] = rows[i][j]
  BY RowsIs, Zenon DEF WordsOf, HoldsRows
<1> HIDE DEF r
<1>2. ASSUME NEW k \in 1..n * m PROVE r[k] = w[k]
  <2> DEFINE i == ((k - 1) \div n) + 1
             j == ((k - 1) % n) + 1
  <2>1. i \in 1..m /\ j \in 1..n /\ k = n * i - n + j
    BY RowArithmetic
  <2> HIDE DEF i, j
  <2> QED
    BY <1>1, <2>1 DEF HoldsRows
<1> QED
  BY <1>1, <1>2, SameWords DEF r, Same, WordsOf

\* t is two, or three, sequences of words of the given lengths put together.
TwoPieces(t, a, n, b, m) ==
  t \in WordsOf(n + m) /\ Same(From(t, 1, n), a) /\ Same(From(t, n + 1, m), b)
ThreePieces(t, a, n, b, m, c, k) ==
  /\ t \in WordsOf(n + m + k)
  /\ Same(From(t, 1, n), a) /\ Same(From(t, n + 1, m), b) /\ Same(From(t, n + m + 1, k), c)

\* What is put together can be taken apart.
LEMMA TwoPiecesIs ==
  ASSUME NEW n \in Nat, NEW m \in Nat, NEW a \in WordsOf(n), NEW b \in WordsOf(m)
  PROVE  TwoPieces(a \o b, a, n, b, m)
<1> DEFINE t == a \o b
<1>1. a \in Words /\ b \in Words /\ n = Len(a) /\ m = Len(b)
  BY DEF WordsOf
<1>2. t \in WordsOf(n + m)
  <2>1. t \in Words /\ Len(t) = Len(a) + Len(b)
    BY <1>1, ConcatIs, Zenon
  <2> QED
    BY <1>1, <2>1, Zenon DEF WordsOf
<1>3. 1 + n <= Len(a) + 1 /\ 1 + m <= Len(b) + 1 /\ 1 \in Nat \ {0}
  BY <1>1
<1>4. From(t, 1, n) = From(a, 1, n)
  BY <1>1, <1>3, FromConcat
<1>5. From(t, Len(a) + 1, m) = From(b, 1, m)
  BY <1>1, <1>3, FromConcat
<1> HIDE DEF t
<1>6. From(a, 1, n) = a /\ From(b, 1, m) = b
  BY <1>1, FromAll, Zenon
<1> QED
  BY <1>1, <1>2, <1>4, <1>5, <1>6, Zenon DEF TwoPieces, Same, t

\* The same for three pieces.
LEMMA ThreePiecesIs ==
  ASSUME NEW n \in Nat, NEW m \in Nat, NEW k \in Nat,
         NEW a \in WordsOf(n), NEW b \in WordsOf(m), NEW c \in WordsOf(k)
  PROVE  ThreePieces(a \o b \o c, a, n, b, m, c, k)
<1> DEFINE u == a \o b
           t == u \o c
<1>0. TwoPieces(u, a, n, b, m)
  BY TwoPiecesIs, Zenon
<1>1. TwoPieces(u, a, n, b, m) /\ u \in WordsOf(n + m) /\ n + m \in Nat
  BY <1>0 DEF TwoPieces
<1> HIDE DEF u
<1>2. TwoPieces(t, u, n + m, c, k)
  BY <1>1, TwoPiecesIs, Zenon
<1>3. u \in Words /\ c \in Words /\ Len(u) = n + m
  BY <1>1 DEF WordsOf
<1>4. /\ 1 + n <= Len(u) + 1 /\ n + 1 + m <= Len(u) + 1
      /\ 1 \in Nat \ {0} /\ n + 1 \in Nat \ {0}
  BY <1>3
<1>5. From(t, 1, n) = From(u, 1, n)
  BY <1>3, <1>4, FromConcat
<1>6. From(t, n + 1, m) = From(u, n + 1, m)
  BY <1>3, <1>4, FromConcat
<1> HIDE DEF t
<1> QED
  BY <1>1, <1>2, <1>5, <1>6, Zenon DEF TwoPieces, ThreePieces, Same, u, t

\* Words taken apart into two or three pieces and put together again.
LEMMA SplitTwo ==
  ASSUME NEW n \in Nat, NEW m \in Nat, NEW w \in WordsOf(n + m)
  PROVE  Same(From(w, 1, n) \o From(w, n + 1, m), w)
<1>0. w \in Words /\ Len(w) = n + m
  BY DEF WordsOf
<1>1. 1 \in Nat \ {0} /\ 1 + n + m <= Len(w) + 1 /\ 1 + n = n + 1
  BY <1>0
<1>2. Same(From(w, 1, n) \o From(w, 1 + n, m), From(w, 1, n + m))
  BY <1>0, <1>1, FromJoin, Zenon
<1> QED
  BY <1>0, <1>1, <1>2, FromAll DEF Same

\* The same for three pieces.
LEMMA SplitThree ==
  ASSUME NEW n \in Nat, NEW m \in Nat, NEW k \in Nat, NEW w \in WordsOf(n + m + k)
  PROVE  Same(From(w, 1, n) \o From(w, n + 1, m) \o From(w, n + m + 1, k), w)
<1>1. /\ w \in Words
      /\ 1 \in Nat \ {0} /\ 1 + n + m <= Len(w) + 1 /\ 1 + n = n + 1 /\ n + m \in Nat
  BY DEF WordsOf
<1>2. Same(From(w, 1, n) \o From(w, 1 + n, m), From(w, 1, n + m))
  BY <1>1, FromJoin, Zenon
<1>3. Same(From(w, 1, n + m) \o From(w, n + m + 1, k), w)
  BY <1>1, SplitTwo, Zenon
<1> QED
  BY <1>1, <1>2, <1>3, Zenon DEF Same

\* m words from word b on of the n words from word a on of l words, which
\* are the words from word p on.
Within(l, a, n, b, m, p) ==
  /\ {l, a, n, b, m, p} \subseteq Nat /\ a # 0 /\ b # 0
  /\ a + n <= l + 1 /\ b + m <= n + 1 /\ p = a + b - 1

\* What a piece of the body is, is there in the whole.
LEMMA SubPiece ==
  ASSUME NEW l, NEW a, NEW n, NEW b, NEW m, NEW p, Within(l, a, n, b, m, p),
         NEW w \in WordsOf(l), NEW body, Same(From(w, a, n), body),
         NEW x, Same(From(body, b, m), x)
  PROVE  Same(From(w, p, m), x)
<1>1. w \in Words /\ Len(w) = l
  BY Zenon DEF WordsOf
<1>2. /\ a \in Nat \ {0} /\ n \in Nat /\ b \in Nat \ {0} /\ m \in Nat
      /\ a + n <= Len(w) + 1 /\ b + m <= n + 1 /\ p = a + b - 1
  BY <1>1 DEF Within
<1>3. Same(From(From(w, a, n), b, m), From(w, a + b - 1, m))
  BY <1>1, <1>2, FromFrom, Zenon
<1> QED
  BY <1>2, <1>3, Zenon DEF Same

-----------------------------------------------------------------------------
\* Envelopes

\* w opens with a header and fields, and ends with body.
SealedWhole(w, magic, version, fields, body) ==
  /\ w \in Words
  /\ Len(w) = 5 + Len(fields) + Len(body)
  /\ Opens(w, magic, version, 5 + Len(fields))
  /\ \A i \in 1..Len(fields) : w[5 + i] = fields[i]
  /\ From(w, 6 + Len(fields), Len(body)) = body

\* What Sealed writes can be opened again, field by field.
LEMMA SealedWords ==
  ASSUME NEW magic \in Nat, NEW version \in Nat, NEW fields \in Words, NEW body \in Words
  PROVE  SealedWhole(Sealed(magic, version, fields, body), magic, version, fields, body)
<1> DEFINE w == Sealed(magic, version, fields, body)
           n == Len(fields)
           m == Len(body)
           head == <<magic, version, ArchX86, 5 + n, 5 + n + m>>
           front == head \o fields
<1>0. n \in Nat /\ m \in Nat
  BY DEF Words
<1>1. /\ head \in Words /\ Len(head) = 5 /\ head[1] = magic /\ head[2] = version
      /\ head[3] = ArchX86 /\ head[4] = 5 + n /\ head[5] = 5 + n + m
  BY <1>0 DEF Words, ArchX86
<1>2. w = front \o body
  BY DEF Sealed
<1> HIDE DEF w, head, n, m
<1>3. /\ front \in Words /\ Len(front) = 5 + n
      /\ \A i \in 1..5 : front[i] = head[i]
      /\ \A i \in 1..n : front[5 + i] = fields[i]
  <2>1. /\ front \in Words /\ Len(front) = Len(head) + Len(fields)
        /\ \A i \in 1..Len(head) : front[i] = head[i]
        /\ \A i \in 1..Len(fields) : front[Len(head) + i] = fields[i]
    BY <1>1, ConcatIs, Zenon
  <2> QED
    BY <1>1, <2>1, Zenon DEF n
<1> HIDE DEF front
<1>4. /\ w \in Words /\ Len(w) = 5 + n + m
      /\ \A i \in 1..5 + n : w[i] = front[i]
  <2> DEFINE c == front \o body
  <2>1. /\ c \in Words /\ Len(c) = Len(front) + Len(body)
        /\ \A i \in 1..Len(front) : c[i] = front[i]
    BY <1>3, ConcatIs, Zenon
  <2>2. c = w
    BY <1>2
  <2> HIDE DEF c
  <2> QED
    BY <1>3, <2>1, <2>2, Zenon DEF m
<1>5. From(w, 6 + n, m) = body
  <2>1. From(front \o body, Len(front) + 1, Len(body)) = body
    BY <1>3, FromTail, Zenon
  <2>2. Len(front) + 1 = 6 + n
    BY <1>0, <1>3
  <2> QED
    BY <1>2, <2>1, <2>2, Zenon DEF m
<1>6. \A i \in 1..5 : w[i] = head[i]
  BY <1>0, <1>3, <1>4
<1>7. \A i \in 1..n : w[5 + i] = fields[i]
  BY <1>0, <1>3, <1>4
<1>8. Opens(w, magic, version, 5 + n)
  BY <1>0, <1>1, <1>4, <1>6 DEF Opens
<1> QED
  BY <1>4, <1>5, <1>7, <1>8, Zenon DEF SealedWhole, w, n, m

HasFields(w, n, fields) == \A i \in 1..n : w[5 + i] = fields[i]

\* Words that open with a header and hold its fields are what Sealed writes
\* for those fields and the rest of the words.
LEMMA WordsSealed ==
  ASSUME NEW magic \in Nat, NEW version \in Nat, NEW n \in Nat, NEW m \in Nat,
         NEW fields \in WordsOf(n), NEW w \in WordsOf(5 + n + m),
         Opens(w, magic, version, 5 + n), HasFields(w, n, fields)
  PROVE  Same(Sealed(magic, version, fields, From(w, 6 + n, m)), w)
<1> USE DEF HasFields
<1> DEFINE body == From(w, 6 + n, m)
           t == Sealed(magic, version, fields, body)
<1> fields \in Words /\ Len(fields) = n /\ w \in Words /\ Len(w) = 5 + n + m
  BY Zenon DEF WordsOf
<1>0. 6 + n \in Nat \ {0} /\ 6 + n + m <= 5 + n + m + 1
  OBVIOUS
<1>1. /\ body \in Words /\ Len(body) = m
      /\ \A i \in 1..m : body[i] = w[6 + n + i - 1]
  BY <1>0, FromIs, Zenon
<1> HIDE DEF body
<1>2. /\ t \in Words /\ Len(t) = 5 + n + m /\ Opens(t, magic, version, 5 + n)
      /\ \A i \in 1..n : t[5 + i] = fields[i]
      /\ From(t, 6 + n, m) = body
  <2>1. SealedWhole(t, magic, version, fields, body)
    BY <1>1, SealedWords, Zenon
  <2> HIDE DEF t
  <2> QED
    BY <1>1, <2>1, Zenon DEF SealedWhole
<1>3. \A i \in 1..m : body[i] = t[6 + n + i - 1]
  <2>1. \A i \in 1..m : From(t, 6 + n, m)[i] = t[6 + n + i - 1]
    BY <1>0, <1>2, FromIs, ZenonT(60)
  <2> QED
    BY <1>2, <2>1, Zenon
<1>4. ASSUME NEW i \in 1..5 + n + m PROVE t[i] = w[i]
  <2>1. CASE i \in 1..5
    <3>1. i = 1 \/ i = 2 \/ i = 3 \/ i = 4 \/ i = 5
      BY <2>1
    <3> QED
      BY <1>2, <3>1 DEF Opens
  <2>2. CASE i \in 6..5 + n
    <3>1. i - 5 \in 1..n /\ i = 5 + (i - 5)
      BY <2>2
    <3> QED
      BY <1>2, <3>1
  <2>3. CASE i > 5 + n
    <3>1. i - (5 + n) \in 1..m /\ i = 6 + n + (i - (5 + n)) - 1
      BY <2>3
    <3> QED
      BY <1>1, <1>3, <3>1, SMTT(30)
  <2> QED
    BY <2>1, <2>2, <2>3
<1> QED
  BY <1>2, <1>4, SameWords DEF t, body, Same

\* The places of an envelope: n fields, a header of h words, a body of m
\* words from word b on, l words in all.
Shape(n, h, b, m, l) == {n, h, b, m, l} \subseteq Nat /\ h = 5 + n /\ b = 6 + n /\ l = 5 + n + m
SealedAs(w, magic, version, n, h, fields, b, m, body) ==
  Opens(w, magic, version, h) /\ HasFields(w, n, fields) /\ Same(From(w, b, m), body)

\* What Sealed writes, place by place.
LEMMA SealedIs ==
  ASSUME NEW magic \in Nat, NEW version \in Nat, NEW n, NEW h, NEW b, NEW m, NEW l, Shape(n, h, b, m, l),
         NEW fields \in WordsOf(n), NEW body \in WordsOf(m)
  PROVE  /\ Sealed(magic, version, fields, body) \in WordsOf(l)
         /\ SealedAs(Sealed(magic, version, fields, body), magic, version, n, h, fields, b, m, body)
<1> DEFINE w == Sealed(magic, version, fields, body)
<1>1. fields \in Words /\ Len(fields) = n /\ body \in Words /\ Len(body) = m
  BY Zenon DEF WordsOf
<1>2. SealedWhole(w, magic, version, fields, body)
  BY <1>1, SealedWords, Zenon
<1>3. h = 5 + n /\ b = 6 + n /\ l = 5 + n + m
  BY Zenon DEF Shape
<1> HIDE DEF w
<1> QED
  BY <1>1, <1>2, <1>3, Zenon DEF SealedWhole, SealedAs, HasFields, Same, WordsOf, w

\* What opens with a header and holds its fields is what Sealed writes.
LEMMA SealedAre ==
  ASSUME NEW magic \in Nat, NEW version \in Nat, NEW n, NEW h, NEW b, NEW m, NEW l, Shape(n, h, b, m, l),
         NEW fields \in WordsOf(n), NEW w \in WordsOf(l),
         Opens(w, magic, version, h), HasFields(w, n, fields)
  PROVE  Same(Sealed(magic, version, fields, From(w, b, m)), w)
<1>2. n \in Nat /\ m \in Nat /\ h = 5 + n /\ b = 6 + n /\ l = 5 + n + m
  BY DEF Shape
<1> QED
  BY <1>2, WordsSealed, Zenon

\* Envelopes whose body is put together from two pieces of m and k words, or
\* three.
SealedTwoAs(w, magic, version, n, h, fields, b, x, m, y, k) ==
  /\ Opens(w, magic, version, h) /\ HasFields(w, n, fields)
  /\ From(w, b, m) = x /\ From(w, b + m, k) = y
SealedThreeAs(w, magic, version, n, h, fields, b, x, m, y, k, z, j) ==
  /\ Opens(w, magic, version, h) /\ HasFields(w, n, fields)
  /\ From(w, b, m) = x /\ From(w, b + m, k) = y /\ From(w, b + m + k, j) = z

\* What Sealed writes when its body is put together from two pieces.
LEMMA SealedTwo ==
  ASSUME NEW magic \in Nat, NEW version \in Nat, NEW n, NEW h, NEW b, NEW m \in Nat, NEW k \in Nat, NEW l,
         Shape(n, h, b, m + k, l),
         NEW fields \in WordsOf(n), NEW x \in WordsOf(m), NEW y \in WordsOf(k)
  PROVE  /\ Sealed(magic, version, fields, x \o y) \in WordsOf(l)
         /\ SealedTwoAs(Sealed(magic, version, fields, x \o y), magic, version, n, h, fields, b, x, m, y, k)
<1> DEFINE body == x \o y
           w == Sealed(magic, version, fields, body)
<1>1. TwoPieces(body, x, m, y, k)
  BY TwoPiecesIs, Zenon
<1>2. body \in WordsOf(m + k) /\ Same(From(body, 1, m), x) /\ Same(From(body, m + 1, k), y)
  BY <1>1, Zenon DEF TwoPieces
<1> HIDE DEF body
<1>3. w \in WordsOf(l) /\ SealedAs(w, magic, version, n, h, fields, b, m + k, body)
  BY <1>2, SealedIs, Zenon
<1> HIDE DEF w
<1>4. Same(From(w, b, m + k), body) /\ Opens(w, magic, version, h) /\ HasFields(w, n, fields)
  BY <1>3, Zenon DEF SealedAs
<1>5. Within(l, b, m + k, 1, m, b) /\ Within(l, b, m + k, m + 1, k, b + m)
  BY DEF Shape, Within
<1>6. Same(From(w, b, m), x)
  BY <1>2, <1>3, <1>4, <1>5, SubPiece
<1>7. Same(From(w, b + m, k), y)
  BY <1>2, <1>3, <1>4, <1>5, SubPiece
<1> QED
  BY <1>3, <1>4, <1>6, <1>7, Zenon DEF SealedTwoAs, Same, w, body

\* The same for three pieces.
LEMMA SealedThree ==
  ASSUME NEW magic \in Nat, NEW version \in Nat, NEW n, NEW h, NEW b,
         NEW m \in Nat, NEW k \in Nat, NEW j \in Nat, NEW l, Shape(n, h, b, m + k + j, l),
         NEW fields \in WordsOf(n), NEW x \in WordsOf(m), NEW y \in WordsOf(k), NEW z \in WordsOf(j)
  PROVE  /\ Sealed(magic, version, fields, x \o y \o z) \in WordsOf(l)
         /\ SealedThreeAs(Sealed(magic, version, fields, x \o y \o z), magic, version, n, h, fields,
                          b, x, m, y, k, z, j)
<1> DEFINE body == x \o y \o z
           w == Sealed(magic, version, fields, body)
<1>1. ThreePieces(body, x, m, y, k, z, j)
  BY ThreePiecesIs, Zenon
<1>2. /\ body \in WordsOf(m + k + j)
      /\ Same(From(body, 1, m), x) /\ Same(From(body, m + 1, k), y) /\ Same(From(body, m + k + 1, j), z)
  BY <1>1, Zenon DEF ThreePieces
<1> HIDE DEF body
<1>3. w \in WordsOf(l) /\ SealedAs(w, magic, version, n, h, fields, b, m + k + j, body)
  BY <1>2, SealedIs, Zenon
<1> HIDE DEF w
<1>4. Same(From(w, b, m + k + j), body) /\ Opens(w, magic, version, h) /\ HasFields(w, n, fields)
  BY <1>3, Zenon DEF SealedAs
<1>5. /\ Within(l, b, m + k + j, 1, m, b) /\ Within(l, b, m + k + j, m + 1, k, b + m)
      /\ Within(l, b, m + k + j, m + k + 1, j, b + m + k)
  BY DEF Shape, Within
<1>6. Same(From(w, b, m), x)
  BY <1>2, <1>3, <1>4, <1>5, SubPiece
<1>7. Same(From(w, b + m, k), y)
  BY <1>2, <1>3, <1>4, <1>5, SubPiece
<1>8. Same(From(w, b + m + k, j), z)
  BY <1>2, <1>3, <1>4, <1>5, SubPiece
<1> QED
  BY <1>3, <1>4, <1>6, <1>7, <1>8, Zenon DEF SealedThreeAs, Same, w, body

\* The pieces of the body of what opens with a header, and their envelope.
LEMMA SealedAreTwo ==
  ASSUME NEW magic \in Nat, NEW version \in Nat, NEW n, NEW h, NEW b, NEW m \in Nat, NEW k \in Nat, NEW l,
         Shape(n, h, b, m + k, l), NEW fields \in WordsOf(n), NEW w \in WordsOf(l),
         Opens(w, magic, version, h), HasFields(w, n, fields)
  PROVE  /\ Same(Sealed(magic, version, fields, From(w, b, m) \o From(w, b + m, k)), w)
         /\ From(w, b, m) \in WordsOf(m) /\ From(w, b + m, k) \in WordsOf(k)
<1>1. Same(Sealed(magic, version, fields, From(w, b, m + k)), w)
  BY SealedAre, Zenon
<1>2. /\ w \in Words
      /\ b \in Nat \ {0} /\ b + m \in Nat \ {0} /\ b + m <= Len(w) + 1 /\ b + m + k <= Len(w) + 1
  <2>1. w \in Words /\ Len(w) = l
    BY Zenon DEF WordsOf
  <2>2. b \in Nat \ {0} /\ b + m \in Nat \ {0} /\ b + m <= l + 1 /\ b + m + k <= l + 1
    BY DEF Shape
  <2> QED
    BY <2>1, <2>2, Zenon
<1>3. Same(From(w, b, m) \o From(w, b + m, k), From(w, b, m + k))
  BY <1>2, FromJoin, Zenon
<1>4. Piece(From(w, b, m), w, b, m)
  BY <1>2, FromPiece, Zenon
<1>5. Piece(From(w, b + m, k), w, b + m, k)
  BY <1>2, FromPiece, Zenon
<1> QED
  BY <1>1, <1>3, <1>4, <1>5, Zenon DEF Same, Piece, WordsOf

ThreeSealed(w, magic, version, fields, b, m, k, j) ==
  /\ Same(Sealed(magic, version, fields, From(w, b, m) \o From(w, b + m, k) \o From(w, b + m + k, j)), w)
  /\ From(w, b, m) \in WordsOf(m) /\ From(w, b + m, k) \in WordsOf(k) /\ From(w, b + m + k, j) \in WordsOf(j)

\* The same for three pieces.
LEMMA SealedAreThree ==
  ASSUME NEW magic \in Nat, NEW version \in Nat, NEW n, NEW h, NEW b,
         NEW m \in Nat, NEW k \in Nat, NEW j \in Nat, NEW l,
         Shape(n, h, b, m + k + j, l), NEW fields \in WordsOf(n), NEW w \in WordsOf(l),
         Opens(w, magic, version, h), HasFields(w, n, fields)
  PROVE  ThreeSealed(w, magic, version, fields, b, m, k, j)
<1>1. Same(Sealed(magic, version, fields, From(w, b, m + k + j)), w)
  BY SealedAre, Zenon
<1>2. /\ w \in Words
      /\ b \in Nat \ {0} /\ b + m \in Nat \ {0} /\ b + m + k \in Nat \ {0} /\ m + k \in Nat
      /\ b + m <= Len(w) + 1 /\ b + m + k <= Len(w) + 1 /\ b + m + k + j <= Len(w) + 1
      /\ b + (m + k) + j <= Len(w) + 1 /\ b + (m + k) = b + m + k
  <2>1. w \in Words /\ Len(w) = l
    BY Zenon DEF WordsOf
  <2>2. /\ b \in Nat \ {0} /\ b + m \in Nat \ {0} /\ b + m + k \in Nat \ {0} /\ m + k \in Nat
        /\ b + m <= l + 1 /\ b + m + k <= l + 1 /\ b + m + k + j <= l + 1
        /\ b + (m + k) + j <= l + 1 /\ b + (m + k) = b + m + k
    BY DEF Shape
  <2> QED
    BY <2>1, <2>2, Zenon
<1>3. Same(From(w, b, m) \o From(w, b + m, k), From(w, b, m + k))
  BY <1>2, FromJoin, Zenon
<1>4. Same(From(w, b, m + k) \o From(w, b + (m + k), j), From(w, b, m + k + j))
  BY <1>2, FromJoin, Zenon
<1>5. Piece(From(w, b, m), w, b, m)
  BY <1>2, FromPiece, Zenon
<1>6. Piece(From(w, b + m, k), w, b + m, k)
  BY <1>2, FromPiece, Zenon
<1>7. Piece(From(w, b + m + k, j), w, b + m + k, j)
  BY <1>2, FromPiece, Zenon
<1>8. Same(From(w, b, m) \o From(w, b + m, k) \o From(w, b + m + k, j), From(w, b, m + k + j))
  BY <1>2, <1>3, <1>4, Zenon DEF Same
<1>9. From(w, b, m) \in WordsOf(m) /\ From(w, b + m, k) \in WordsOf(k) /\ From(w, b + m + k, j) \in WordsOf(j)
  BY <1>5, <1>6, <1>7, Zenon DEF Piece, WordsOf
<1> QED
  BY <1>1, <1>8, <1>9, Zenon DEF Same, ThreeSealed

-----------------------------------------------------------------------------
\* vCPU state

Orders == {RegisterOrder, SegmentOrder, ControlOrder}

\* How many words a vCPU's registers, special registers and MSRs take.
LEMMA Lengths ==
  /\ Len(RegisterOrder) = 18 /\ Len(SegmentOrder) = 8 /\ Len(ControlOrder) = 11
  /\ DOMAIN RegisterOrder = 1..18 /\ DOMAIN SegmentOrder = 1..8 /\ DOMAIN ControlOrder = 1..11
  /\ TableAt = 41 /\ ControlAt = 45 /\ SpecialLen = 55
  /\ \A n \in Nat : VcpuLen(n) = 73 + 3 * n
<1>1. /\ Len(RegisterOrder) = 18 /\ Len(SegmentOrder) = 8 /\ Len(ControlOrder) = 11
      /\ DOMAIN RegisterOrder = 1..18 /\ DOMAIN SegmentOrder = 1..8 /\ DOMAIN ControlOrder = 1..11
  BY DEF RegisterOrder, SegmentOrder, ControlOrder
<1>2. TableAt = 41 /\ ControlAt = 45 /\ SpecialLen = 55
  BY <1>1 DEF TableAt, ControlAt, SpecialLen
<1> QED
  BY <1>1, <1>2 DEF VcpuLen

\* No register is encoded twice.
LEMMA OrdersInjective ==
  ASSUME NEW order \in Orders, NEW i \in DOMAIN order, NEW j \in DOMAIN order, order[i] = order[j]
  PROVE  i = j
<1>1. \A k, l \in 1..18 : RegisterOrder[k] = RegisterOrder[l] => k = l
  BY DEF RegisterOrder
<1>2. \A k, l \in 1..8 : SegmentOrder[k] = SegmentOrder[l] => k = l
  BY DEF SegmentOrder
<1>3. \A k, l \in 1..11 : ControlOrder[k] = ControlOrder[l] => k = l
  BY DEF ControlOrder
<1> QED
  BY <1>1, <1>2, <1>3, Lengths, Zenon DEF Orders

\* Words decoded by name, and back.
LEMMA NamedAt ==
  ASSUME NEW order \in Orders, NEW w, NEW i \in DOMAIN order
  PROVE  /\ order[i] \in Range(order)
         /\ Named(order, w)[order[i]] = w[i]
<1>1. order[i] \in Range(order)
  BY DEF Range
<1>2. (CHOOSE j \in DOMAIN order : order[j] = order[i]) = i
  BY OrdersInjective
<1> QED
  BY <1>1, <1>2 DEF Named

\* A record whose fields are the words in order is what the words decode to.
LEMMA NamedIs ==
  ASSUME NEW order \in Orders, NEW w, NEW S, NEW f \in [Range(order) -> S],
         \A i \in DOMAIN order : w[i] = f[order[i]]
  PROVE  Same(Named(order, w), f)
<1>1. ASSUME NEW n \in Range(order) PROVE Named(order, w)[n] = f[n]
  <2>1. PICK i \in DOMAIN order : order[i] = n
    BY DEF Range
  <2> QED
    BY <2>1, NamedAt, Zenon
<1> QED
  BY <1>1 DEF Named, Same

\* The five words of a segment.
LEMMA SegmentWordsIs ==
  ASSUME NEW w \in Words, Len(w) = 55, NEW i \in 1..8
  PROVE  /\ SegmentWords(w, i) \in [1..5 -> Nat]
         /\ \A j \in 1..5 : SegmentWords(w, i)[j] = w[5 * i - 5 + j]
<1>1. 5 \in Nat /\ 5 * i - 4 \in Nat \ {0} /\ 5 * i - 4 + 5 <= Len(w) + 1
  OBVIOUS
<1> DEFINE u == From(w, 5 * i - 4, 5)
<1>2. Piece(u, w, 5 * i - 4, 5)
  BY <1>1, FromPiece, Zenon
<1> HIDE DEF u
<1>3. u \in [1..5 -> Nat]
  BY <1>2, Zenon DEF Piece
<1>4. \A j \in 1..5 : u[j] = w[5 * i - 5 + j]
  BY <1>2 DEF Piece
<1> QED
  BY <1>3, <1>4 DEF SegmentWords, u

\* A segment that passed its checks is encoded to the words it came from.
LEMMA SegmentCanonical ==
  ASSUME NEW w \in [1..5 -> Nat], SegmentOk(w)
  PROVE  EncodeSegment(DecodeSegment(w)) = w
<1> DEFINE t == EncodeSegment(DecodeSegment(w))
<1>1. t = <<w[1], w[2], w[3], w[4], 0>>
  BY DEF EncodeSegment, DecodeSegment
<1>2. w[5] = 0
  BY DEF SegmentOk
<1> HIDE DEF t
<1> QED
  BY <1>1, <1>2 DEF t

\* A segment is encoded to words that pass their checks and decode to it.
LEMMA SegmentRound ==
  ASSUME NEW s \in Segments
  PROVE  /\ EncodeSegment(s) \in [1..5 -> Nat]
         /\ SegmentOk(EncodeSegment(s))
         /\ DecodeSegment(EncodeSegment(s)) = s
BY DEF Segments, EncodeSegment, SegmentOk, DecodeSegment

\* Special registers that passed their checks are encoded to the words they
\* came from: every reserved byte was found to be zero.
LEMMA SpecialCanonical ==
  ASSUME NEW w \in Words, Len(w) = 55, SpecialOk(w)
  PROVE  EncodeSpecial(DecodeSpecial(w)) = w
<1> DEFINE s == DecodeSpecial(w)
           rows == [i \in 1..8 |-> EncodeSegment(s.segs[SegmentOrder[i]])]
<1>0. /\ 2 \in Nat /\ 11 \in Nat /\ 40 \in Nat
      /\ 1 \in Nat \ {0} /\ 41 \in Nat \ {0} /\ 43 \in Nat \ {0} /\ 45 \in Nat \ {0}
      /\ 1 + 40 <= Len(w) + 1 /\ 41 + 2 <= Len(w) + 1 /\ 43 + 2 <= Len(w) + 1 /\ 45 + 11 <= Len(w) + 1
  OBVIOUS
<1>1. ASSUME NEW i \in 1..8
      PROVE  rows[i] \in [1..5 -> Nat] /\ \A j \in 1..5 : rows[i][j] = w[5 * i - 5 + j]
  <2>1. s.segs[SegmentOrder[i]] = DecodeSegment(SegmentWords(w, i))
    <3>1. s.segs = Named(SegmentOrder, [k \in 1..8 |-> DecodeSegment(SegmentWords(w, k))])
      BY Lengths DEF DecodeSpecial
    <3>2. SegmentOrder \in Orders /\ i \in DOMAIN SegmentOrder
      BY Lengths, Zenon DEF Orders
    <3> QED
      BY <3>1, <3>2, NamedAt
  <2>2. SegmentOk(SegmentWords(w, i))
    BY Lengths, Zenon DEF SpecialOk
  <2>3. rows[i] = SegmentWords(w, i)
    BY <2>1, <2>2, SegmentWordsIs, SegmentCanonical
  <2> QED
    BY <2>3, SegmentWordsIs, SMTT(30)
<1>2. Rows(5, rows) = From(w, 1, 40)
  <2> DEFINE u == From(w, 1, 40)
  <2>0. Piece(u, w, 1, 40)
    BY <1>0, FromPiece, ZenonT(60)
  <2>1. u \in Words /\ Len(u) = 40 /\ \A i \in 1..40 : u[i] = w[1 + i - 1]
    BY <2>0, Zenon DEF Piece
  <2>2. rows \in [1..8 -> [1..5 -> Nat]]
    BY <1>1
  <2> HIDE DEF u, rows
  <2>3. HoldsRows(u, 5, 8, rows)
    BY <1>1, <2>1 DEF HoldsRows
  <2>4. 5 \in Widths /\ 8 \in Nat /\ u \in WordsOf(5 * 8)
    BY <2>1 DEF Widths, WordsOf
  <2>5. Same(Rows(5, rows), u)
    BY <2>2, <2>3, <2>4, RowsAre, ZenonT(60)
  <2> QED
    BY <2>5 DEF Same, u
<1> HIDE DEF rows
<1>3. EncodeTable(s.gdt) = From(w, 41, 2) /\ EncodeTable(s.idt) = From(w, 43, 2)
  <2> DEFINE g == From(w, 41, 2)
             t == From(w, 43, 2)
  <2>1. Piece(g, w, 41, 2)
    BY <1>0, FromPiece, ZenonT(60)
  <2>2. Piece(t, w, 43, 2)
    BY <1>0, FromPiece, ZenonT(60)
  <2>3. s.gdt = w[41] /\ s.idt = w[43]
    BY Lengths DEF DecodeSpecial
  <2>4. g[2] = 0 /\ t[2] = 0
    BY Lengths DEF SpecialOk, TableOk
  <2> HIDE DEF s, g, t
  <2>5. EncodeTable(s.gdt) = g
    BY <2>1, <2>3, <2>4 DEF EncodeTable, Piece
  <2>6. EncodeTable(s.idt) = t
    BY <2>2, <2>3, <2>4 DEF EncodeTable, Piece
  <2> QED
    BY <2>5, <2>6 DEF g, t
<1>4. InOrder(ControlOrder, s.ctl) = From(w, 45, 11)
  <2> DEFINE u == From(w, 45, 11)
  <2>1. Piece(u, w, 45, 11)
    BY <1>0, FromPiece, ZenonT(60)
  <2>2. s.ctl = Named(ControlOrder, u)
    BY Lengths DEF DecodeSpecial
  <2> HIDE DEF u, s
  <2>3. \A i \in 1..11 : s.ctl[ControlOrder[i]] = u[i]
    BY <2>2, Lengths, NamedAt DEF Orders
  <2>4. u \in [1..11 -> Nat]
    BY <2>1, Zenon DEF Piece
  <2> QED
    BY <2>3, <2>4, Lengths DEF InOrder, u
<1>5. EncodeSpecial(s) = Rows(5, rows) \o EncodeTable(s.gdt) \o EncodeTable(s.idt) \o InOrder(ControlOrder, s.ctl)
  BY Lengths DEF EncodeSpecial, rows
<1>6. From(w, 1, 40) \o From(w, 41, 2) \o From(w, 43, 2) \o From(w, 45, 11) = w
  <2>0. 1 + 40 = 41 /\ 40 + 2 = 42 /\ 42 + 1 = 43 /\ 42 + 2 + 1 = 45
    OBVIOUS
  <2>1. /\ 1 \in Nat \ {0} /\ 40 \in Nat /\ 2 \in Nat /\ 42 \in Nat /\ 11 \in Nat
        /\ 1 + 40 + 2 <= Len(w) + 1 /\ w \in WordsOf(42 + 2 + 11)
    BY DEF WordsOf
  <2>2. Same(From(w, 1, 40) \o From(w, 1 + 40, 2), From(w, 1, 40 + 2))
    BY <2>1, FromJoin, ZenonT(60)
  <2>3. Same(From(w, 1, 42) \o From(w, 42 + 1, 2) \o From(w, 42 + 2 + 1, 11), w)
    BY <2>1, SplitThree, ZenonT(60)
  <2> QED
    BY <2>0, <2>2, <2>3 DEF Same
<1> QED
  BY <1>2, <1>3, <1>4, <1>5, <1>6

\* Special registers are encoded to words that pass their checks and decode
\* to them.
LEMMA SpecialRound ==
  ASSUME NEW s \in Specials
  PROVE  /\ EncodeSpecial(s) \in WordsOf(55)
         /\ SpecialOk(EncodeSpecial(s))
         /\ DecodeSpecial(EncodeSpecial(s)) = s
<1> DEFINE rows == [i \in 1..8 |-> EncodeSegment(s.segs[SegmentOrder[i]])]
           a == Rows(5, rows)
           b == EncodeTable(s.gdt)
           c == EncodeTable(s.idt)
           d == InOrder(ControlOrder, s.ctl)
           u == a \o b
           t == u \o c \o d
<1>1. /\ s = [segs |-> s.segs, gdt |-> s.gdt, idt |-> s.idt, ctl |-> s.ctl]
      /\ s.segs \in [Range(SegmentOrder) -> Segments] /\ s.ctl \in [Range(ControlOrder) -> Nat]
      /\ s.gdt \in Nat /\ s.idt \in Nat
  BY DEF Specials
<1>2. EncodeSpecial(s) = t
  BY Lengths DEF EncodeSpecial
<1>3. SegmentOrder \in Orders /\ ControlOrder \in Orders
  BY DEF Orders
<1>4. ASSUME NEW i \in 1..8
      PROVE  s.segs[SegmentOrder[i]] \in Segments
  <2>1. SegmentOrder[i] \in Range(SegmentOrder)
    BY <1>3, Lengths, NamedAt, Zenon
  <2> QED
    BY <1>1, <2>1
<1>5. rows \in [1..8 -> [1..5 -> Nat]]
  BY <1>4, SegmentRound
<1>6. a \in WordsOf(40) /\ \A i \in 1..8, j \in 1..5 : a[5 * i - 5 + j] = rows[i][j]
  <2>1. 5 \in Widths /\ 8 \in Nat
    BY DEF Widths
  <2> HIDE DEF rows
  <2>2. a \in WordsOf(5 * 8) /\ HoldsRows(a, 5, 8, rows)
    BY <1>5, <2>1, RowsIs, Zenon
  <2>3. 5 * 8 = 40
    OBVIOUS
  <2> HIDE DEF a
  <2> QED
    BY <2>2, <2>3, Zenon DEF HoldsRows
<1>7. b \in WordsOf(2) /\ b[1] = s.gdt /\ b[2] = 0 /\ c \in WordsOf(2) /\ c[1] = s.idt /\ c[2] = 0
  BY <1>1 DEF EncodeTable, WordsOf, Words
<1>8. d \in WordsOf(11) /\ \A i \in 1..11 : d[i] = s.ctl[ControlOrder[i]]
  <2>1. \A i \in 1..11 : ControlOrder[i] \in Range(ControlOrder)
    BY <1>3, Lengths, NamedAt, Zenon
  <2>2. d \in [1..11 -> Nat] /\ \A i \in 1..11 : d[i] = s.ctl[ControlOrder[i]]
    BY <1>1, <2>1, Lengths DEF InOrder
  <2> HIDE DEF d
  <2> QED
    BY <2>2, FunctionIsWords, Zenon
<1> HIDE DEF a, b, c, d
<1>9. /\ 40 + 1 = 41 /\ 40 + 2 = 42 /\ 42 + 1 = 43 /\ 42 + 2 + 1 = 45 /\ 42 + 2 + 11 = 55
      /\ 2 \in Nat /\ 11 \in Nat /\ 40 \in Nat /\ 42 \in Nat
  OBVIOUS
<1>10. u \in WordsOf(42) /\ From(u, 1, 40) = a /\ From(u, 41, 2) = b
  <2>1. TwoPieces(u, a, 40, b, 2)
    BY <1>6, <1>7, <1>9, TwoPiecesIs, Zenon
  <2> QED
    BY <1>9, <2>1, Zenon DEF TwoPieces, Same
<1> HIDE DEF u
<1>12. t \in WordsOf(55) /\ From(t, 1, 42) = u /\ From(t, 43, 2) = c /\ From(t, 45, 11) = d
  <2>1. ThreePieces(t, u, 42, c, 2, d, 11)
    BY <1>7, <1>8, <1>9, <1>10, ThreePiecesIs, ZenonT(60)
  <2> QED
    BY <1>9, <2>1, Zenon DEF ThreePieces, Same
<1> HIDE DEF t
<1>11. t \in Words /\ Len(t) = 55
  BY <1>12, Zenon DEF WordsOf
<1>13. /\ 2 \in Nat /\ 11 \in Nat /\ 40 \in Nat /\ 42 \in Nat
       /\ 1 \in Nat \ {0} /\ 41 \in Nat \ {0} /\ 43 \in Nat \ {0} /\ 45 \in Nat \ {0}
       /\ 1 + 40 <= Len(t) + 1 /\ 41 + 2 <= Len(t) + 1 /\ 43 + 2 <= Len(t) + 1 /\ 45 + 11 <= Len(t) + 1
       /\ 1 + 42 <= Len(t) + 1 /\ 1 + 40 <= 42 + 1 /\ 41 + 2 <= 42 + 1 /\ 1 + 1 - 1 = 1 /\ 1 + 41 - 1 = 41
  BY <1>11
<1>14. From(t, 1, 40) = a /\ From(t, 41, 2) = b
  <2>1. Same(From(From(t, 1, 42), 1, 40), From(t, 1 + 1 - 1, 40))
    BY <1>11, <1>13, FromFrom, ZenonT(60)
  <2>2. Same(From(From(t, 1, 42), 41, 2), From(t, 1 + 41 - 1, 2))
    BY <1>11, <1>13, FromFrom, ZenonT(60)
  <2> QED
    BY <1>10, <1>12, <1>13, <2>1, <2>2, Zenon DEF Same
<1>15. \A i \in 1..8 : SegmentWords(t, i) = rows[i]
  <2>1. Piece(a, t, 1, 40)
    BY <1>11, <1>13, <1>14, FromPiece, Zenon
  <2> SUFFICES ASSUME NEW i \in 1..8 PROVE SegmentWords(t, i) = rows[i]
    OBVIOUS
  <2>2. SegmentWords(t, i) \in [1..5 -> Nat] /\ \A j \in 1..5 : SegmentWords(t, i)[j] = t[5 * i - 5 + j]
    BY <1>11, <1>13, SegmentWordsIs, ZenonT(60)
  <2>3. \A j \in 1..5 : t[5 * i - 5 + j] = rows[i][j]
    <3> SUFFICES ASSUME NEW j \in 1..5 PROVE t[5 * i - 5 + j] = rows[i][j]
      OBVIOUS
    <3>1. a[5 * i - 5 + j] = rows[i][j]
      BY <1>6
    <3> QED
      BY <2>1, <3>1 DEF Piece
  <2>4. rows[i] \in [1..5 -> Nat]
    BY <1>5
  <2> HIDE DEF rows
  <2> QED
    BY <2>2, <2>3, <2>4
<1>16. t[41] = s.gdt /\ t[43] = s.idt
  <2>1. Piece(b, t, 41, 2)
    BY <1>11, <1>13, <1>14, FromPiece, Zenon
  <2>2. Piece(c, t, 43, 2)
    BY <1>11, <1>12, <1>13, FromPiece, Zenon
  <2> QED
    BY <1>7, <2>1, <2>2 DEF Piece
<1>17. SpecialOk(t)
  <2>1. \A i \in 1..8 : SegmentOk(rows[i])
    BY <1>4, SegmentRound
  <2>2. TableOk(b) /\ TableOk(c)
    BY <1>7 DEF TableOk
  <2>3. 41 + 2 = 43
    OBVIOUS
  <2> HIDE DEF rows
  <2>4. \A i \in DOMAIN SegmentOrder : SegmentOk(SegmentWords(t, i))
    BY <1>15, <2>1, Lengths, Zenon
  <2>5. TableOk(From(t, TableAt, 2)) /\ TableOk(From(t, TableAt + 2, 2))
    BY <1>12, <1>14, <2>2, <2>3, Lengths, Zenon
  <2> QED
    BY <2>4, <2>5, Zenon DEF SpecialOk
<1>18. DecodeSpecial(t) = s
  <2> DEFINE segs == [i \in DOMAIN SegmentOrder |-> DecodeSegment(SegmentWords(t, i))]
  <2>1. Same(Named(SegmentOrder, segs), s.segs)
    <3>1. \A i \in DOMAIN SegmentOrder : segs[i] = s.segs[SegmentOrder[i]]
      BY <1>4, <1>15, Lengths, SegmentRound
    <3> HIDE DEF segs
    <3> QED
      BY <1>1, <1>3, <3>1, NamedIs, Zenon
  <2>2. Same(Named(ControlOrder, d), s.ctl)
    <3>1. \A i \in DOMAIN ControlOrder : d[i] = s.ctl[ControlOrder[i]]
      BY <1>8, Lengths, Zenon
    <3> QED
      BY <1>1, <1>3, <3>1, NamedIs, Zenon
  <2>3. 41 + 2 = 43
    OBVIOUS
  <2>4. DecodeSpecial(t) = [segs |-> Named(SegmentOrder, segs), gdt |-> t[41], idt |-> t[43], ctl |-> Named(ControlOrder, From(t, 45, 11))]
    BY <2>3, Lengths DEF DecodeSpecial
  <2> HIDE DEF segs
  <2> QED
    BY <1>1, <1>12, <1>16, <2>1, <2>2, <2>4, Zenon DEF Same
<1> QED
  BY <1>2, <1>12, <1>17, <1>18

Msr == [index : Nat, value : Nat]

\* MSRs that passed their checks are encoded to the words they came from.
LEMMA MsrsCanonical ==
  ASSUME NEW n \in Nat, NEW w \in WordsOf(3 * n), MsrsOk(w, n)
  PROVE  /\ Same(EncodeMsrs(DecodeMsrs(w, n)), w)
         /\ Len(DecodeMsrs(w, n)) = n /\ Ascending(Indices(DecodeMsrs(w, n)))
<1> DEFINE msrs == DecodeMsrs(w, n)
           rows == [i \in 1..n |-> <<msrs[i].index, 0, msrs[i].value>>]
<1>1. w \in [1..3 * n -> Nat]
  BY AsFunction DEF WordsOf
<1>2. msrs = [i \in 1..n |-> [index |-> w[3 * i - 2], value |-> w[3 * i]]] /\ DOMAIN msrs = 1..n
  BY DEF DecodeMsrs
<1>3. Len(msrs) = n
  BY <1>2
<1>4. Ascending(Indices(msrs))
  BY DEF MsrsOk
<1> HIDE DEF msrs
<1>5. ASSUME NEW i \in 1..n
      PROVE  rows[i] \in [1..3 -> Nat] /\ \A j \in 1..3 : rows[i][j] = w[3 * i - 3 + j]
  <2>1. 3 * i - 2 \in 1..3 * n /\ 3 * i - 1 \in 1..3 * n /\ 3 * i \in 1..3 * n
    OBVIOUS
  <2>2. rows[i] = <<w[3 * i - 2], 0, w[3 * i]>>
    BY <1>2
  <2>3. w[3 * i - 1] = 0
    BY DEF MsrsOk
  <2>4. w[3 * i - 2] \in Nat /\ w[3 * i] \in Nat
    BY <1>1, <2>1
  <2>5. 3 * i - 3 + 1 = 3 * i - 2 /\ 3 * i - 3 + 2 = 3 * i - 1 /\ 3 * i - 3 + 3 = 3 * i
    OBVIOUS
  <2> HIDE DEF rows
  <2> QED
    BY <2>2, <2>3, <2>4, <2>5
<1>6. rows \in [1..n -> [1..3 -> Nat]]
  BY <1>5
<1>7. EncodeMsrs(msrs) = Rows(3, rows)
  BY <1>2 DEF EncodeMsrs
<1> HIDE DEF rows
<1>8. HoldsRows(w, 3, n, rows) /\ 3 \in Widths
  BY <1>5 DEF HoldsRows, Widths
<1>9. Same(Rows(3, rows), w)
  BY <1>6, <1>8, RowsAre, Zenon
<1> QED
  BY <1>3, <1>4, <1>7, <1>9 DEF msrs

\* MSRs in ascending order are encoded to words that pass their checks and
\* decode to them.
LEMMA MsrsRound ==
  ASSUME NEW msrs \in Seq(Msr), Ascending(Indices(msrs))
  PROVE  LET n == Len(msrs) IN
         /\ EncodeMsrs(msrs) \in WordsOf(3 * n)
         /\ MsrsOk(EncodeMsrs(msrs), n)
         /\ DecodeMsrs(EncodeMsrs(msrs), n) = msrs
<1> DEFINE n == Len(msrs)
           rows == [i \in 1..n |-> <<msrs[i].index, 0, msrs[i].value>>]
           w == EncodeMsrs(msrs)
<1>1. n \in Nat /\ DOMAIN msrs = 1..n /\ msrs \in [1..n -> Msr]
  OBVIOUS
<1> HIDE DEF n
<1>2. \A i \in 1..n : msrs[i].index \in Nat /\ msrs[i].value \in Nat
  BY <1>1 DEF Msr
<1>3. rows \in [1..n -> [1..3 -> Nat]] /\ \A i \in 1..n : rows[i] = <<msrs[i].index, 0, msrs[i].value>>
  BY <1>2
<1>4. w = Rows(3, rows)
  BY <1>1 DEF EncodeMsrs
<1> HIDE DEF rows
<1>5. 3 \in Widths
  BY DEF Widths
<1>6. w \in WordsOf(3 * n) /\ HoldsRows(w, 3, n, rows)
  BY <1>1, <1>3, <1>4, <1>5, RowsIs
<1> HIDE DEF w
<1>7. \A i \in 1..n : w[3 * i - 2] = msrs[i].index /\ w[3 * i - 1] = 0 /\ w[3 * i] = msrs[i].value
  <2> SUFFICES ASSUME NEW i \in 1..n
               PROVE  w[3 * i - 2] = msrs[i].index /\ w[3 * i - 1] = 0 /\ w[3 * i] = msrs[i].value
    OBVIOUS
  <2>1. 3 * i - 3 + 1 = 3 * i - 2 /\ 3 * i - 3 + 2 = 3 * i - 1 /\ 3 * i - 3 + 3 = 3 * i
    OBVIOUS
  <2>2. w[3 * i - 3 + 1] = rows[i][1] /\ w[3 * i - 3 + 2] = rows[i][2] /\ w[3 * i - 3 + 3] = rows[i][3]
    BY <1>6 DEF HoldsRows
  <2> QED
    BY <1>3, <2>1, <2>2
<1>8. DecodeMsrs(w, n) = msrs
  <2>1. \A i \in 1..n : [index |-> w[3 * i - 2], value |-> w[3 * i]] = msrs[i]
    BY <1>1, <1>7 DEF Msr
  <2> QED
    BY <1>1, <2>1 DEF DecodeMsrs
<1>9. MsrsOk(w, n)
  BY <1>7, <1>8 DEF MsrsOk
<1> QED
  BY <1>6, <1>8, <1>9 DEF w, n

\* The pieces of a vCPU's words.
LEMMA VcpuPlaces ==
  ASSUME NEW n \in Nat
  PROVE  /\ 18 \in Nat /\ 55 \in Nat /\ 3 * n \in Nat /\ VcpuLen(n) \in Nat
         /\ VcpuLen(n) = 18 + 55 + 3 * n
         /\ Len(RegisterOrder) = 18 /\ SpecialLen = 55
BY Lengths

\* The state of a vCPU that passed its checks is encoded to the words it came from.
LEMMA VcpuCanonical ==
  ASSUME NEW n \in Nat, NEW w \in WordsOf(VcpuLen(n)), VcpuOk(w, n)
  PROVE  /\ Same(VcpuWords(VcpuOf(w, n)), w)
         /\ Len(VcpuOf(w, n).msrs) = n /\ Ascending(Indices(VcpuOf(w, n).msrs))
<1> DEFINE v == VcpuOf(w, n)
           r == From(w, 1, 18)
           s == From(w, 18 + 1, 55)
           m == From(w, 18 + 55 + 1, 3 * n)
<1>1. /\ v.regs = Named(RegisterOrder, w) /\ v.sregs = DecodeSpecial(s) /\ v.msrs = DecodeMsrs(m, n)
      /\ SpecialOk(s) /\ MsrsOk(m, n)
  BY VcpuPlaces DEF VcpuOf, VcpuOk, DecodeRegisters
<1>2. w \in Words /\ Len(w) = 18 + 55 + 3 * n
  BY VcpuPlaces, Zenon DEF WordsOf
<1>3. /\ 1 \in Nat \ {0} /\ 18 + 1 \in Nat \ {0} /\ 18 + 55 + 1 \in Nat \ {0}
      /\ 18 \in Nat /\ 55 \in Nat /\ 3 * n \in Nat
      /\ 1 + 18 <= Len(w) + 1 /\ 18 + 1 + 55 <= Len(w) + 1 /\ 18 + 55 + 1 + 3 * n <= Len(w) + 1
  BY <1>2
<1>4. Piece(r, w, 1, 18)
  BY <1>2, <1>3, FromPiece, Zenon
<1>5. Piece(s, w, 18 + 1, 55)
  BY <1>2, <1>3, FromPiece, Zenon
<1>6. Piece(m, w, 18 + 55 + 1, 3 * n)
  BY <1>2, <1>3, FromPiece, Zenon
<1>7. Same(r \o s \o m, w)
  <2>1. w \in WordsOf(18 + 55 + 3 * n)
    BY <1>2 DEF WordsOf
  <2> QED
    BY <1>3, <2>1, SplitThree, Zenon
<1> HIDE DEF v, r, s, m
<1>8. EncodeRegisters(v.regs) = r
  <2>1. \A i \in 1..18 : w[i] = r[i]
    BY <1>4 DEF Piece
  <2>2. \A i \in 1..18 : v.regs[RegisterOrder[i]] = w[i]
    <3>1. RegisterOrder \in Orders /\ DOMAIN RegisterOrder = 1..18
      BY Lengths DEF Orders
    <3> QED
      BY <1>1, <3>1, NamedAt
  <2>3. r \in [1..18 -> Nat]
    BY <1>4, Zenon DEF Piece
  <2> QED
    BY <2>1, <2>2, <2>3, Lengths DEF EncodeRegisters, InOrder
<1>9. EncodeSpecial(v.sregs) = s
  BY <1>1, <1>5, SpecialCanonical, Zenon DEF Piece
<1>10. /\ Same(EncodeMsrs(v.msrs), m)
       /\ Len(v.msrs) = n /\ Ascending(Indices(v.msrs))
  <2>1. m \in WordsOf(3 * n)
    BY <1>6, Zenon DEF Piece, WordsOf
  <2> QED
    BY <1>1, <2>1, MsrsCanonical, Zenon
<1> QED
  BY <1>7, <1>8, <1>9, <1>10, Zenon DEF VcpuWords, Same, v

\* The state of a vCPU with ascending MSRs is encoded to words that pass
\* their checks and decode to it.
LEMMA VcpuRound ==
  ASSUME NEW v \in Vcpus, Ascending(Indices(v.msrs))
  PROVE  LET n == Len(v.msrs) IN
         /\ n \in Nat /\ VcpuWords(v) \in WordsOf(VcpuLen(n))
         /\ VcpuOk(VcpuWords(v), n)
         /\ VcpuOf(VcpuWords(v), n) = v
<1> DEFINE n == Len(v.msrs)
           r == EncodeRegisters(v.regs)
           s == EncodeSpecial(v.sregs)
           m == EncodeMsrs(v.msrs)
           w == r \o s \o m
<1>1. /\ v = [regs |-> v.regs, sregs |-> v.sregs, msrs |-> v.msrs]
      /\ v.regs \in [Range(RegisterOrder) -> Nat] /\ v.sregs \in Specials /\ v.msrs \in Seq(Msr)
  BY DEF Vcpus, Msr
<1>2. n \in Nat
  BY <1>1
<1>3. RegisterOrder \in Orders
  BY DEF Orders
<1>4. r \in WordsOf(18) /\ \A i \in 1..18 : r[i] = v.regs[RegisterOrder[i]]
  <2>1. \A i \in 1..18 : RegisterOrder[i] \in Range(RegisterOrder)
    BY <1>3, Lengths, NamedAt, Zenon
  <2>2. r \in [1..18 -> Nat] /\ \A i \in 1..18 : r[i] = v.regs[RegisterOrder[i]]
    BY <1>1, <2>1, Lengths DEF EncodeRegisters, InOrder
  <2>3. 18 \in Nat
    OBVIOUS
  <2> HIDE DEF r
  <2> QED
    BY <2>2, <2>3, FunctionIsWords, Zenon
<1>5. s \in WordsOf(55) /\ SpecialOk(s) /\ DecodeSpecial(s) = v.sregs
  BY <1>1, SpecialRound, Zenon
<1>6. m \in WordsOf(3 * n) /\ MsrsOk(m, n) /\ DecodeMsrs(m, n) = v.msrs
  BY <1>1, MsrsRound, Zenon
<1>7. VcpuWords(v) = w
  BY DEF VcpuWords
<1> HIDE DEF n, r, s, m
<1>8. ThreePieces(w, r, 18, s, 55, m, 3 * n)
  <2>1. 18 \in Nat /\ 55 \in Nat /\ 3 * n \in Nat
    BY <1>2
  <2> QED
    BY <1>4, <1>5, <1>6, <2>1, ThreePiecesIs, Zenon
<1> HIDE DEF w
<1>9. /\ w \in WordsOf(18 + 55 + 3 * n)
      /\ From(w, 1, 18) = r /\ From(w, 18 + 1, 55) = s /\ From(w, 18 + 55 + 1, 3 * n) = m
  BY <1>8, Zenon DEF ThreePieces, Same
<1>10. w \in WordsOf(VcpuLen(n))
  BY <1>2, <1>9, VcpuPlaces, Zenon
<1>11. VcpuOk(w, n)
  BY <1>2, <1>5, <1>6, <1>9, VcpuPlaces, Zenon DEF VcpuOk
<1>12. Same(Named(RegisterOrder, w), v.regs)
  <2>1. w \in Words /\ Len(w) = 18 + 55 + 3 * n
    BY <1>9, Zenon DEF WordsOf
  <2>2. 1 \in Nat \ {0} /\ 18 \in Nat /\ 1 + 18 <= Len(w) + 1
    BY <1>2, <2>1
  <2>3. Piece(r, w, 1, 18)
    BY <1>9, <2>1, <2>2, FromPiece, Zenon
  <2>4. \A i \in 1..18 : w[i] = r[i]
    BY <2>3 DEF Piece
  <2>5. \A i \in DOMAIN RegisterOrder : w[i] = v.regs[RegisterOrder[i]]
    BY <1>4, <2>4, Lengths, Zenon
  <2> QED
    BY <1>1, <1>3, <2>5, NamedIs, Zenon
<1>13. VcpuOf(w, n) = v
  BY <1>1, <1>2, <1>5, <1>6, <1>9, <1>12, VcpuPlaces, Zenon DEF VcpuOf, DecodeRegisters, Same
<1> QED
  BY <1>2, <1>7, <1>10, <1>11, <1>13 DEF n

-----------------------------------------------------------------------------
\* MHVVCPU

\* An accepted vCPU image is encoded to the same words, and has what encode
\* and materialize check again.
LEMMA VcpuDecoded ==
  ASSUME NEW w \in Words, DecodeVcpu(w) # Nothing
  PROVE  Same(EncodeVcpu(DecodeVcpu(w)), w) /\ ValidMsrs(DecodeVcpu(w).msrs)
<1> DEFINE n == w[6]
           b == From(w, 9, VcpuLen(n))
           v == VcpuOf(b, n)
           fields == <<n, 0, 0>>
<1>1. /\ Opens(w, VcpuMagic, 1, 8) /\ n <= MsrLimit /\ w[7] = 0 /\ w[8] = 0
      /\ Len(w) = 8 + VcpuLen(n) /\ VcpuOk(b, n)
      /\ DecodeVcpu(w) = v
  BY Zenon DEF DecodeVcpu
<1>2. Len(w) \in Nat /\ n \in Nat
  BY <1>1, SMTT(30) DEF Words, Opens
<1>3. VcpuLen(n) \in Nat
  BY <1>2, VcpuPlaces, Zenon
<1>4. Piece(b, w, 9, VcpuLen(n))
  <2>1. 9 \in Nat \ {0} /\ 9 + VcpuLen(n) <= Len(w) + 1
    BY <1>1, <1>3
  <2> QED
    BY <1>3, <2>1, FromPiece, Zenon
<1>5. b \in WordsOf(VcpuLen(n))
  BY <1>4, Zenon DEF Piece, WordsOf
<1> HIDE DEF n, b
<1>6. Same(VcpuWords(v), b) /\ Len(v.msrs) = n /\ Ascending(Indices(v.msrs))
  BY <1>1, <1>2, <1>5, VcpuCanonical, Zenon
<1> HIDE DEF v
<1>7. ValidMsrs(v.msrs)
  BY <1>1, <1>6, Zenon DEF ValidMsrs
<1>8. fields \in WordsOf(3) /\ HasFields(w, 3, fields)
  BY <1>1, <1>2 DEF WordsOf, Words, HasFields, n
<1> HIDE DEF fields
<1>9. Same(Sealed(VcpuMagic, 1, fields, b), w)
  <2>1. Shape(3, 8, 9, VcpuLen(n), Len(w)) /\ w \in WordsOf(Len(w)) /\ VcpuMagic \in Nat /\ 1 \in Nat
    BY <1>1, <1>2, <1>3 DEF Shape, VcpuMagic, WordsOf
  <2> QED
    BY <1>1, <1>8, <2>1, SealedAre, Zenon DEF b
<1> QED
  BY <1>1, <1>6, <1>7, <1>9, Zenon DEF EncodeVcpu, Same, fields

\* A stored image: words, and at least one.
Image(w) == w \in Words /\ Len(w) \in Nat \ {0}

\* Words of a length other than zero are not the empty sequence.
LEMMA NotEmpty ==
  ASSUME NEW u, Len(u) # 0
  PROVE  u # <<>>
OBVIOUS

\* A stored image is not what a refused one leaves.
LEMMA ImageNotEmpty ==
  ASSUME NEW w, Image(w)
  PROVE  w # <<>>
BY DEF Image

\* Words of a positive length are a stored image.
LEMMA WordsImage ==
  ASSUME NEW n \in Nat \ {0}, NEW w \in WordsOf(n)
  PROVE  Image(w) /\ Len(w) = n
BY DEF Image, WordsOf

\* What Sealed writes is a stored image.
LEMMA SealedImage ==
  ASSUME NEW n, NEW h, NEW b, NEW m, NEW l, Shape(n, h, b, m, l), NEW w \in WordsOf(l)
  PROVE  Image(w) /\ Len(w) = l
BY DEF Shape, WordsOf, Image

\* The state of a vCPU that from_checkpoint let through is stored and read back.
LEMMA VcpuStored ==
  ASSUME NEW v \in Vcpus, ValidMsrs(v.msrs)
  PROVE  /\ Image(EncodeVcpu(v))
         /\ DecodeVcpu(EncodeVcpu(v)) = v /\ v # Nothing
<1> DEFINE n == Len(v.msrs)
           l == 8 + VcpuLen(n)
           b == VcpuWords(v)
           fields == <<n, 0, 0>>
           w == Sealed(VcpuMagic, 1, fields, b)
<1>1. n <= MsrLimit /\ Ascending(Indices(v.msrs))
  BY Zenon DEF ValidMsrs
<1>2. n \in Nat /\ b \in WordsOf(VcpuLen(n)) /\ VcpuOk(b, n) /\ VcpuOf(b, n) = v
  BY <1>1, VcpuRound, Zenon
<1>3. VcpuLen(n) \in Nat
  BY <1>2, VcpuPlaces, Zenon
<1>4. EncodeVcpu(v) = w
  BY Zenon DEF EncodeVcpu
<1>5. v # Nothing
  BY DEF Vcpus, Nothing
<1> HIDE DEF n, b
<1>6. fields \in WordsOf(3) /\ fields[1] = n /\ fields[2] = 0 /\ fields[3] = 0
  BY <1>2 DEF WordsOf, Words
<1> HIDE DEF fields
<1>7. Shape(3, 8, 9, VcpuLen(n), l) /\ VcpuMagic \in Nat /\ 1 \in Nat
  BY <1>3 DEF Shape, VcpuMagic
<1>8. w \in WordsOf(l) /\ SealedAs(w, VcpuMagic, 1, 3, 8, fields, 9, VcpuLen(n), b)
  BY <1>2, <1>6, <1>7, SealedIs, Zenon
<1> HIDE DEF w
<1>9. Image(w) /\ Len(w) = l
  BY <1>7, <1>8, SealedImage, Zenon
<1>10. w[6] = n /\ w[7] = 0 /\ w[8] = 0
  BY <1>6, <1>8 DEF SealedAs, HasFields
<1>11. DecodeVcpu(w) = v
  BY <1>1, <1>2, <1>8, <1>9, <1>10, Zenon DEF DecodeVcpu, SealedAs, Same
<1> QED
  BY <1>4, <1>5, <1>9, <1>11, Zenon

-----------------------------------------------------------------------------
\* MHVCKPT

PageEntry == [addr : Nat, bytes : Nat]
PageWords(pages) == Rows(2, [i \in DOMAIN pages |-> <<pages[i].addr, pages[i].bytes>>])

\* Pages are encoded to the words they came from.
LEMMA PagesCanonical ==
  ASSUME NEW n \in Nat, NEW w \in WordsOf(2 * n)
  PROVE  Same(PageWords(PagesOf(w, n)), w) /\ Len(PagesOf(w, n)) = n
<1> DEFINE pages == PagesOf(w, n)
           rows == [i \in 1..n |-> <<pages[i].addr, pages[i].bytes>>]
<1>1. w \in [1..2 * n -> Nat]
  BY AsFunction DEF WordsOf
<1>2. pages = [i \in 1..n |-> [addr |-> w[2 * i - 1], bytes |-> w[2 * i]]] /\ DOMAIN pages = 1..n
  BY DEF PagesOf
<1>3. Len(pages) = n
  BY <1>2
<1> HIDE DEF pages
<1>4. ASSUME NEW i \in 1..n
      PROVE  rows[i] \in [1..2 -> Nat] /\ \A j \in 1..2 : rows[i][j] = w[2 * i - 2 + j]
  <2>1. 2 * i - 1 \in 1..2 * n /\ 2 * i \in 1..2 * n
    OBVIOUS
  <2>2. rows[i] = <<w[2 * i - 1], w[2 * i]>>
    BY <1>2
  <2>3. w[2 * i - 1] \in Nat /\ w[2 * i] \in Nat
    BY <1>1, <2>1
  <2>4. 2 * i - 2 + 1 = 2 * i - 1 /\ 2 * i - 2 + 2 = 2 * i
    OBVIOUS
  <2> HIDE DEF rows
  <2> QED
    BY <2>2, <2>3, <2>4
<1>5. rows \in [1..n -> [1..2 -> Nat]]
  BY <1>4
<1>6. PageWords(pages) = Rows(2, rows)
  BY <1>2 DEF PageWords
<1> HIDE DEF rows
<1>7. HoldsRows(w, 2, n, rows) /\ 2 \in Widths
  BY <1>4 DEF HoldsRows, Widths
<1>8. Same(Rows(2, rows), w)
  BY <1>5, <1>7, RowsAre, Zenon
<1> QED
  BY <1>3, <1>6, <1>8 DEF pages

\* Pages are encoded to words that decode to them.
LEMMA PagesRound ==
  ASSUME NEW pages \in Seq(PageEntry)
  PROVE  LET n == Len(pages) IN
         /\ n \in Nat
         /\ PageWords(pages) \in WordsOf(2 * n)
         /\ PagesOf(PageWords(pages), n) = pages
<1> DEFINE n == Len(pages)
           rows == [i \in 1..n |-> <<pages[i].addr, pages[i].bytes>>]
           w == PageWords(pages)
<1>1. n \in Nat /\ DOMAIN pages = 1..n /\ pages \in [1..n -> PageEntry]
  OBVIOUS
<1> HIDE DEF n
<1>2. \A i \in 1..n : pages[i].addr \in Nat /\ pages[i].bytes \in Nat
  BY <1>1 DEF PageEntry
<1>3. rows \in [1..n -> [1..2 -> Nat]] /\ \A i \in 1..n : rows[i] = <<pages[i].addr, pages[i].bytes>>
  BY <1>2
<1>4. w = Rows(2, rows)
  BY <1>1 DEF PageWords
<1> HIDE DEF rows
<1>5. 2 \in Widths
  BY DEF Widths
<1>6. w \in WordsOf(2 * n) /\ HoldsRows(w, 2, n, rows)
  BY <1>1, <1>3, <1>4, <1>5, RowsIs
<1> HIDE DEF w
<1>7. \A i \in 1..n : w[2 * i - 1] = pages[i].addr /\ w[2 * i] = pages[i].bytes
  <2> SUFFICES ASSUME NEW i \in 1..n PROVE w[2 * i - 1] = pages[i].addr /\ w[2 * i] = pages[i].bytes
    OBVIOUS
  <2>1. 2 * i - 2 + 1 = 2 * i - 1 /\ 2 * i - 2 + 2 = 2 * i
    OBVIOUS
  <2>2. w[2 * i - 2 + 1] = rows[i][1] /\ w[2 * i - 2 + 2] = rows[i][2]
    BY <1>6 DEF HoldsRows
  <2> QED
    BY <1>3, <2>1, <2>2
<1>8. PagesOf(w, n) = pages
  <2>1. \A i \in 1..n : [addr |-> w[2 * i - 1], bytes |-> w[2 * i]] = pages[i]
    BY <1>1, <1>7 DEF PageEntry
  <2> QED
    BY <1>1, <2>1 DEF PagesOf
<1> QED
  BY <1>1, <1>6, <1>8 DEF w, n

\* An accepted page image is encoded to the same words, and has what encode
\* and materialize check again.
LEMMA PageDecoded ==
  ASSUME NEW w \in Words, DecodePage(w) # Nothing
  PROVE  Same(EncodePage(DecodePage(w)), w) /\ PageSound(DecodePage(w))
<1> DEFINE n == w[7]
           m == w[8]
           p == From(w, 11, 2 * n)
           q == From(w, 11 + 2 * n, VcpuLen(m))
           c == [pages |-> PagesOf(p, n), vcpu |-> VcpuOf(q, m)]
           fields == <<PageSize, n, m, 0, 0>>
<1>1. /\ Opens(w, PageMagic, 1, 10) /\ w[6] = PageSize /\ n \in 1..PageLimit /\ m <= MsrLimit
      /\ w[9] = 0 /\ w[10] = 0
      /\ Len(w) = 10 + 2 * n + VcpuLen(m) /\ ValidPages(PagesOf(p, n)) /\ VcpuOk(q, m)
      /\ DecodePage(w) = c
  BY Zenon DEF DecodePage
<1>2. Len(w) \in Nat /\ n \in Nat /\ m \in Nat /\ PageSize \in Nat
  <2>1. Len(w) \in Nat /\ Len(w) >= 10
    BY <1>1 DEF Words, Opens
  <2>2. w[7] \in Nat /\ w[8] \in Nat
    BY <2>1 DEF Words
  <2> QED
    BY <2>1, <2>2, VcpuLimitsAssumption
<1>3. VcpuLen(m) \in Nat
  BY <1>2, VcpuPlaces, Zenon
<1>8. fields \in WordsOf(5) /\ HasFields(w, 5, fields)
  BY <1>1, <1>2 DEF WordsOf, Words, HasFields
<1> HIDE DEF n, m
<1>4. /\ 2 * n \in Nat /\ Shape(5, 10, 11, 2 * n + VcpuLen(m), Len(w))
      /\ w \in WordsOf(Len(w)) /\ PageMagic \in Nat /\ 1 \in Nat
  <2>1. Len(w) = 10 + 2 * n + VcpuLen(m)
    BY <1>1, Zenon
  <2> QED
    BY <1>2, <1>3, <2>1 DEF Shape, PageMagic, WordsOf
<1> HIDE DEF fields
<1>5. /\ Same(Sealed(PageMagic, 1, fields, p \o q), w)
      /\ p \in WordsOf(2 * n) /\ q \in WordsOf(VcpuLen(m))
  BY <1>1, <1>3, <1>4, <1>8, SealedAreTwo, Zenon
<1> HIDE DEF p, q
<1>10. Same(PageWords(c.pages), p) /\ Len(c.pages) = n
  BY <1>2, <1>5, PagesCanonical, Zenon
<1>11. Same(VcpuWords(c.vcpu), q) /\ Len(c.vcpu.msrs) = m /\ Ascending(Indices(c.vcpu.msrs))
  BY <1>1, <1>2, <1>5, VcpuCanonical, Zenon
<1>12. ValidPages(c.pages) /\ ValidMsrs(c.vcpu.msrs)
  BY <1>1, <1>11, Zenon DEF ValidMsrs
<1>14. c.vcpu # Nothing
  BY DEF VcpuOf, Nothing
<1> HIDE DEF c
<1>13. EncodePage(c) = Sealed(PageMagic, 1, fields, PageWords(c.pages) \o VcpuWords(c.vcpu))
  BY <1>10, <1>11, <1>12, Zenon DEF EncodePage, PageWords, fields
<1> QED
  BY <1>1, <1>5, <1>10, <1>11, <1>12, <1>13, <1>14, Zenon DEF Same, PageSound, VcpuSound

\* A page set and vCPU state that from_checkpoint let through are stored and
\* read back.
LEMMA PageStored ==
  ASSUME NEW c \in PageSets, ValidPages(c.pages), ValidMsrs(c.vcpu.msrs)
  PROVE  /\ Image(EncodePage(c))
         /\ DecodePage(EncodePage(c)) = c /\ c # Nothing
<1> DEFINE n == Len(c.pages)
           m == Len(c.vcpu.msrs)
           k == 2 * n
           v == VcpuLen(m)
           l == 10 + k + v
           p == PageWords(c.pages)
           q == VcpuWords(c.vcpu)
           fields == <<PageSize, n, m, 0, 0>>
           w == Sealed(PageMagic, 1, fields, p \o q)
<1>1. /\ c = [pages |-> c.pages, vcpu |-> c.vcpu] /\ c # Nothing
      /\ c.pages \in Seq(PageEntry) /\ c.vcpu \in Vcpus
  BY DEF PageSets, PageEntry, Nothing
<1>2. m <= MsrLimit /\ Ascending(Indices(c.vcpu.msrs)) /\ n \in 1..PageLimit
  BY Zenon DEF ValidMsrs, ValidPages
<1>3. n \in Nat /\ p \in WordsOf(k) /\ PagesOf(p, n) = c.pages
  BY <1>1, PagesRound, Zenon
<1>4. m \in Nat /\ q \in WordsOf(v) /\ VcpuOk(q, m) /\ VcpuOf(q, m) = c.vcpu
  BY <1>1, <1>2, VcpuRound, Zenon
<1>5. v \in Nat
  BY <1>4, VcpuPlaces, Zenon
<1>6. EncodePage(c) = w
  BY Zenon DEF EncodePage, PageWords
<1> HIDE DEF n, m, v, p, q
<1>7. fields \in WordsOf(5) /\ fields[1] = PageSize /\ fields[2] = n /\ fields[3] = m /\ fields[4] = 0 /\ fields[5] = 0
  BY <1>3, <1>4, VcpuLimitsAssumption DEF WordsOf, Words
<1> HIDE DEF fields
<1>8. k \in Nat /\ Shape(5, 10, 11, k + v, l) /\ PageMagic \in Nat /\ 1 \in Nat
  BY <1>3, <1>5 DEF Shape, PageMagic
<1> HIDE DEF k, l
<1>9. w \in WordsOf(l) /\ SealedTwoAs(w, PageMagic, 1, 5, 10, fields, 11, p, k, q, v)
  BY <1>3, <1>4, <1>5, <1>7, <1>8, SealedTwo, Zenon
<1> HIDE DEF w
<1>10. Image(w) /\ Len(w) = l
  BY <1>8, <1>9, SealedImage, Zenon
<1>11. w[6] = PageSize /\ w[7] = n /\ w[8] = m /\ w[9] = 0 /\ w[10] = 0
  BY <1>7, <1>9 DEF SealedTwoAs, HasFields
<1>12. Opens(w, PageMagic, 1, 10) /\ From(w, 11, k) = p /\ From(w, 11 + k, v) = q
  BY <1>9, Zenon DEF SealedTwoAs
<1>13. DecodePage(w) = c
  <2>1. /\ Opens(w, PageMagic, 1, 10) /\ w[6] = PageSize /\ w[7] \in 1..PageLimit /\ w[8] <= MsrLimit
        /\ w[9] = 0 /\ w[10] = 0
    BY <1>2, <1>11, <1>12, Zenon DEF n, m
  <2>2. /\ Len(w) = 10 + 2 * w[7] + VcpuLen(w[8])
        /\ PagesOf(From(w, 11, 2 * w[7]), w[7]) = c.pages
        /\ VcpuOk(From(w, 11 + 2 * w[7], VcpuLen(w[8])), w[8])
        /\ VcpuOf(From(w, 11 + 2 * w[7], VcpuLen(w[8])), w[8]) = c.vcpu
    BY <1>3, <1>4, <1>10, <1>11, <1>12, Zenon DEF k, l, v
  <2> QED
    BY <1>1, <2>1, <2>2, Zenon DEF DecodePage
<1> QED
  BY <1>1, <1>6, <1>10, <1>13, Zenon

-----------------------------------------------------------------------------
\* MHVFCTL

\* A word of an image with a header is a number.
LEMMA WordIs ==
  ASSUME NEW w \in Words, NEW magic, NEW version, NEW h \in Nat, Opens(w, magic, version, h), NEW i \in 1..h
  PROVE  w[i] \in Nat
BY SMTT(30) DEF Words, Opens

\* An accepted full-controller image is encoded to the same words.
LEMMA FullDecoded ==
  ASSUME NEW w \in Words, DecodeFull(w) # Nothing
  PROVE  Same(EncodeFull(DecodeFull(w)), w) /\ FullSound(DecodeFull(w))
<1> DEFINE n == w[6]
           g == From(w, 9, n)
           s == From(w, 9 + n, 5)
           c == [guest |-> DecodePage(g), master |-> s[1], slave |-> s[2],
                 ioapic |-> [regs |-> s[3], pad |-> s[4]], lapic |-> s[5]]
           fields == <<n, 0, 0>>
<1>1. /\ Opens(w, FullMagic, 1, 8) /\ w[7] = 0 /\ w[8] = 0 /\ n # 0 /\ Len(w) = 8 + n + 5
      /\ DecodePage(g) # Nothing /\ s[4] = 0
      /\ DecodeFull(w) = c
  BY Zenon DEF DecodeFull
<1>2. n \in Nat
  <2>1. 8 \in Nat /\ 6 \in 1..8
    OBVIOUS
  <2> QED
    BY <1>1, <2>1, WordIs, Zenon
<1>3. fields \in WordsOf(3) /\ HasFields(w, 3, fields)
  BY <1>1, <1>2 DEF WordsOf, Words, HasFields
<1> HIDE DEF n, fields
<1>4. Shape(3, 8, 9, n + 5, Len(w)) /\ w \in WordsOf(Len(w)) /\ FullMagic \in Nat /\ 1 \in Nat /\ 5 \in Nat
  <2>1. Len(w) = 8 + n + 5
    BY <1>1, Zenon
  <2> QED
    BY <1>2, <2>1 DEF Shape, FullMagic, WordsOf
<1>5. Same(Sealed(FullMagic, 1, fields, g \o s), w) /\ g \in WordsOf(n) /\ s \in WordsOf(5)
  BY <1>1, <1>2, <1>3, <1>4, SealedAreTwo, Zenon
<1> HIDE DEF g, s
<1>6. g \in Words /\ Len(g) = n /\ g # <<>>
  <2>1. g \in Words /\ Len(g) = n
    BY <1>5, Zenon DEF WordsOf
  <2> QED
    BY <1>1, <1>2, <2>1
<1>7. Same(EncodePage(DecodePage(g)), g) /\ PageSound(DecodePage(g))
  BY <1>1, <1>6, PageDecoded, Zenon
<1>8. /\ c.guest = DecodePage(g) /\ c.ioapic.pad = 0
      /\ <<c.master, c.slave, c.ioapic.regs, c.ioapic.pad, c.lapic>> = s
  <2>1. s = <<s[1], s[2], s[3], s[4], s[5]>>
    BY <1>5 DEF WordsOf, Words
  <2> QED
    BY <1>1, <2>1
<1> HIDE DEF c
<1>9. EncodeFull(c) = Sealed(FullMagic, 1, fields, g \o s)
  BY <1>6, <1>7, <1>8, Zenon DEF EncodeFull, Same, fields
<1> QED
  BY <1>1, <1>5, <1>7, <1>8, <1>9, Zenon DEF Same, FullSound

\* A full-controller checkpoint that from_checkpoint let through is stored
\* and read back.
LEMMA FullStored ==
  ASSUME NEW c \in Fulls, FullSound(c)
  PROVE  /\ Image(EncodeFull(c))
         /\ DecodeFull(EncodeFull(c)) = c /\ c # Nothing
<1> DEFINE g == EncodePage(c.guest)
           n == Len(g)
           s == <<c.master, c.slave, c.ioapic.regs, c.ioapic.pad, c.lapic>>
           l == 8 + n + 5
           fields == <<n, 0, 0>>
           w == Sealed(FullMagic, 1, fields, g \o s)
<1>1. /\ c = [guest |-> c.guest, master |-> c.master, slave |-> c.slave, ioapic |-> c.ioapic, lapic |-> c.lapic]
      /\ c.ioapic = [regs |-> c.ioapic.regs, pad |-> c.ioapic.pad]
      /\ c # Nothing /\ c.guest \in PageSets
      /\ c.master \in Nat /\ c.slave \in Nat /\ c.ioapic.regs \in Nat /\ c.ioapic.pad \in Nat /\ c.lapic \in Nat
  BY DEF Fulls, Ioapics, Nothing
<1>2. c.ioapic.pad = 0 /\ PageSound(c.guest)
  BY DEF FullSound
<1>3. Image(g) /\ DecodePage(g) = c.guest /\ c.guest # Nothing
  BY <1>1, <1>2, PageStored, Zenon DEF PageSound, VcpuSound
<1>4. g \in WordsOf(n) /\ n \in Nat /\ n # 0 /\ g # <<>>
  BY <1>3 DEF Image, WordsOf
<1>5. EncodeFull(c) = w
  BY <1>2, <1>4, Zenon DEF EncodeFull
<1> HIDE DEF g, n
<1>6. fields \in WordsOf(3) /\ fields[1] = n /\ fields[2] = 0 /\ fields[3] = 0
  BY <1>4 DEF WordsOf, Words
<1>7. /\ s \in WordsOf(5) /\ s[1] = c.master /\ s[2] = c.slave /\ s[3] = c.ioapic.regs
      /\ s[4] = c.ioapic.pad /\ s[5] = c.lapic
  BY <1>1 DEF WordsOf, Words
<1> HIDE DEF fields, s
<1>8. Shape(3, 8, 9, n + 5, l) /\ FullMagic \in Nat /\ 1 \in Nat /\ 5 \in Nat
  BY <1>4 DEF Shape, FullMagic
<1> HIDE DEF l
<1>9. w \in WordsOf(l) /\ SealedTwoAs(w, FullMagic, 1, 3, 8, fields, 9, g, n, s, 5)
  BY <1>4, <1>6, <1>7, <1>8, SealedTwo, Zenon
<1> HIDE DEF w
<1>10. Image(w) /\ Len(w) = l
  BY <1>8, <1>9, SealedImage, Zenon
<1>11. w[6] = n /\ w[7] = 0 /\ w[8] = 0
  BY <1>6, <1>9 DEF SealedTwoAs, HasFields
<1>12. Opens(w, FullMagic, 1, 8) /\ From(w, 9, n) = g /\ From(w, 9 + n, 5) = s
  BY <1>9, Zenon DEF SealedTwoAs
<1>13. DecodeFull(w) = c
  <2>1. Len(w) = 8 + w[6] + 5 /\ w[6] # 0
    BY <1>4, <1>10, <1>11, Zenon DEF l
  <2>2. DecodePage(From(w, 9, w[6])) = c.guest /\ From(w, 9 + w[6], 5) = s
    BY <1>3, <1>11, <1>12, Zenon
  <2> QED
    BY <1>1, <1>2, <1>3, <1>7, <1>11, <1>12, <2>1, <2>2, ZenonT(60) DEF DecodeFull
<1> QED
  BY <1>1, <1>5, <1>10, <1>13, Zenon

-----------------------------------------------------------------------------
\* MHV2FC

\* An accepted two-vCPU image is encoded to the same words.
LEMMA SmpDecoded ==
  ASSUME NEW w \in Words, DecodeSmp(w) # Nothing
  PROVE  Same(EncodeSmp(DecodeSmp(w)), w) /\ SmpSound(DecodeSmp(w))
<1> DEFINE n == w[6]
           m == w[7]
           p == From(w, 14, n)
           v == From(w, 14 + n, m)
           s == From(w, 14 + n + m, 6)
           c == [primary |-> DecodePage(p), secondary |-> DecodeVcpu(v), ids |-> <<w[8], w[9]>>,
                 owners |-> <<<<w[8], w[9]>>, <<w[8], w[9]>>>>, mps |-> <<w[10], w[11]>>,
                 master |-> s[1], slave |-> s[2], ioapic |-> [regs |-> s[3], pad |-> s[4]],
                 lapics |-> <<s[5], s[6]>>]
           fields == <<n, m, w[8], w[9], w[10], w[11], 0, 0>>
<1>1. /\ Opens(w, SmpMagic, 1, 13)
      /\ ValidVcpuIds(<<w[8], w[9]>>) /\ ValidMpStates(<<w[10], w[11]>>) /\ w[12] = 0 /\ w[13] = 0
      /\ n # 0 /\ m # 0 /\ Len(w) = 13 + n + m + 6
      /\ DecodePage(p) # Nothing /\ DecodeVcpu(v) # Nothing /\ s[4] = 0
      /\ DecodeSmp(w) = c
  BY Zenon DEF DecodeSmp
<1>2. n \in Nat /\ m \in Nat /\ w[8] \in Nat /\ w[9] \in Nat /\ w[10] \in Nat /\ w[11] \in Nat
  <2>1. Opens(w, SmpMagic, 1, 13) /\ 13 \in Nat
    BY <1>1
  <2>2. \A i \in 1..13 : w[i] \in Nat
    BY <2>1, WordIs, Zenon
  <2> QED
    BY <2>2
<1>3. fields \in WordsOf(8) /\ HasFields(w, 8, fields)
  <2>1. w[12] = 0 /\ w[13] = 0
    BY <1>1, Zenon
  <2> QED
    BY <1>2, <2>1 DEF WordsOf, Words, HasFields
<1>4. c.ids = <<w[8], w[9]>> /\ c.mps = <<w[10], w[11]>>
  OBVIOUS
<1>5. /\ fields = <<n, m, c.ids[1], c.ids[2], c.mps[1], c.mps[2], 0, 0>>
      /\ ValidVcpuIds(c.ids) /\ ValidMpStates(c.mps)
  BY <1>1, <1>4
<1> HIDE DEF n, m, fields
<1>6. Shape(8, 13, 14, n + m + 6, Len(w)) /\ w \in WordsOf(Len(w)) /\ SmpMagic \in Nat /\ 1 \in Nat /\ 6 \in Nat
  <2>1. Len(w) = 13 + n + m + 6
    BY <1>1, Zenon
  <2> QED
    BY <1>2, <2>1 DEF Shape, SmpMagic, WordsOf
<1>7. Same(Sealed(SmpMagic, 1, fields, p \o v \o s), w) /\ p \in WordsOf(n) /\ v \in WordsOf(m) /\ s \in WordsOf(6)
  <2>1. n \in Nat /\ m \in Nat /\ Opens(w, SmpMagic, 1, 13)
    BY <1>1, <1>2, Zenon
  <2>2. ThreeSealed(w, SmpMagic, 1, fields, 14, n, m, 6)
    BY <1>3, <1>6, <2>1, SealedAreThree, Zenon
  <2> QED
    BY <2>2, Zenon DEF ThreeSealed
<1> HIDE DEF p, v, s
<1>8. p \in Words /\ Len(p) = n /\ p # <<>> /\ v \in Words /\ Len(v) = m /\ v # <<>>
  <2>1. p \in Words /\ Len(p) = n /\ v \in Words /\ Len(v) = m /\ n # 0 /\ m # 0
    BY <1>1, <1>7, Zenon DEF WordsOf
  <2> QED
    BY <1>2, <2>1
<1>9. Same(EncodePage(DecodePage(p)), p) /\ PageSound(DecodePage(p))
  BY <1>1, <1>8, PageDecoded, Zenon
<1>10. Same(EncodeVcpu(DecodeVcpu(v)), v) /\ ValidMsrs(DecodeVcpu(v).msrs)
  BY <1>1, <1>8, VcpuDecoded, Zenon
<1>11. /\ c.primary = DecodePage(p) /\ c.secondary = DecodeVcpu(v) /\ c.ioapic.pad = 0
       /\ <<c.master, c.slave, c.ioapic.regs, c.ioapic.pad, c.lapics[1], c.lapics[2]>> = s
  <2>1. s = <<s[1], s[2], s[3], s[4], s[5], s[6]>>
    BY <1>7 DEF WordsOf, Words
  <2>2. s[4] = 0
    BY <1>1, Zenon
  <2> QED
    BY <2>1, <2>2
<1> HIDE DEF c
<1>12. ValidSmp(c)
  BY <1>5, <1>11, Zenon DEF ValidSmp
<1>13. EncodeSmp(c) = Sealed(SmpMagic, 1, fields, p \o v \o s)
  BY <1>5, <1>8, <1>9, <1>10, <1>11, <1>12, Zenon DEF EncodeSmp, Same
<1> QED
  BY <1>1, <1>7, <1>9, <1>10, <1>11, <1>12, <1>13, Zenon DEF Same, SmpSound, VcpuSound

\* A two-vCPU checkpoint that from_checkpoint let through is stored and read back.
LEMMA SmpStored ==
  ASSUME NEW c \in Smps, SmpSound(c), c.owners = <<c.ids, c.ids>>
  PROVE  /\ Image(EncodeSmp(c))
         /\ DecodeSmp(EncodeSmp(c)) = c /\ c # Nothing
<1> DEFINE p == EncodePage(c.primary)
           v == EncodeVcpu(c.secondary)
           n == Len(p)
           m == Len(v)
           s == <<c.master, c.slave, c.ioapic.regs, c.ioapic.pad, c.lapics[1], c.lapics[2]>>
           l == 13 + n + m + 6
           fields == <<n, m, c.ids[1], c.ids[2], c.mps[1], c.mps[2], 0, 0>>
           w == Sealed(SmpMagic, 1, fields, p \o v \o s)
<1>1. /\ c = [primary |-> c.primary, secondary |-> c.secondary, ids |-> c.ids, owners |-> c.owners, mps |-> c.mps,
              master |-> c.master, slave |-> c.slave, ioapic |-> c.ioapic, lapics |-> c.lapics]
      /\ c.ioapic = [regs |-> c.ioapic.regs, pad |-> c.ioapic.pad]
      /\ c # Nothing /\ c.primary \in PageSets /\ c.secondary \in Vcpus
  BY SMTT(30) DEF Smps, Ioapics, Nothing
<1>2. /\ c.ids \in TwoNats /\ c.mps \in TwoNats /\ c.lapics \in TwoNats
      /\ c.master \in Nat /\ c.slave \in Nat /\ c.ioapic.regs \in Nat /\ c.ioapic.pad \in Nat
  BY DEF Smps, Ioapics
<1>3. /\ c.ids = <<c.ids[1], c.ids[2]>> /\ c.mps = <<c.mps[1], c.mps[2]>> /\ c.lapics = <<c.lapics[1], c.lapics[2]>>
      /\ {c.ids[1], c.ids[2], c.mps[1], c.mps[2], c.lapics[1], c.lapics[2]} \subseteq Nat
  BY <1>2 DEF TwoNats
<1>4. ValidSmp(c) /\ PageSound(c.primary) /\ ValidMsrs(c.secondary.msrs)
  BY Zenon DEF SmpSound, VcpuSound
<1>5. Image(p) /\ DecodePage(p) = c.primary /\ c.primary # Nothing
  BY <1>1, <1>4, PageStored, Zenon DEF PageSound, VcpuSound
<1>6. Image(v) /\ DecodeVcpu(v) = c.secondary /\ c.secondary # Nothing
  BY <1>1, <1>4, VcpuStored, Zenon
<1>7. p \in WordsOf(n) /\ n \in Nat /\ n # 0 /\ p # <<>>
  BY <1>5 DEF Image, WordsOf
<1>8. v \in WordsOf(m) /\ m \in Nat /\ m # 0 /\ v # <<>>
  BY <1>6 DEF Image, WordsOf
<1>9. EncodeSmp(c) = w
  BY <1>4, <1>7, <1>8, Zenon DEF EncodeSmp
<1> HIDE DEF p, v, n, m
<1>10. /\ fields \in WordsOf(8) /\ fields[1] = n /\ fields[2] = m /\ fields[3] = c.ids[1] /\ fields[4] = c.ids[2]
       /\ fields[5] = c.mps[1] /\ fields[6] = c.mps[2] /\ fields[7] = 0 /\ fields[8] = 0
  BY <1>3, <1>7, <1>8, SMTT(30) DEF WordsOf, Words
<1>11. /\ s \in WordsOf(6) /\ s[1] = c.master /\ s[2] = c.slave /\ s[3] = c.ioapic.regs
       /\ s[4] = c.ioapic.pad /\ s[5] = c.lapics[1] /\ s[6] = c.lapics[2]
  BY <1>2, <1>3 DEF WordsOf, Words
<1> HIDE DEF fields, s
<1>12. Shape(8, 13, 14, n + m + 6, l) /\ SmpMagic \in Nat /\ 1 \in Nat /\ 6 \in Nat
  BY <1>7, <1>8 DEF Shape, SmpMagic
<1> HIDE DEF l
<1>13. w \in WordsOf(l) /\ SealedThreeAs(w, SmpMagic, 1, 8, 13, fields, 14, p, n, v, m, s, 6)
  BY <1>7, <1>8, <1>10, <1>11, <1>12, SealedThree, Zenon
<1> HIDE DEF w
<1>14. Image(w) /\ Len(w) = l
  BY <1>12, <1>13, SealedImage, Zenon
<1>15. /\ w[6] = n /\ w[7] = m /\ w[8] = c.ids[1] /\ w[9] = c.ids[2] /\ w[10] = c.mps[1] /\ w[11] = c.mps[2]
       /\ w[12] = 0 /\ w[13] = 0
  BY <1>10, <1>13 DEF SealedThreeAs, HasFields
<1>16. Opens(w, SmpMagic, 1, 13) /\ From(w, 14, n) = p /\ From(w, 14 + n, m) = v /\ From(w, 14 + n + m, 6) = s
  BY <1>13, Zenon DEF SealedThreeAs
<1>17. DecodeSmp(w) = c
  <2>1. /\ Len(w) = 13 + w[6] + w[7] + 6 /\ w[6] # 0 /\ w[7] # 0
        /\ ValidVcpuIds(<<w[8], w[9]>>) /\ ValidMpStates(<<w[10], w[11]>>)
    BY <1>3, <1>4, <1>7, <1>8, <1>14, <1>15, Zenon DEF l, ValidSmp
  <2>2. /\ DecodePage(From(w, 14, w[6])) = c.primary /\ DecodeVcpu(From(w, 14 + w[6], w[7])) = c.secondary
        /\ From(w, 14 + w[6] + w[7], 6) = s
    BY <1>5, <1>6, <1>15, <1>16, Zenon
  <2>3. c.ioapic.pad = 0
    BY <1>4, Zenon DEF ValidSmp
  <2>4. /\ <<w[8], w[9]>> = c.ids /\ <<w[10], w[11]>> = c.mps /\ <<s[5], s[6]>> = c.lapics
        /\ [regs |-> s[3], pad |-> s[4]] = c.ioapic
    BY <1>1, <1>3, <1>11, <1>15, Zenon
  <2> DEFINE P == DecodePage(From(w, 14, w[6]))
             V == DecodeVcpu(From(w, 14 + w[6], w[7]))
             S == From(w, 14 + w[6] + w[7], 6)
  <2>5. P # Nothing /\ V # Nothing /\ S[4] = 0
    BY <1>5, <1>6, <1>11, <2>2, <2>3, Zenon
  <2>6. DecodeSmp(w) = [primary |-> P, secondary |-> V, ids |-> <<w[8], w[9]>>,
                        owners |-> <<<<w[8], w[9]>>, <<w[8], w[9]>>>>, mps |-> <<w[10], w[11]>>,
                        master |-> S[1], slave |-> S[2], ioapic |-> [regs |-> S[3], pad |-> S[4]],
                        lapics |-> <<S[5], S[6]>>]
    BY <1>15, <1>16, <2>1, <2>5, Zenon DEF DecodeSmp
  <2> HIDE DEF P, V, S
  <2>7. P = c.primary /\ V = c.secondary /\ S = s
    BY <2>2, Zenon DEF P, V, S
  <2> QED
    BY <1>1, <1>11, <2>4, <2>6, <2>7, Zenon
<1> QED
  BY <1>1, <1>9, <1>14, <1>17, Zenon

-----------------------------------------------------------------------------
\* Devices, tokens and registrations

\* A device state that passed its checks is encoded to the words it came from.
LEMMA DeviceDecoded ==
  ASSUME NEW w \in WordsOf(20), DecodeDevice(w) # Nothing
  PROVE  Same(EncodeDevice(DecodeDevice(w)), w) /\ ValidDevice(DecodeDevice(w)) /\ DecodeDevice(w) \in States
<1> DEFINE s == [bar0 |-> w[1], dfsel |-> w[2], gfsel |-> w[3], features |-> w[4], status |-> w[5],
                 enabled |-> w[6], isr |-> w[7], qsel |-> w[9], qsize |-> w[10], avail |-> w[11],
                 used |-> w[12], desc |-> w[15], driver |-> w[16], device |-> w[17], backing |-> w[20]]
<1>1. /\ w[6] \in {0, 1} /\ w[8] = 0 /\ w[13] = SECTOR_SIZE /\ w[14] = CAPACITY /\ w[18] = BACKING
      /\ w[19] = 0 /\ ValidDevice(s) /\ DecodeDevice(w) = s
  BY Zenon DEF DecodeDevice
<1>2. w \in [1..20 -> Nat]
  <2>1. w \in Words /\ Len(w) = 20
    BY Zenon DEF WordsOf
  <2> QED
    BY <2>1, AsFunction, Zenon
<1>3. s \in States
  BY <1>1, <1>2, SMTT(30) DEF States
<1>4. EncodeDevice(s) = <<w[1], w[2], w[3], w[4], w[5], w[6], w[7], 0, w[9], w[10], w[11], w[12], SECTOR_SIZE, CAPACITY,
                          w[15], w[16], w[17], BACKING, 0, w[20]>>
  BY <1>1 DEF EncodeDevice
<1>5. w = <<w[1], w[2], w[3], w[4], w[5], w[6], w[7], w[8], w[9], w[10], w[11], w[12], w[13], w[14],
            w[15], w[16], w[17], w[18], w[19], w[20]>>
  BY <1>2
<1> HIDE DEF s
<1> QED
  BY <1>1, <1>3, <1>4, <1>5, Zenon DEF Same

\* A device state that capture let through is stored and read back.
LEMMA DeviceStored ==
  ASSUME NEW s \in States, ValidDevice(s)
  PROVE  EncodeDevice(s) \in WordsOf(20) /\ EncodeDevice(s) # <<>> /\ DecodeDevice(EncodeDevice(s)) = s /\ s # Nothing
<1> DEFINE w == <<s.bar0, s.dfsel, s.gfsel, s.features, s.status, s.enabled, s.isr, 0, s.qsel, s.qsize, s.avail,
                  s.used, SECTOR_SIZE, CAPACITY, s.desc, s.driver, s.device, BACKING, 0, s.backing>>
<1>1. EncodeDevice(s) = w
  BY Zenon DEF EncodeDevice
<1>2. /\ s = [bar0 |-> s.bar0, dfsel |-> s.dfsel, gfsel |-> s.gfsel, features |-> s.features, status |-> s.status,
              enabled |-> s.enabled, isr |-> s.isr, qsel |-> s.qsel, qsize |-> s.qsize, avail |-> s.avail,
              used |-> s.used, desc |-> s.desc, driver |-> s.driver, device |-> s.device, backing |-> s.backing]
      /\ s.enabled \in {0, 1} /\ s # Nothing
  <2>1. s = [bar0 |-> s.bar0, dfsel |-> s.dfsel, gfsel |-> s.gfsel, features |-> s.features, status |-> s.status,
             enabled |-> s.enabled, isr |-> s.isr, qsel |-> s.qsel, qsize |-> s.qsize, avail |-> s.avail,
             used |-> s.used, desc |-> s.desc, driver |-> s.driver, device |-> s.device, backing |-> s.backing]
    BY SMTT(30) DEF States
  <2>2. s.enabled \in {0, 1}
    BY DEF States
  <2>3. "bar0" \in DOMAIN s
    BY Zenon DEF States
  <2>4. "bar0" \notin DOMAIN Nothing
    BY Zenon DEF Nothing
  <2> QED
    BY <2>1, <2>2, <2>3, <2>4, Zenon
<1>3. w \in WordsOf(20) /\ w # <<>>
  BY DEF States, WordsOf, Words, SECTOR_SIZE, CAPACITY, BACKING
<1>4. /\ w[1] = s.bar0 /\ w[2] = s.dfsel /\ w[3] = s.gfsel /\ w[4] = s.features /\ w[5] = s.status /\ w[6] = s.enabled
      /\ w[7] = s.isr /\ w[8] = 0 /\ w[9] = s.qsel /\ w[10] = s.qsize /\ w[11] = s.avail /\ w[12] = s.used
      /\ w[13] = SECTOR_SIZE /\ w[14] = CAPACITY /\ w[15] = s.desc /\ w[16] = s.driver /\ w[17] = s.device
      /\ w[18] = BACKING /\ w[19] = 0 /\ w[20] = s.backing
  OBVIOUS
<1> HIDE DEF w
<1>5. DecodeDevice(w) = s
  BY <1>2, <1>4, Zenon DEF DecodeDevice
<1> QED
  BY <1>1, <1>2, <1>3, <1>5, Zenon

\* A token that passed its checks is encoded to the words it came from, and
\* a token is encoded to words that decode to it.
LEMMA TokenDecoded ==
  ASSUME NEW w \in WordsOf(5), w[5] = 0
  PROVE  Same(EncodeToken(TokenIn(w)), w)
<1>1. w = <<w[1], w[2], w[3], w[4], w[5]>>
  BY DEF WordsOf, Words
<1>2. EncodeToken(TokenIn(w)) = <<w[1], w[2], w[3], w[4], 0>>
  BY DEF EncodeToken, TokenIn
<1> QED
  BY <1>1, <1>2, Zenon DEF Same

\* A token is encoded to words that decode to it.
LEMMA TokenStored ==
  ASSUME NEW t \in Tokens
  PROVE  EncodeToken(t) \in WordsOf(5) /\ EncodeToken(t)[5] = 0 /\ TokenIn(EncodeToken(t)) = t /\ t # Nothing
<1> DEFINE w == EncodeToken(t)
<1>1. w = <<w[1], w[2], w[3], w[4], 0>> /\ w \in WordsOf(5)
  BY DEF Tokens, EncodeToken, WordsOf, Words
<1>2. w[5] = 0
  BY DEF EncodeToken
<1>3. TokenIn(w) = t
  BY DEF Tokens, EncodeToken, TokenIn
<1>4. t # Nothing
  BY DEF Tokens, Nothing
<1> QED
  BY <1>1, <1>2, <1>3, <1>4, Zenon

\* An accepted registration is encoded to the same words.
LEMMA SpecDecoded ==
  ASSUME NEW w \in Words, DecodeSpec(w) # Nothing
  PROVE  Same(EncodeSpec(DecodeSpec(w)), w) /\ DecodeSpec(w) \in Specs
<1> DEFINE r == [addr |-> w[5], len |-> w[6], gsi |-> w[7], match |-> w[8]]
           head == From(w, 1, 4)
           tail == From(w, 9, 2)
<1>1. /\ Len(w) = SpecLen /\ head = <<SpecMagic, 1, SpecLen, SpecLen>> /\ tail = <<0, 0>>
      /\ ValidSpec(r) /\ DecodeSpec(w) = r
  BY Zenon DEF DecodeSpec
<1>2. Len(w) = 10
  BY <1>1 DEF SpecLen
<1>3. w \in [1..10 -> Nat]
  BY <1>2, AsFunction, Zenon
<1>4. 1 \in Nat \ {0} /\ 4 \in Nat /\ 1 + 4 <= Len(w) + 1 /\ 9 \in Nat \ {0} /\ 2 \in Nat /\ 9 + 2 <= Len(w) + 1
  BY <1>2
<1>5. Piece(head, w, 1, 4)
  BY <1>4, FromPiece, Zenon
<1>6. Piece(tail, w, 9, 2)
  BY <1>4, FromPiece, Zenon
<1> HIDE DEF head, tail
<1>7. w[1] = SpecMagic /\ w[2] = 1 /\ w[3] = SpecLen /\ w[4] = SpecLen
  BY <1>1, <1>5 DEF Piece
<1>8. w[9] = 0 /\ w[10] = 0
  BY <1>1, <1>6 DEF Piece
<1>9. w = <<w[1], w[2], w[3], w[4], w[5], w[6], w[7], w[8], w[9], w[10]>>
  BY <1>3
<1>10. EncodeSpec(r) = <<SpecMagic, 1, SpecLen, SpecLen, w[5], w[6], w[7], w[8], 0, 0>>
  BY DEF EncodeSpec
<1>11. r \in Specs
  <2>1. w[5] \in Nat /\ w[6] \in Nat /\ w[7] \in Nat /\ w[8] \in Nat
    BY <1>3
  <2>2. r \in [addr : Nat, len : Nat, gsi : Nat, match : Nat]
    BY <2>1
  <2> HIDE DEF r
  <2> QED
    BY <1>1, <2>2, Zenon DEF Specs
<1> QED
  BY <1>1, <1>7, <1>8, <1>9, <1>10, <1>11, Zenon DEF Same

\* A registration is stored and read back.
LEMMA SpecStored ==
  ASSUME NEW r \in Specs
  PROVE  EncodeSpec(r) \in WordsOf(10) /\ DecodeSpec(EncodeSpec(r)) = r /\ r # Nothing
<1> DEFINE w == EncodeSpec(r)
           head == From(w, 1, 4)
           tail == From(w, 9, 2)
<1>1. /\ r = [addr |-> r.addr, len |-> r.len, gsi |-> r.gsi, match |-> r.match] /\ r # Nothing
      /\ r.addr \in Nat /\ r.len \in Nat /\ r.gsi \in Nat /\ r.match \in Nat /\ ValidSpec(r)
  BY DEF Specs, Nothing
<1>2. /\ w \in WordsOf(10) /\ w \in Words /\ Len(w) = 10
      /\ w[1] = SpecMagic /\ w[2] = 1 /\ w[3] = SpecLen /\ w[4] = SpecLen
      /\ w[5] = r.addr /\ w[6] = r.len /\ w[7] = r.gsi /\ w[8] = r.match /\ w[9] = 0 /\ w[10] = 0
  BY <1>1 DEF EncodeSpec, WordsOf, Words, SpecMagic, SpecLen
<1> HIDE DEF w
<1>3. 1 \in Nat \ {0} /\ 4 \in Nat /\ 1 + 4 <= Len(w) + 1 /\ 9 \in Nat \ {0} /\ 2 \in Nat /\ 9 + 2 <= Len(w) + 1
  BY <1>2
<1>4. Piece(head, w, 1, 4)
  BY <1>2, <1>3, FromPiece, Zenon
<1>5. Piece(tail, w, 9, 2)
  BY <1>2, <1>3, FromPiece, Zenon
<1> HIDE DEF head, tail
<1>6. head = <<SpecMagic, 1, SpecLen, SpecLen>>
  BY <1>2, <1>4 DEF Piece
<1>7. tail = <<0, 0>>
  BY <1>2, <1>5 DEF Piece
<1>8. Len(w) = SpecLen
  BY <1>2 DEF SpecLen
<1>9. DecodeSpec(w) = r
  BY <1>1, <1>2, <1>6, <1>7, <1>8, Zenon DEF DecodeSpec, head, tail
<1> QED
  BY <1>1, <1>2, <1>9, Zenon DEF w

\* The places of a pair of registrations.
LEMMA PairPlaces ==
  /\ PairHeader \in WordsOf(9) /\ PairLen = 29 /\ SpecLen = 10 /\ 10 + SpecLen = 20
  /\ 9 + 1 = 10 /\ 9 + 10 + 1 = 20 /\ 9 + 10 + 10 = 29
  /\ 1 \in Nat \ {0} /\ 10 \in Nat \ {0} /\ 20 \in Nat \ {0} /\ 9 \in Nat /\ 10 \in Nat
BY DEF PairHeader, PairLen, SpecLen, PairMagic, WordsOf, Words

\* An accepted pair of registrations is encoded to the same words.
LEMMA PairDecoded ==
  ASSUME NEW w \in Words, DecodePair(w) # NoPair
  PROVE  Same(EncodePair(DecodePair(w)), w) /\ DecodePair(w) \in Pairs
<1> DEFINE x == From(w, 10, SpecLen)
           y == From(w, 10 + SpecLen, SpecLen)
           p == <<DecodeSpec(x), DecodeSpec(y)>>
<1>1. /\ Len(w) = PairLen /\ From(w, 1, 9) = PairHeader
      /\ p[1] # Nothing /\ p[2] # Nothing /\ ValidPair(p) /\ DecodePair(w) = p
  BY Zenon DEF DecodePair
<1>2. Len(w) = 29 /\ 10 + 10 <= 29 + 1 /\ 20 + 10 <= 29 + 1
  BY <1>1, PairPlaces
<1>3. x \in Words
  <2>1. Piece(From(w, 10, 10), w, 10, 10)
    BY <1>2, PairPlaces, FromPiece, Zenon
  <2> QED
    BY <2>1, PairPlaces, Zenon DEF Piece
<1>4. y \in Words
  <2>1. Piece(From(w, 20, 10), w, 20, 10)
    BY <1>2, PairPlaces, FromPiece, Zenon
  <2> QED
    BY <2>1, PairPlaces, Zenon DEF Piece
<1>5. w \in WordsOf(9 + 10 + 10)
  BY <1>2, PairPlaces, Zenon DEF WordsOf
<1>6. Same(From(w, 1, 9) \o From(w, 9 + 1, 10) \o From(w, 9 + 10 + 1, 10), w)
  BY <1>5, PairPlaces, SplitThree, Zenon
<1>7. Same(PairHeader \o x \o y, w)
  BY <1>1, <1>6, PairPlaces, Zenon
<1> HIDE DEF x, y
<1>8. p[1] = DecodeSpec(x) /\ p[2] = DecodeSpec(y)
  OBVIOUS
<1>9. Same(EncodeSpec(p[1]), x) /\ p[1] \in Specs
  BY <1>1, <1>3, <1>8, SpecDecoded, Zenon
<1>10. Same(EncodeSpec(p[2]), y) /\ p[2] \in Specs
  BY <1>1, <1>4, <1>8, SpecDecoded, Zenon
<1>11. p \in Pairs
  BY <1>1, <1>8, <1>9, <1>10 DEF Pairs
<1> QED
  BY <1>1, <1>7, <1>9, <1>10, <1>11, Zenon DEF Same, EncodePair

\* A pair of registrations is stored and read back.
LEMMA PairStored ==
  ASSUME NEW p \in Pairs
  PROVE  EncodePair(p) \in WordsOf(PairLen) /\ DecodePair(EncodePair(p)) = p /\ p # NoPair
<1> DEFINE x == EncodeSpec(p[1])
           y == EncodeSpec(p[2])
           w == PairHeader \o x \o y
<1>1. /\ p = <<p[1], p[2]>> /\ p[1] \in Specs /\ p[2] \in Specs /\ ValidPair(p) /\ p # NoPair
  BY DEF Pairs, NoPair
<1>2. x \in WordsOf(10) /\ DecodeSpec(x) = p[1] /\ p[1] # Nothing
  BY <1>1, SpecStored, Zenon
<1>3. y \in WordsOf(10) /\ DecodeSpec(y) = p[2] /\ p[2] # Nothing
  BY <1>1, SpecStored, Zenon
<1>4. EncodePair(p) = w
  BY DEF EncodePair
<1>5. p[1].addr < p[2].addr
  BY <1>1 DEF Specs, ValidSpec, ValidPair
<1> HIDE DEF x, y
<1>6. ThreePieces(w, PairHeader, 9, x, 10, y, 10)
  BY <1>2, <1>3, PairPlaces, ThreePiecesIs, Zenon
<1> HIDE DEF w
<1>7. w \in WordsOf(29) /\ From(w, 1, 9) = PairHeader /\ From(w, 10, 10) = x /\ From(w, 20, 10) = y
  BY <1>6, PairPlaces, Zenon DEF ThreePieces, Same
<1>8. /\ Len(w) = PairLen /\ w \in WordsOf(PairLen)
      /\ From(w, 10, SpecLen) = x /\ From(w, 10 + SpecLen, SpecLen) = y
  BY <1>7, PairPlaces, Zenon DEF WordsOf
<1>9. DecodePair(w) = p
  <2> DEFINE q == <<DecodeSpec(From(w, 10, SpecLen)), DecodeSpec(From(w, 10 + SpecLen, SpecLen))>>
  <2>1. q = p
    BY <1>1, <1>2, <1>3, <1>8, Zenon
  <2>2. DecodePair(w) = IF q[1] = Nothing \/ q[2] = Nothing THEN NoPair
                        ELSE IF q[1].addr < q[2].addr /\ ValidPair(q) THEN q ELSE NoPair
    BY <1>7, <1>8, Zenon DEF DecodePair
  <2> HIDE DEF q
  <2> QED
    BY <1>1, <1>2, <1>3, <1>5, <2>1, <2>2, Zenon
<1> QED
  BY <1>1, <1>4, <1>8, <1>9, Zenon

-----------------------------------------------------------------------------
\* MHVFBLK

\* An accepted one-device image is encoded to the same words.
LEMMA BlkDecoded ==
  ASSUME NEW w \in Words, DecodeBlk(w) # Nothing
  PROVE  Same(EncodeBlk(DecodeBlk(w)), w) /\ BlkSound(DecodeBlk(w)) /\ DecodeBlk(w).dev \in States
<1> DEFINE n == w[6]
           f == From(w, 10, n)
           s == From(w, 10 + n, 20)
           c == [ctl |-> DecodeFull(f), dev |-> DecodeDevice(s)]
           fields == <<n, 20, 0, 0>>
<1>1. StateLen = 20
  BY DEF StateLen
<1>2. /\ Opens(w, BlkMagic, 1, 9) /\ w[8] = 0 /\ w[9] = 0 /\ n # 0 /\ w[7] = 20 /\ Len(w) = 9 + n + 20
      /\ DecodeFull(f) # Nothing /\ DecodeDevice(s) # Nothing
      /\ DecodeBlk(w) = c
  BY <1>1, Zenon DEF DecodeBlk
<1>3. n \in Nat
  <2>1. 9 \in Nat /\ 6 \in 1..9
    OBVIOUS
  <2> QED
    BY <1>2, <2>1, WordIs, Zenon
<1>4. fields \in WordsOf(4) /\ HasFields(w, 4, fields)
  BY <1>2, <1>3 DEF WordsOf, Words, HasFields
<1> HIDE DEF n, fields
<1>5. Shape(4, 9, 10, n + 20, Len(w)) /\ w \in WordsOf(Len(w)) /\ BlkMagic \in Nat /\ 1 \in Nat /\ 20 \in Nat
  <2>1. Len(w) = 9 + n + 20
    BY <1>2, Zenon
  <2> QED
    BY <1>3, <2>1 DEF Shape, BlkMagic, WordsOf
<1>6. Same(Sealed(BlkMagic, 1, fields, f \o s), w) /\ f \in WordsOf(n) /\ s \in WordsOf(20)
  BY <1>2, <1>3, <1>4, <1>5, SealedAreTwo, ZenonT(60)
<1> HIDE DEF f, s
<1>7. f \in Words /\ Len(f) = n /\ f # <<>> /\ s # <<>>
  <2>1. f \in Words /\ Len(f) = n /\ s \in Words /\ Len(s) = 20
    BY <1>6, Zenon DEF WordsOf
  <2>2. 20 # 0
    OBVIOUS
  <2> QED
    BY <1>2, <2>1, <2>2, NotEmpty, Zenon
<1>8. Same(EncodeFull(DecodeFull(f)), f) /\ FullSound(DecodeFull(f))
  BY <1>2, <1>7, FullDecoded, Zenon
<1>9. Same(EncodeDevice(DecodeDevice(s)), s) /\ ValidDevice(DecodeDevice(s)) /\ DecodeDevice(s) \in States
  BY <1>2, <1>6, DeviceDecoded, Zenon
<1>10. c.ctl = DecodeFull(f) /\ c.dev = DecodeDevice(s)
  OBVIOUS
<1> HIDE DEF c
<1>11. EncodeBlk(c) = Sealed(BlkMagic, 1, fields, f \o s)
  BY <1>10, <1>1, <1>7, <1>8, <1>9, Zenon DEF EncodeBlk, Same, fields
<1> QED
  BY <1>2, <1>6, <1>8, <1>9, <1>10, <1>11, Zenon DEF Same, BlkSound

\* A one-device checkpoint that from_checkpoint let through is stored and
\* read back.
LEMMA BlkStored ==
  ASSUME NEW c \in BlkStates, BlkSound(c)
  PROVE  /\ Image(EncodeBlk(c))
         /\ DecodeBlk(EncodeBlk(c)) = c /\ c # Nothing
<1> DEFINE f == EncodeFull(c.ctl)
           s == EncodeDevice(c.dev)
           n == Len(f)
           l == 9 + n + 20
           fields == <<n, 20, 0, 0>>
           w == Sealed(BlkMagic, 1, fields, f \o s)
<1>1. StateLen = 20
  BY DEF StateLen
<1>2. c = [ctl |-> c.ctl, dev |-> c.dev] /\ c # Nothing /\ c.ctl \in Fulls /\ c.dev \in States
  BY DEF Nothing, BlkStates
<1>3. Image(f) /\ DecodeFull(f) = c.ctl /\ c.ctl # Nothing
  BY <1>2, FullStored, Zenon DEF BlkSound
<1>4. s \in WordsOf(20) /\ s # <<>> /\ DecodeDevice(s) = c.dev /\ c.dev # Nothing
  BY <1>2, DeviceStored, Zenon DEF BlkSound
<1>5. f \in WordsOf(n) /\ n \in Nat /\ n # 0 /\ f # <<>>
  BY <1>3 DEF Image, WordsOf
<1>6. EncodeBlk(c) = w
  BY <1>1, <1>4, <1>5, Zenon DEF EncodeBlk
<1> HIDE DEF f, n, s
<1>7. fields \in WordsOf(4) /\ fields[1] = n /\ fields[2] = 20 /\ fields[3] = 0 /\ fields[4] = 0
  BY <1>5 DEF WordsOf, Words
<1> HIDE DEF fields
<1>8. Shape(4, 9, 10, n + 20, l) /\ BlkMagic \in Nat /\ 1 \in Nat /\ 20 \in Nat
  BY <1>5 DEF Shape, BlkMagic
<1> HIDE DEF l
<1>9. w \in WordsOf(l) /\ SealedTwoAs(w, BlkMagic, 1, 4, 9, fields, 10, f, n, s, 20)
  BY <1>4, <1>5, <1>7, <1>8, SealedTwo, Zenon
<1> HIDE DEF w
<1>10. Image(w) /\ Len(w) = l
  BY <1>8, <1>9, SealedImage, Zenon
<1>11. w[6] = n /\ w[7] = 20 /\ w[8] = 0 /\ w[9] = 0
  BY <1>7, <1>9 DEF SealedTwoAs, HasFields
<1>12. Opens(w, BlkMagic, 1, 9) /\ From(w, 10, n) = f /\ From(w, 10 + n, 20) = s
  BY <1>9, Zenon DEF SealedTwoAs
<1>13. DecodeBlk(w) = c
  <2>1. Len(w) = 9 + w[6] + 20 /\ w[6] # 0
    BY <1>5, <1>10, <1>11, Zenon DEF l
  <2>2. DecodeFull(From(w, 10, w[6])) = c.ctl /\ DecodeDevice(From(w, 10 + w[6], 20)) = c.dev
    BY <1>3, <1>4, <1>11, <1>12, Zenon
  <2> QED
    BY <1>1, <1>2, <1>3, <1>4, <1>11, <1>12, <2>1, <2>2, Zenon DEF DecodeBlk
<1> QED
  BY <1>2, <1>6, <1>10, <1>13, Zenon

-----------------------------------------------------------------------------
\* MHV2BLK and MHV2V2B

\* The layout both share, for any controller image g.
LEMMA TwoDecoded ==
  ASSUME NEW magic \in Nat, NEW w \in Words, OpensTwo(w, magic),
         DevicesIn(w)[1] # Nothing, DevicesIn(w)[2] # Nothing, ValidBars(Bars(DevicesIn(w)))
  PROVE  /\ From(w, 11, w[6]) \in Words /\ From(w, 11, w[6]) # <<>>
         /\ Same(SealTwo(magic, From(w, 11, w[6]), DevicesIn(w)), w)
         /\ \A i \in 1..2 : ValidDevice(DevicesIn(w)[i]) /\ DevicesIn(w)[i] \in States
<1> DEFINE n == w[6]
           g == From(w, 11, n)
           s == From(w, 11 + n, 20)
           t == From(w, 11 + n + 20, 20)
           d == DevicesIn(w)
           fields == <<n, 20, 2, 0, 0>>
<1>1. StateLen = 20
  BY DEF StateLen
<1>2. /\ Opens(w, magic, 1, 10) /\ w[7] = 20 /\ w[8] = 2 /\ w[9] = 0 /\ w[10] = 0 /\ n # 0
      /\ Len(w) = 10 + n + 2 * 20
  BY <1>1, Zenon DEF OpensTwo
<1>3. n \in Nat
  <2>1. 10 \in Nat /\ 6 \in 1..10
    OBVIOUS
  <2> QED
    BY <1>2, <2>1, WordIs, Zenon
<1>4. fields \in WordsOf(5) /\ HasFields(w, 5, fields)
  BY <1>2, <1>3 DEF WordsOf, Words, HasFields
<1>5. d[1] = DecodeDevice(s) /\ d[2] = DecodeDevice(t)
  <2>1. 11 + n + (1 - 1) * 20 = 11 + n /\ 11 + n + (2 - 1) * 20 = 11 + n + 20 /\ 1 \in 1..2 /\ 2 \in 1..2
    BY <1>3
  <2>2. /\ d[1] = DecodeDevice(From(w, 11 + n + (1 - 1) * 20, 20))
        /\ d[2] = DecodeDevice(From(w, 11 + n + (2 - 1) * 20, 20))
    BY <1>1 DEF DevicesIn
  <2> QED
    BY <2>1, <2>2, Zenon
<1> HIDE DEF n, fields, d
<1>6. /\ Shape(5, 10, 11, n + 20 + 20, Len(w)) /\ w \in WordsOf(Len(w)) /\ 1 \in Nat /\ 20 \in Nat
  <2>1. Len(w) = 10 + n + 2 * 20
    BY <1>2, Zenon
  <2> QED
    BY <1>3, <2>1 DEF Shape, WordsOf
<1>7. Same(Sealed(magic, 1, fields, g \o s \o t), w) /\ g \in WordsOf(n) /\ s \in WordsOf(20) /\ t \in WordsOf(20)
  <2>1. Opens(w, magic, 1, 10)
    BY <1>2, Zenon
  <2>2. ThreeSealed(w, magic, 1, fields, 11, n, 20, 20)
    BY <1>3, <1>4, <1>6, <2>1, SealedAreThree, Zenon
  <2> QED
    BY <2>2, Zenon DEF ThreeSealed
<1> HIDE DEF g, s, t
<1>8. g \in Words /\ Len(g) = n /\ g # <<>> /\ s # <<>> /\ t # <<>>
  <2>1. g \in Words /\ Len(g) = n /\ s \in Words /\ Len(s) = 20 /\ t \in Words /\ Len(t) = 20 /\ n # 0
    BY <1>2, <1>7, Zenon DEF WordsOf
  <2>2. 20 # 0
    OBVIOUS
  <2> QED
    BY <2>1, <2>2, NotEmpty, Zenon
<1>9. Same(EncodeDevice(d[1]), s) /\ ValidDevice(d[1]) /\ d[1] \in States
  BY <1>5, <1>7, DeviceDecoded, Zenon DEF d
<1>10. Same(EncodeDevice(d[2]), t) /\ ValidDevice(d[2]) /\ d[2] \in States
  BY <1>5, <1>7, DeviceDecoded, Zenon DEF d
<1>11. ~(<<>> \in {g, s, t})
  BY <1>8, Zenon
<1>12. SealTwo(magic, g, d) = Sealed(magic, 1, fields, g \o s \o t)
  BY <1>1, <1>8, <1>9, <1>10, <1>11, Zenon DEF SealTwo, Same, fields, d
<1>13. \A i \in 1..2 : ValidDevice(d[i]) /\ d[i] \in States
  BY <1>9, <1>10
<1> QED
  BY <1>7, <1>8, <1>12, <1>13, Zenon DEF Same, g, n, d

\* SealTwo's words open again and give back the controller image and both devices.
LEMMA TwoStored ==
  ASSUME NEW magic \in Nat, NEW g, Image(g), NEW d \in [1..2 -> States],
         ValidDevice(d[1]), ValidDevice(d[2]), ValidBars(Bars(d))
  PROVE  /\ Image(SealTwo(magic, g, d)) /\ OpensTwo(SealTwo(magic, g, d), magic)
         /\ Same(From(SealTwo(magic, g, d), 11, SealTwo(magic, g, d)[6]), g)
         /\ Same(DevicesIn(SealTwo(magic, g, d)), d)
<1> DEFINE s == EncodeDevice(d[1])
           t == EncodeDevice(d[2])
           n == Len(g)
           l == 10 + n + 2 * 20
           fields == <<n, 20, 2, 0, 0>>
           w == Sealed(magic, 1, fields, g \o s \o t)
<1>1. StateLen = 20
  BY DEF StateLen
<1>2. d[1] \in States /\ d[2] \in States
  OBVIOUS
<1>3. s \in WordsOf(20) /\ s # <<>> /\ DecodeDevice(s) = d[1]
  BY <1>2, DeviceStored, Zenon
<1>4. t \in WordsOf(20) /\ t # <<>> /\ DecodeDevice(t) = d[2]
  BY <1>2, DeviceStored, Zenon
<1>5. g \in WordsOf(n) /\ n \in Nat /\ n # 0 /\ g # <<>>
  BY DEF Image, WordsOf
<1>6. SealTwo(magic, g, d) = w
  <2>1. ~(<<>> \in {g, s, t})
    BY <1>3, <1>4, <1>5, Zenon
  <2> QED
    BY <1>1, <2>1, Zenon DEF SealTwo
<1> HIDE DEF n, s, t
<1>7. /\ fields \in WordsOf(5)
      /\ fields[1] = n /\ fields[2] = 20 /\ fields[3] = 2 /\ fields[4] = 0 /\ fields[5] = 0
  BY <1>5 DEF WordsOf, Words
<1> HIDE DEF fields
<1>8. Shape(5, 10, 11, n + 20 + 20, l) /\ 1 \in Nat /\ 20 \in Nat
  BY <1>5 DEF Shape
<1> HIDE DEF l
<1>9. w \in WordsOf(l) /\ SealedThreeAs(w, magic, 1, 5, 10, fields, 11, g, n, s, 20, t, 20)
  BY <1>3, <1>4, <1>5, <1>7, <1>8, SealedThree, Zenon
<1> HIDE DEF w
<1>10. Image(w) /\ Len(w) = l
  BY <1>8, <1>9, SealedImage, Zenon
<1>11. w[6] = n /\ w[7] = 20 /\ w[8] = 2 /\ w[9] = 0 /\ w[10] = 0
  BY <1>7, <1>9 DEF SealedThreeAs, HasFields
<1>12. Opens(w, magic, 1, 10) /\ From(w, 11, n) = g /\ From(w, 11 + n, 20) = s /\ From(w, 11 + n + 20, 20) = t
  BY <1>9, Zenon DEF SealedThreeAs
<1>13. OpensTwo(w, magic)
  BY <1>1, <1>5, <1>10, <1>11, <1>12, Zenon DEF OpensTwo, l
<1>14. DevicesIn(w) = d
  <2>1. 11 + n + (1 - 1) * 20 = 11 + n /\ 11 + n + (2 - 1) * 20 = 11 + n + 20
    BY <1>5
  <2>2. DecodeDevice(From(w, 11 + w[6] + (1 - 1) * 20, 20)) = d[1]
    BY <1>3, <1>11, <1>12, <2>1, Zenon
  <2>3. DecodeDevice(From(w, 11 + w[6] + (2 - 1) * 20, 20)) = d[2]
    BY <1>4, <1>11, <1>12, <2>1, Zenon
  <2> DEFINE e(i) == DecodeDevice(From(w, 11 + w[6] + (i - 1) * 20, 20))
  <2>4. e(1) = d[1] /\ e(2) = d[2]
    BY <2>2, <2>3, Zenon
  <2>5. DevicesIn(w) = [i \in 1..2 |-> e(i)]
    BY <1>1, Zenon DEF DevicesIn
  <2> HIDE DEF e
  <2> QED
    BY <2>4, <2>5
<1> QED
  BY <1>6, <1>10, <1>11, <1>12, <1>13, <1>14, Zenon DEF Same

\* An accepted two-device image of either magic is a controller image and
\* two sound devices, encoded to the same words.
LEMMA OpenedTwoIs ==
  ASSUME NEW magic \in Nat, NEW w \in Words, OpensTwo(w, magic), NEW ctl,
         OpenedTwo(ctl, DevicesIn(w)) # Nothing
  PROVE  /\ OpenedTwo(ctl, DevicesIn(w)) = [ctl |-> ctl, devs |-> DevicesIn(w)] /\ ctl # Nothing
         /\ DevicesSound(DevicesIn(w))
         /\ From(w, 11, w[6]) \in Words /\ Same(SealTwo(magic, From(w, 11, w[6]), DevicesIn(w)), w)
<1>1. 1 \in 1..2 /\ 2 \in 1..2
  OBVIOUS
<1>2. /\ OpenedTwo(ctl, DevicesIn(w)) = [ctl |-> ctl, devs |-> DevicesIn(w)] /\ ctl # Nothing
      /\ ValidBars(Bars(DevicesIn(w))) /\ \A i \in 1..2 : DevicesIn(w)[i] # Nothing
  BY Zenon DEF OpenedTwo, Captured
<1>3. /\ From(w, 11, w[6]) \in Words /\ Same(SealTwo(magic, From(w, 11, w[6]), DevicesIn(w)), w)
      /\ \A i \in 1..2 : ValidDevice(DevicesIn(w)[i]) /\ DevicesIn(w)[i] \in States
  BY <1>1, <1>2, TwoDecoded, Zenon
<1>4. DevicesIn(w) \in [1..2 -> States]
  BY <1>3, Zenon DEF DevicesIn
<1> QED
  BY <1>2, <1>3, <1>4, Zenon DEF DevicesSound

\* An accepted two-device image is encoded to the same words.
LEMMA TwoBlkDecoded ==
  ASSUME NEW w \in Words, DecodeTwoBlk(w) # Nothing
  PROVE  /\ Same(EncodeTwoBlk(DecodeTwoBlk(w)), w)
         /\ FullSound(DecodeTwoBlk(w).ctl) /\ DevicesSound(DecodeTwoBlk(w).devs)
<1> DEFINE g == From(w, 11, w[6])
           c == [ctl |-> DecodeFull(g), devs |-> DevicesIn(w)]
<1>1. TwoBlkMagic \in Nat
  BY DEF TwoBlkMagic
<1>2. OpensTwo(w, TwoBlkMagic) /\ DecodeTwoBlk(w) = OpenedTwo(DecodeFull(g), DevicesIn(w))
  BY Zenon DEF DecodeTwoBlk
<1>3. /\ DecodeTwoBlk(w) = c /\ DecodeFull(g) # Nothing /\ DevicesSound(DevicesIn(w))
      /\ g \in Words /\ Same(SealTwo(TwoBlkMagic, g, DevicesIn(w)), w)
  BY <1>1, <1>2, OpenedTwoIs, Zenon
<1>4. Same(EncodeFull(DecodeFull(g)), g) /\ FullSound(DecodeFull(g))
  BY <1>3, FullDecoded, Zenon
<1>5. c.ctl = DecodeFull(g) /\ c.devs = DevicesIn(w)
  OBVIOUS
<1> HIDE DEF c, g
<1> QED
  BY <1>3, <1>4, <1>5, Zenon DEF EncodeTwoBlk, Same

\* A two-device checkpoint that from_checkpoint let through is stored and
\* read back.
LEMMA TwoBlkStored ==
  ASSUME NEW c \in TwoBlkStates, FullSound(c.ctl), DevicesSound(c.devs)
  PROVE  Image(EncodeTwoBlk(c)) /\ DecodeTwoBlk(EncodeTwoBlk(c)) = c /\ c # Nothing
<1> DEFINE g == EncodeFull(c.ctl)
           w == SealTwo(TwoBlkMagic, g, c.devs)
<1>1. c = [ctl |-> c.ctl, devs |-> c.devs] /\ c # Nothing /\ c.ctl \in Fulls /\ TwoBlkMagic \in Nat
  BY DEF Nothing, TwoBlkMagic, TwoBlkStates
<1>2. Image(g) /\ DecodeFull(g) = c.ctl /\ c.ctl # Nothing
  BY <1>1, FullStored, Zenon
<1>3. c.devs \in [1..2 -> States] /\ ValidDevice(c.devs[1]) /\ ValidDevice(c.devs[2]) /\ ValidBars(Bars(c.devs))
  <2>1. 1 \in 1..2 /\ 2 \in 1..2
    OBVIOUS
  <2> QED
    BY <2>1, Zenon DEF DevicesSound
<1>4. \A i \in 1..2 : c.devs[i] # Nothing
  BY <1>3 DEF States, Nothing
<1> HIDE DEF g
<1>5. Image(w) /\ OpensTwo(w, TwoBlkMagic) /\ Same(From(w, 11, w[6]), g) /\ Same(DevicesIn(w), c.devs)
  BY <1>1, <1>2, <1>3, TwoStored, Zenon
<1>6. EncodeTwoBlk(c) = w
  BY Zenon DEF EncodeTwoBlk, g
<1> HIDE DEF w
<1>7. DecodeTwoBlk(w) = OpenedTwo(c.ctl, c.devs)
  BY <1>2, <1>5, Zenon DEF DecodeTwoBlk, Same
<1>8. OpenedTwo(c.ctl, c.devs) = [ctl |-> c.ctl, devs |-> c.devs]
  <2>1. Captured(c.ctl, c.devs) = [ctl |-> c.ctl, devs |-> c.devs]
    BY <1>2, <1>4, Zenon DEF Captured
  <2> QED
    BY <1>1, <1>3, <2>1, Zenon DEF OpenedTwo
<1> QED
  BY <1>1, <1>5, <1>6, <1>7, <1>8, Zenon

\* An accepted image of two vCPUs and two devices is encoded to the same words.
LEMMA SmpBlkDecoded ==
  ASSUME NEW w \in Words, DecodeSmpBlk(w) # Nothing
  PROVE  /\ Same(EncodeSmpBlk(DecodeSmpBlk(w)), w)
         /\ SmpSound(DecodeSmpBlk(w).ctl) /\ DevicesSound(DecodeSmpBlk(w).devs)
<1> DEFINE g == From(w, 11, w[6])
           c == [ctl |-> DecodeSmp(g), devs |-> DevicesIn(w)]
<1>1. SmpBlkMagic \in Nat
  BY DEF SmpBlkMagic
<1>2. OpensTwo(w, SmpBlkMagic) /\ DecodeSmpBlk(w) = OpenedTwo(DecodeSmp(g), DevicesIn(w))
  BY Zenon DEF DecodeSmpBlk
<1>3. /\ DecodeSmpBlk(w) = c /\ DecodeSmp(g) # Nothing /\ DevicesSound(DevicesIn(w))
      /\ g \in Words /\ Same(SealTwo(SmpBlkMagic, g, DevicesIn(w)), w)
  BY <1>1, <1>2, OpenedTwoIs, Zenon
<1>4. Same(EncodeSmp(DecodeSmp(g)), g) /\ SmpSound(DecodeSmp(g))
  BY <1>3, SmpDecoded, Zenon
<1>5. c.ctl = DecodeSmp(g) /\ c.devs = DevicesIn(w)
  OBVIOUS
<1> HIDE DEF c, g
<1> QED
  BY <1>3, <1>4, <1>5, Zenon DEF EncodeSmpBlk, Same

\* A checkpoint of two vCPUs and two devices that from_checkpoint let
\* through is stored and read back.
LEMMA SmpBlkStored ==
  ASSUME NEW c \in SmpBlkStates, SmpBlkSound(c)
  PROVE  Image(EncodeSmpBlk(c)) /\ DecodeSmpBlk(EncodeSmpBlk(c)) = c /\ c # Nothing
<1> DEFINE g == EncodeSmp(c.ctl)
           w == SealTwo(SmpBlkMagic, g, c.devs)
<1>1. c = [ctl |-> c.ctl, devs |-> c.devs] /\ c # Nothing /\ c.ctl \in OwnSmps /\ SmpBlkMagic \in Nat
  BY DEF Nothing, SmpBlkMagic, SmpBlkStates
<1>2. Image(g) /\ DecodeSmp(g) = c.ctl /\ c.ctl # Nothing
  BY <1>1, SmpStored, Zenon DEF SmpBlkSound, OwnSmps
<1>3. c.devs \in [1..2 -> States] /\ ValidDevice(c.devs[1]) /\ ValidDevice(c.devs[2]) /\ ValidBars(Bars(c.devs))
  <2>1. 1 \in 1..2 /\ 2 \in 1..2
    OBVIOUS
  <2> QED
    BY <2>1, Zenon DEF DevicesSound, SmpBlkSound
<1>4. \A i \in 1..2 : c.devs[i] # Nothing
  BY <1>3 DEF States, Nothing
<1> HIDE DEF g
<1>5. Image(w) /\ OpensTwo(w, SmpBlkMagic) /\ Same(From(w, 11, w[6]), g) /\ Same(DevicesIn(w), c.devs)
  BY <1>1, <1>2, <1>3, TwoStored, Zenon
<1>6. EncodeSmpBlk(c) = w
  BY Zenon DEF EncodeSmpBlk, g
<1> HIDE DEF w
<1>7. DecodeSmpBlk(w) = OpenedTwo(c.ctl, c.devs)
  BY <1>2, <1>5, Zenon DEF DecodeSmpBlk, Same
<1>8. OpenedTwo(c.ctl, c.devs) = [ctl |-> c.ctl, devs |-> c.devs]
  <2>1. Captured(c.ctl, c.devs) = [ctl |-> c.ctl, devs |-> c.devs]
    BY <1>2, <1>4, Zenon DEF Captured
  <2> QED
    BY <1>1, <1>3, <2>1, Zenon DEF OpenedTwo
<1> QED
  BY <1>1, <1>5, <1>6, <1>7, <1>8, Zenon

-----------------------------------------------------------------------------
\* The transaction formats

\* Where the two parts of a transaction are.
LEMMA TxPlaces ==
  ASSUME NEW magic, NEW w
  PROVE  /\ OpensTx(w, magic, 1, 2) <=>
              /\ Opens(w, magic, 1, 9) /\ w[8] = 0 /\ w[9] = 0 /\ w[6] # 0 /\ w[7] # 0
              /\ Len(w) = 9 + (w[6] + w[7])
         /\ w[6] \in Nat => PartOf(w, 2, 1) = From(w, 10, w[6])
         /\ PartOf(w, 2, 2) = From(w, 10 + w[6], w[7])
<1>1. /\ 7 + 2 = 9 /\ 6 + 2 = 8 /\ 2 + 1 = 3 /\ 8 + 2 = 10 /\ 5 + 1 = 6 /\ 5 + 2 = 7 /\ 10 + 0 = 10
  OBVIOUS
<1>2. WordsBefore(w, 1) = 0 /\ WordsBefore(w, 2) = w[6] /\ WordsBefore(w, 3) = w[6] + w[7]
  BY DEF WordsBefore
<1> QED
  BY <1>1, <1>2, Zenon DEF OpensTx, PartOf

\* An accepted transaction of two parts is its parts, sealed again.
LEMMA TxDecodedParts ==
  ASSUME NEW magic \in Nat, NEW w \in Words, OpensTx(w, magic, 1, 2)
  PROVE  /\ PartOf(w, 2, 1) \in Words /\ PartOf(w, 2, 2) \in Words
         /\ Same(SealTx(magic, PartOf(w, 2, 1), PartOf(w, 2, 2)), w)
<1> DEFINE n == w[6]
           m == w[7]
           x == From(w, 10, n)
           y == From(w, 10 + n, m)
           fields == <<n, m, 0, 0>>
<1>1. /\ Opens(w, magic, 1, 9) /\ w[8] = 0 /\ w[9] = 0 /\ n # 0 /\ m # 0 /\ Len(w) = 9 + (n + m)
  BY TxPlaces, Zenon
<1>2. n \in Nat /\ m \in Nat
  <2>1. 9 \in Nat /\ 6 \in 1..9 /\ 7 \in 1..9
    OBVIOUS
  <2>2. n \in Nat
    BY <1>1, <2>1, WordIs, Zenon
  <2>3. m \in Nat
    BY <1>1, <2>1, WordIs, Zenon
  <2> QED
    BY <2>2, <2>3, Zenon
<1>3. fields \in WordsOf(4) /\ HasFields(w, 4, fields)
  BY <1>1, <1>2 DEF WordsOf, Words, HasFields
<1>4. PartOf(w, 2, 1) = x /\ PartOf(w, 2, 2) = y
  BY <1>2, TxPlaces, Zenon
<1> HIDE DEF n, m, fields
<1>5. Shape(4, 9, 10, n + m, Len(w)) /\ w \in WordsOf(Len(w)) /\ 1 \in Nat
  <2>1. Len(w) = 9 + (n + m)
    BY <1>1, Zenon
  <2> QED
    BY <1>2, <2>1 DEF Shape, WordsOf
<1>6. Same(Sealed(magic, 1, fields, x \o y), w) /\ x \in WordsOf(n) /\ y \in WordsOf(m)
  <2>1. Opens(w, magic, 1, 9)
    BY <1>1, Zenon
  <2> QED
    BY <1>2, <1>3, <1>5, <2>1, SealedAreTwo, Zenon
<1> HIDE DEF x, y
<1>7. x \in Words /\ Len(x) = n /\ y \in Words /\ Len(y) = m /\ x # <<>>
  <2>1. x \in Words /\ Len(x) = n /\ y \in Words /\ Len(y) = m /\ n # 0
    BY <1>1, <1>6, Zenon DEF WordsOf
  <2> QED
    BY <2>1, NotEmpty, Zenon
<1> QED
  BY <1>4, <1>6, <1>7, Zenon DEF SealTx, fields

\* SealTx's words open again and give back both parts.
LEMMA TxStoredParts ==
  ASSUME NEW magic \in Nat, NEW x, Image(x), NEW y, Image(y)
  PROVE  /\ Image(SealTx(magic, x, y)) /\ OpensTx(SealTx(magic, x, y), magic, 1, 2)
         /\ SealTx(magic, x, y)[7] = Len(y)
         /\ Same(PartOf(SealTx(magic, x, y), 2, 1), x) /\ Same(PartOf(SealTx(magic, x, y), 2, 2), y)
<1> DEFINE n == Len(x)
           m == Len(y)
           l == 9 + (n + m)
           fields == <<n, m, 0, 0>>
           w == Sealed(magic, 1, fields, x \o y)
<1>1. x \in WordsOf(n) /\ n \in Nat /\ n # 0 /\ x # <<>> /\ y \in WordsOf(m) /\ m \in Nat /\ m # 0
  BY DEF Image, WordsOf
<1>2. SealTx(magic, x, y) = w
  BY <1>1, Zenon DEF SealTx
<1>3. fields \in WordsOf(4) /\ fields[1] = n /\ fields[2] = m /\ fields[3] = 0 /\ fields[4] = 0
  BY <1>1 DEF WordsOf, Words
<1>4. m = Len(y)
  OBVIOUS
<1> HIDE DEF fields, n, m
<1>5. Shape(4, 9, 10, n + m, l) /\ 1 \in Nat
  BY <1>1 DEF Shape
<1> HIDE DEF l
<1>6. w \in WordsOf(l) /\ SealedTwoAs(w, magic, 1, 4, 9, fields, 10, x, n, y, m)
  BY <1>1, <1>3, <1>5, SealedTwo, Zenon
<1> HIDE DEF w
<1>7. Image(w) /\ Len(w) = l
  BY <1>5, <1>6, SealedImage, Zenon
<1>8. w[6] = n /\ w[7] = m /\ w[8] = 0 /\ w[9] = 0
  BY <1>3, <1>6 DEF SealedTwoAs, HasFields
<1>9. Opens(w, magic, 1, 9) /\ From(w, 10, n) = x /\ From(w, 10 + n, m) = y
  BY <1>6, Zenon DEF SealedTwoAs
<1>10. OpensTx(w, magic, 1, 2)
  BY <1>1, <1>7, <1>8, <1>9, TxPlaces, Zenon DEF l
<1>11. PartOf(w, 2, 1) = x /\ PartOf(w, 2, 2) = y
  BY <1>1, <1>8, <1>9, TxPlaces, Zenon
<1> QED
  BY <1>2, <1>4, <1>7, <1>8, <1>10, <1>11, Zenon DEF Same

\* An accepted MHVTXN image is encoded to the same words.
LEMMA TxDecoded ==
  ASSUME NEW w \in Words, DecodeTx(w) # Nothing
  PROVE  Same(EncodeTx(DecodeTx(w)), w) /\ BlkSound(DecodeTx(w).cp)
<1> DEFINE x == PartOf(w, 2, 1)
           y == PartOf(w, 2, 2)
           c == [cp |-> DecodeBlk(x), regs |-> <<DecodeSpec(y)>>]
<1>1. TxMagic \in Nat
  BY DEF TxMagic
<1>2. OpensTx(w, TxMagic, 1, 2) /\ DecodeBlk(x) # Nothing /\ DecodeSpec(y) # Nothing /\ DecodeTx(w) = c
  BY Zenon DEF DecodeTx
<1>3. x \in Words /\ y \in Words /\ Same(SealTx(TxMagic, x, y), w)
  BY <1>1, <1>2, TxDecodedParts, Zenon
<1>4. c.cp = DecodeBlk(x) /\ c.regs[1] = DecodeSpec(y)
  OBVIOUS
<1> HIDE DEF c, x, y
<1>5. Same(EncodeBlk(DecodeBlk(x)), x) /\ BlkSound(DecodeBlk(x))
  BY <1>2, <1>3, BlkDecoded, Zenon
<1>6. Same(EncodeSpec(DecodeSpec(y)), y)
  BY <1>2, <1>3, SpecDecoded, Zenon
<1> QED
  BY <1>2, <1>3, <1>4, <1>5, <1>6, Zenon DEF EncodeTx, Same

\* A transaction of one device is stored and read back.
LEMMA TxStored ==
  ASSUME NEW b \in BlkStates, BlkSound(b), NEW r \in Specs
  PROVE  LET c == [cp |-> b, regs |-> <<r>>]
         IN  Image(EncodeTx(c)) /\ DecodeTx(EncodeTx(c)) = c
<1> DEFINE c == [cp |-> b, regs |-> <<r>>]
           x == EncodeBlk(b)
           y == EncodeSpec(r)
           w == SealTx(TxMagic, x, y)
<1>1. TxMagic \in Nat
  BY DEF TxMagic
<1>2. c.cp = b /\ c.regs[1] = r
  OBVIOUS
<1>3. Image(x) /\ DecodeBlk(x) = b /\ b # Nothing
  BY BlkStored, Zenon
<1>4. y \in WordsOf(10) /\ DecodeSpec(y) = r /\ r # Nothing
  BY SpecStored, Zenon
<1>5. Image(y)
  <2>1. 10 \in Nat \ {0}
    OBVIOUS
  <2> QED
    BY <1>4, <2>1, WordsImage, Zenon
<1>6. EncodeTx(c) = w
  BY <1>2, Zenon DEF EncodeTx
<1> HIDE DEF x, y
<1>7. Image(w) /\ OpensTx(w, TxMagic, 1, 2) /\ Same(PartOf(w, 2, 1), x) /\ Same(PartOf(w, 2, 2), y)
  BY <1>1, <1>3, <1>5, TxStoredParts, Zenon
<1> HIDE DEF w
<1>8. DecodeTx(w) = c
  BY <1>3, <1>4, <1>7, Zenon DEF DecodeTx, Same
<1> HIDE DEF c
<1> QED
  BY <1>6, <1>7, <1>8, Zenon DEF c

\* An accepted MHV2TXN image is encoded to the same words.
LEMMA TwoTxDecoded ==
  ASSUME NEW w \in Words, DecodeTwoTx(w) # Nothing
  PROVE  /\ Same(EncodeTwoTx(DecodeTwoTx(w)), w)
         /\ FullSound(DecodeTwoTx(w).cp.ctl) /\ DevicesSound(DecodeTwoTx(w).cp.devs)
         /\ DecodeTwoTx(w).regs \in Pairs
<1> DEFINE x == PartOf(w, 2, 1)
           y == PartOf(w, 2, 2)
           c == [cp |-> DecodeTwoBlk(x), regs |-> DecodePair(y)]
<1>1. TwoTxMagic \in Nat
  BY DEF TwoTxMagic
<1>2. OpensTx(w, TwoTxMagic, 1, 2) /\ DecodeTwoBlk(x) # Nothing /\ DecodePair(y) # NoPair /\ DecodeTwoTx(w) = c
  BY Zenon DEF DecodeTwoTx
<1>3. x \in Words /\ y \in Words /\ Same(SealTx(TwoTxMagic, x, y), w)
  BY <1>1, <1>2, TxDecodedParts, Zenon
<1>4. c.cp = DecodeTwoBlk(x) /\ c.regs = DecodePair(y)
  OBVIOUS
<1> HIDE DEF c, x, y
<1>5. /\ Same(EncodeTwoBlk(DecodeTwoBlk(x)), x)
      /\ FullSound(DecodeTwoBlk(x).ctl) /\ DevicesSound(DecodeTwoBlk(x).devs)
  BY <1>2, <1>3, TwoBlkDecoded, Zenon
<1>6. Same(EncodePair(DecodePair(y)), y) /\ DecodePair(y) \in Pairs
  BY <1>2, <1>3, PairDecoded, Zenon
<1> QED
  BY <1>2, <1>3, <1>4, <1>5, <1>6, Zenon DEF EncodeTwoTx, Same

\* The words of a pair of registrations.
LEMMA PairImage ==
  ASSUME NEW p \in Pairs
  PROVE  Image(EncodePair(p)) /\ Len(EncodePair(p)) = PairLen /\ DecodePair(EncodePair(p)) = p /\ p # NoPair
<1>1. EncodePair(p) \in WordsOf(PairLen) /\ DecodePair(EncodePair(p)) = p /\ p # NoPair
  BY PairStored, Zenon
<1>2. PairLen \in Nat \ {0}
  BY DEF PairLen, SpecLen
<1> QED
  BY <1>1, <1>2, WordsImage, Zenon

\* A transaction of two devices is stored and read back.
LEMMA TwoTxStored ==
  ASSUME NEW b \in TwoBlkStates, FullSound(b.ctl), DevicesSound(b.devs),
         NEW p \in Pairs
  PROVE  LET c == [cp |-> b, regs |-> p]
         IN  Image(EncodeTwoTx(c)) /\ DecodeTwoTx(EncodeTwoTx(c)) = c
<1> DEFINE c == [cp |-> b, regs |-> p]
           x == EncodeTwoBlk(b)
           y == EncodePair(p)
           w == SealTx(TwoTxMagic, x, y)
<1>1. TwoTxMagic \in Nat
  BY DEF TwoTxMagic
<1>2. c.cp = b /\ c.regs = p
  OBVIOUS
<1>3. Image(x) /\ DecodeTwoBlk(x) = b /\ b # Nothing
  BY TwoBlkStored, Zenon
<1>4. Image(y) /\ Len(y) = PairLen /\ DecodePair(y) = p /\ p # NoPair
  BY PairImage, Zenon
<1>6. EncodeTwoTx(c) = w
  BY <1>2, Zenon DEF EncodeTwoTx
<1> HIDE DEF x, y
<1>7. /\ Image(w) /\ OpensTx(w, TwoTxMagic, 1, 2) /\ w[7] = Len(y)
      /\ Same(PartOf(w, 2, 1), x) /\ Same(PartOf(w, 2, 2), y)
  BY <1>1, <1>3, <1>4, TxStoredParts, Zenon
<1> HIDE DEF w
<1>8. DecodeTwoTx(w) = c
  BY <1>3, <1>4, <1>7, Zenon DEF DecodeTwoTx, Same
<1> HIDE DEF c
<1> QED
  BY <1>6, <1>7, <1>8, Zenon DEF c

\* An accepted MHV2V2T image of version 1 is encoded to the same words.
LEMMA SmpTxDecoded ==
  ASSUME NEW w \in Words, DecodeSmpTx(w) # Nothing
  PROVE  /\ Same(EncodeSmpTx(DecodeSmpTx(w)), w)
         /\ SmpSound(DecodeSmpTx(w).cp.ctl) /\ DevicesSound(DecodeSmpTx(w).cp.devs)
         /\ ValidTx(DecodeSmpTx(w))
<1> DEFINE x == PartOf(w, 2, 1)
           y == PartOf(w, 2, 2)
           c == [cp |-> DecodeSmpBlk(x), regs |-> DecodePair(y)]
<1>1. SmpTxMagic \in Nat
  BY DEF SmpTxMagic
<1>2. /\ OpensTx(w, SmpTxMagic, 1, 2) /\ DecodeSmpBlk(x) # Nothing /\ DecodePair(y) # NoPair
      /\ DecodeSmpTx(w) = c /\ ValidTx(c)
  BY Zenon DEF DecodeSmpTx
<1>3. x \in Words /\ y \in Words /\ Same(SealTx(SmpTxMagic, x, y), w)
  BY <1>1, <1>2, TxDecodedParts, Zenon
<1>4. c.cp = DecodeSmpBlk(x) /\ c.regs = DecodePair(y)
  OBVIOUS
<1> HIDE DEF c, x, y
<1>5. /\ Same(EncodeSmpBlk(DecodeSmpBlk(x)), x)
      /\ SmpSound(DecodeSmpBlk(x).ctl) /\ DevicesSound(DecodeSmpBlk(x).devs)
  BY <1>2, <1>3, SmpBlkDecoded, Zenon
<1>6. Same(EncodePair(DecodePair(y)), y)
  BY <1>2, <1>3, PairDecoded, Zenon
<1> QED
  BY <1>2, <1>3, <1>4, <1>5, <1>6, Zenon DEF EncodeSmpTx, Same

\* A transaction of two vCPUs and two devices is stored and read back.
LEMMA SmpTxStored ==
  ASSUME NEW b \in SmpBlkStates, SmpBlkSound(b),
         NEW p \in Pairs, Bound(b.devs, p)
  PROVE  LET c == [cp |-> b, regs |-> p]
         IN  Image(EncodeSmpTx(c)) /\ DecodeSmpTx(EncodeSmpTx(c)) = c
<1> DEFINE c == [cp |-> b, regs |-> p]
           x == EncodeSmpBlk(b)
           y == EncodePair(p)
           w == SealTx(SmpTxMagic, x, y)
<1>1. SmpTxMagic \in Nat
  BY DEF SmpTxMagic
<1>2. c.cp = b /\ c.regs = p
  OBVIOUS
<1>3. Image(x) /\ DecodeSmpBlk(x) = b /\ b # Nothing
  BY SmpBlkStored, Zenon
<1>4. Image(y) /\ Len(y) = PairLen /\ DecodePair(y) = p /\ p # NoPair
  BY PairImage, Zenon
<1>5. ValidTx(c)
  <2>1. ValidPair(p)
    BY Zenon DEF Pairs
  <2> HIDE DEF c
  <2> QED
    BY <1>2, <2>1, Zenon DEF ValidTx
<1>6. EncodeSmpTx(c) = w
  BY <1>2, <1>5, Zenon DEF EncodeSmpTx
<1> HIDE DEF x, y
<1>7. /\ Image(w) /\ OpensTx(w, SmpTxMagic, 1, 2) /\ w[7] = Len(y)
      /\ Same(PartOf(w, 2, 1), x) /\ Same(PartOf(w, 2, 2), y)
  BY <1>1, <1>3, <1>4, TxStoredParts, Zenon
<1> HIDE DEF w
<1>8. DecodeSmpTx(w) = c
  BY <1>3, <1>4, <1>5, <1>7, Zenon DEF DecodeSmpTx, Same
<1> HIDE DEF c
<1> QED
  BY <1>6, <1>7, <1>8, Zenon DEF c

\* Where the three parts of a transaction with a token are.
LEMMA TokenTxPlaces ==
  ASSUME NEW version, NEW w
  PROVE  /\ OpensTokenTx(w, version) <=>
              /\ Opens(w, SmpTxMagic, version, 10) /\ w[9] = 0 /\ w[10] = 0 /\ w[6] # 0 /\ w[7] # 0
              /\ Len(w) = 10 + (w[6] + w[7] + w[8]) /\ w[8] = TokenLen /\ w[7] = PairLen
         /\ w[6] \in Nat => PartOf(w, 3, 1) = From(w, 11, w[6])
         /\ PartOf(w, 3, 2) = From(w, 11 + w[6], w[7])
         /\ w[6] \in Nat /\ w[7] \in Nat => PartOf(w, 3, 3) = From(w, 11 + w[6] + w[7], w[8])
<1>1. /\ 7 + 3 = 10 /\ 6 + 3 = 9 /\ 3 + 1 = 4 /\ 8 + 3 = 11 /\ 5 + 1 = 6 /\ 5 + 2 = 7 /\ 5 + 3 = 8 /\ 11 + 0 = 11
      /\ w[6] \in Nat /\ w[7] \in Nat => 11 + (w[6] + w[7]) = 11 + w[6] + w[7]
  OBVIOUS
<1>2. /\ WordsBefore(w, 1) = 0 /\ WordsBefore(w, 2) = w[6] /\ WordsBefore(w, 3) = w[6] + w[7]
      /\ WordsBefore(w, 4) = w[6] + w[7] + w[8]
  BY DEF WordsBefore
<1>3. OpensTokenTx(w, version) <=>
              /\ Opens(w, SmpTxMagic, version, 10) /\ w[9] = 0 /\ w[10] = 0 /\ w[6] # 0 /\ w[7] # 0
              /\ Len(w) = 10 + (w[6] + w[7] + w[8]) /\ w[8] = TokenLen /\ w[7] = PairLen
  BY <1>1, <1>2, Zenon DEF OpensTx, OpensTokenTx
<1>4. /\ PartOf(w, 3, 1) = From(w, 11 + 0, w[6]) /\ PartOf(w, 3, 2) = From(w, 11 + w[6], w[7])
      /\ PartOf(w, 3, 3) = From(w, 11 + (w[6] + w[7]), w[8])
  BY <1>1, <1>2, Zenon DEF PartOf
<1> QED
  BY <1>1, <1>3, <1>4, Zenon

\* An accepted transaction with a token is its parts, sealed again.
LEMMA TokenTxDecodedParts ==
  ASSUME NEW version \in Nat, NEW w \in Words, OpensTokenTx(w, version)
  PROVE  /\ PartOf(w, 3, 1) \in Words /\ PartOf(w, 3, 2) \in Words /\ PartOf(w, 3, 3) \in WordsOf(5)
         /\ PartOf(w, 3, 1) # <<>>
         /\ Same(Sealed(SmpTxMagic, version,
                        <<Len(PartOf(w, 3, 1)), Len(PartOf(w, 3, 2)), Len(PartOf(w, 3, 3)), 0, 0>>,
                        PartOf(w, 3, 1) \o PartOf(w, 3, 2) \o PartOf(w, 3, 3)), w)
<1> DEFINE n == w[6]
           m == w[7]
           k == w[8]
           x == From(w, 11, n)
           y == From(w, 11 + n, m)
           z == From(w, 11 + n + m, k)
           fields == <<n, m, k, 0, 0>>
<1>1. /\ Opens(w, SmpTxMagic, version, 10) /\ w[9] = 0 /\ w[10] = 0 /\ n # 0 /\ m # 0
      /\ Len(w) = 10 + (n + m + k) /\ k = TokenLen
  BY TokenTxPlaces, Zenon
<1>2. n \in Nat /\ m \in Nat /\ k \in Nat /\ k = 5
  <2>1. 10 \in Nat /\ 6 \in 1..10 /\ 7 \in 1..10 /\ TokenLen = 5 /\ 5 \in Nat
    BY DEF TokenLen
  <2>2. n \in Nat
    BY <1>1, <2>1, WordIs, Zenon
  <2>3. m \in Nat
    BY <1>1, <2>1, WordIs, Zenon
  <2> QED
    BY <1>1, <2>1, <2>2, <2>3, Zenon
<1>3. fields \in WordsOf(5) /\ HasFields(w, 5, fields)
  BY <1>1, <1>2 DEF WordsOf, Words, HasFields
<1>4. PartOf(w, 3, 1) = x /\ PartOf(w, 3, 2) = y /\ PartOf(w, 3, 3) = z
  BY <1>2, TokenTxPlaces, Zenon
<1> HIDE DEF n, m, k, fields
<1>5. Shape(5, 10, 11, n + m + k, Len(w)) /\ w \in WordsOf(Len(w)) /\ SmpTxMagic \in Nat
  <2>1. Len(w) = 10 + (n + m + k)
    BY <1>1, Zenon
  <2>2. n \in Nat /\ m \in Nat /\ k \in Nat
    BY <1>2, Zenon
  <2> QED
    BY <2>1, <2>2 DEF Shape, WordsOf, SmpTxMagic
<1>6. /\ Same(Sealed(SmpTxMagic, version, fields, x \o y \o z), w)
      /\ x \in WordsOf(n) /\ y \in WordsOf(m) /\ z \in WordsOf(k)
  <2>1. Opens(w, SmpTxMagic, version, 10) /\ n \in Nat /\ m \in Nat /\ k \in Nat
    BY <1>1, <1>2, Zenon
  <2>2. ThreeSealed(w, SmpTxMagic, version, fields, 11, n, m, k)
    BY <1>3, <1>5, <2>1, SealedAreThree, Zenon
  <2> QED
    BY <2>2, Zenon DEF ThreeSealed
<1> HIDE DEF x, y, z
<1>7. x \in Words /\ Len(x) = n /\ y \in Words /\ Len(y) = m /\ Len(z) = k /\ x # <<>>
  <2>1. x \in Words /\ Len(x) = n /\ y \in Words /\ Len(y) = m /\ Len(z) = k /\ n # 0
    BY <1>1, <1>6, Zenon DEF WordsOf
  <2> QED
    BY <2>1, NotEmpty, Zenon
<1> QED
  BY <1>2, <1>4, <1>6, <1>7, Zenon DEF fields

\* What SealTokenTx writes opens again and gives back the three parts.
LEMMA TokenTxStoredParts ==
  ASSUME NEW version \in Nat, NEW x, Image(x), NEW y, Image(y), Len(y) = PairLen, NEW z \in WordsOf(5)
  PROVE  LET w == Sealed(SmpTxMagic, version, <<Len(x), Len(y), Len(z), 0, 0>>, x \o y \o z)
         IN  /\ Image(w) /\ OpensTokenTx(w, version)
             /\ Same(PartOf(w, 3, 1), x) /\ Same(PartOf(w, 3, 2), y) /\ Same(PartOf(w, 3, 3), z)
<1> DEFINE n == Len(x)
           m == Len(y)
           k == Len(z)
           l == 10 + (n + m + k)
           fields == <<n, m, k, 0, 0>>
           w == Sealed(SmpTxMagic, version, fields, x \o y \o z)
<1>1. /\ x \in WordsOf(n) /\ n \in Nat /\ n # 0 /\ y \in WordsOf(m) /\ m \in Nat /\ m # 0
  BY DEF Image, WordsOf
<1>2. z \in WordsOf(k) /\ k = TokenLen /\ k \in Nat
  <2>1. z \in Words /\ k = 5
    BY Zenon DEF WordsOf
  <2>2. TokenLen = 5 /\ 5 \in Nat
    BY DEF TokenLen
  <2> QED
    BY <2>1, <2>2, Zenon DEF WordsOf
<1>3. /\ fields \in WordsOf(5)
      /\ fields[1] = n /\ fields[2] = m /\ fields[3] = k /\ fields[4] = 0 /\ fields[5] = 0
  BY <1>1, <1>2 DEF WordsOf, Words
<1>4. m = PairLen
  OBVIOUS
<1> HIDE DEF fields, n, m, k
<1>5. Shape(5, 10, 11, n + m + k, l) /\ SmpTxMagic \in Nat
  <2>1. n \in Nat /\ m \in Nat /\ k \in Nat
    BY <1>1, <1>2, Zenon
  <2> QED
    BY <2>1 DEF Shape, SmpTxMagic
<1> HIDE DEF l
<1>6. w \in WordsOf(l) /\ SealedThreeAs(w, SmpTxMagic, version, 5, 10, fields, 11, x, n, y, m, z, k)
  <2>1. x \in WordsOf(n) /\ y \in WordsOf(m) /\ z \in WordsOf(k) /\ n \in Nat /\ m \in Nat /\ k \in Nat
    BY <1>1, <1>2, Zenon
  <2>2. fields \in WordsOf(5)
    BY <1>3, Zenon
  <2> QED
    BY <1>5, <2>1, <2>2, SealedThree, Zenon
<1> HIDE DEF w
<1>7. Image(w) /\ Len(w) = l
  BY <1>5, <1>6, SealedImage, Zenon
<1>8. w[6] = n /\ w[7] = m /\ w[8] = k /\ w[9] = 0 /\ w[10] = 0
  BY <1>3, <1>6 DEF SealedThreeAs, HasFields
<1>9. /\ Opens(w, SmpTxMagic, version, 10)
      /\ From(w, 11, n) = x /\ From(w, 11 + n, m) = y /\ From(w, 11 + n + m, k) = z
  BY <1>6, Zenon DEF SealedThreeAs
<1>10. OpensTokenTx(w, version)
  BY <1>1, <1>2, <1>4, <1>7, <1>8, <1>9, TokenTxPlaces, Zenon DEF l
<1>11. PartOf(w, 3, 1) = x /\ PartOf(w, 3, 2) = y /\ PartOf(w, 3, 3) = z
  BY <1>1, <1>8, <1>9, TokenTxPlaces, Zenon
<1>12. w = Sealed(SmpTxMagic, version, <<Len(x), Len(y), Len(z), 0, 0>>, x \o y \o z)
  BY Zenon DEF w, fields, n, m, k
<1> QED
  BY <1>7, <1>10, <1>11, <1>12, Zenon DEF Same

\* What an accepted transaction with a token is, whatever decode of the
\* token was tried.
LEMMA OpenedTokenTxIs ==
  ASSUME NEW version \in Nat, NEW w \in Words, OpensTokenTx(w, version), NEW token,
         OpenedTokenTx(w, token) # Nothing, Same(EncodeToken(token), PartOf(w, 3, 3))
  PROVE  LET c == OpenedTokenTx(w, token)
         IN  /\ c.token = token /\ token # Nothing /\ Same(SealTokenTx(version, c), w)
             /\ IsTokenTx(c)
             /\ SmpSound(c.cp.ctl) /\ DevicesSound(c.cp.devs) /\ ValidTx(c)
<1> DEFINE x == PartOf(w, 3, 1)
           y == PartOf(w, 3, 2)
           z == PartOf(w, 3, 3)
           c == [cp |-> DecodeSmpBlk(x), regs |-> DecodePair(y), token |-> token]
<1>1. /\ DecodeSmpBlk(x) # Nothing /\ DecodePair(y) # NoPair /\ token # Nothing
      /\ OpenedTokenTx(w, token) = c /\ ValidTx(c)
  BY Zenon DEF OpenedTokenTx
<1>2. /\ x \in Words /\ y \in Words /\ x # <<>>
      /\ Same(Sealed(SmpTxMagic, version, <<Len(x), Len(y), Len(z), 0, 0>>, x \o y \o z), w)
  BY TokenTxDecodedParts, Zenon
<1>3. c.cp = DecodeSmpBlk(x) /\ c.regs = DecodePair(y) /\ c.token = token
  OBVIOUS
<1>8. IsTokenTx(c)
  BY DEF IsTokenTx
<1>4. Same(EncodeToken(token), z)
  OBVIOUS
<1> HIDE DEF c, x, y, z
<1>5. /\ Same(EncodeSmpBlk(DecodeSmpBlk(x)), x)
      /\ SmpSound(DecodeSmpBlk(x).ctl) /\ DevicesSound(DecodeSmpBlk(x).devs)
  BY <1>1, <1>2, SmpBlkDecoded, Zenon
<1>6. Same(EncodePair(DecodePair(y)), y)
  BY <1>1, <1>2, PairDecoded, Zenon
<1>7. Same(SealTokenTx(version, c), w)
  BY <1>2, <1>3, <1>4, <1>5, <1>6, Zenon DEF SealTokenTx, Same
<1> QED
  BY <1>1, <1>3, <1>5, <1>7, <1>8, Zenon

\* An accepted MHV2V2T image of version 2 is encoded to the same words.
LEMMA CompletionTxDecoded ==
  ASSUME NEW w \in Words, DecodeCompletionTx(w) # Nothing
  PROVE  LET c == DecodeCompletionTx(w)
         IN  /\ Same(EncodeCompletionTx(c), w)
             /\ SmpSound(c.cp.ctl) /\ DevicesSound(c.cp.devs) /\ ValidTx(c)
             /\ CompletionParts(c.token) /\ CompletionValid(c.cp, c.token)
             /\ IsTokenTx(c)
<1> DEFINE z == PartOf(w, 3, 3)
           token == DecodeCompletion(z)
           c == OpenedTokenTx(w, token)
<1>1. 2 \in Nat
  OBVIOUS
<1>2. OpensTokenTx(w, 2) /\ c # Nothing /\ CompletionValid(c.cp, c.token) /\ DecodeCompletionTx(w) = c
  BY Zenon DEF DecodeCompletionTx
<1>3. z \in WordsOf(5)
  BY <1>1, <1>2, TokenTxDecodedParts, Zenon
<1>4. token # Nothing
  BY <1>2, Zenon DEF OpenedTokenTx
<1> HIDE DEF z
<1>5. z[5] = 0 /\ token = TokenIn(z) /\ CompletionParts(token)
  BY <1>4, Zenon DEF DecodeCompletion
<1>6. Same(EncodeToken(token), z)
  BY <1>3, <1>5, TokenDecoded, Zenon
<1> HIDE DEF token
<1>7. /\ c.token = token /\ Same(SealTokenTx(2, c), w)
      /\ SmpSound(c.cp.ctl) /\ DevicesSound(c.cp.devs) /\ ValidTx(c)
      /\ IsTokenTx(c)
  BY <1>1, <1>2, <1>6, OpenedTokenTxIs, Zenon DEF z
<1> HIDE DEF c
<1> QED
  BY <1>2, <1>5, <1>7, Zenon DEF EncodeCompletionTx

\* An accepted MHV2V2T image of version 3 is encoded to the same words.
LEMMA NotificationTxDecoded ==
  ASSUME NEW w \in Words, DecodeNotificationTx(w) # Nothing
  PROVE  LET c == DecodeNotificationTx(w)
         IN  /\ Same(EncodeNotificationTx(c), w)
             /\ SmpSound(c.cp.ctl) /\ DevicesSound(c.cp.devs) /\ ValidTx(c)
             /\ NotificationParts(c.token) /\ NotificationValid(c.cp, c.token)
             /\ IsTokenTx(c)
<1> DEFINE z == PartOf(w, 3, 3)
           token == DecodeNotification(z)
           c == OpenedTokenTx(w, token)
<1>1. 3 \in Nat
  OBVIOUS
<1>2. OpensTokenTx(w, 3) /\ c # Nothing /\ NotificationValid(c.cp, c.token) /\ DecodeNotificationTx(w) = c
  BY Zenon DEF DecodeNotificationTx
<1>3. z \in WordsOf(5)
  BY <1>1, <1>2, TokenTxDecodedParts, Zenon
<1>4. token # Nothing
  BY <1>2, Zenon DEF OpenedTokenTx
<1> HIDE DEF z
<1>5. z[5] = 0 /\ token = TokenIn(z) /\ NotificationParts(token)
  BY <1>4, Zenon DEF DecodeNotification
<1>6. Same(EncodeToken(token), z)
  BY <1>3, <1>5, TokenDecoded, Zenon
<1> HIDE DEF token
<1>7. /\ c.token = token /\ Same(SealTokenTx(3, c), w)
      /\ SmpSound(c.cp.ctl) /\ DevicesSound(c.cp.devs) /\ ValidTx(c)
      /\ IsTokenTx(c)
  BY <1>1, <1>2, <1>6, OpenedTokenTxIs, Zenon DEF z
<1> HIDE DEF c
<1> QED
  BY <1>2, <1>5, <1>7, Zenon DEF EncodeNotificationTx

\* SealTokenTx's words open again to the transaction with its token.
LEMMA TokenTxStored ==
  ASSUME NEW version \in Nat, NEW b \in SmpBlkStates, SmpBlkSound(b),
         NEW p \in Pairs, Bound(b.devs, p), NEW t \in Tokens
  PROVE  LET c == [cp |-> b, regs |-> p, token |-> t]
             w == SealTokenTx(version, c)
         IN  /\ Image(w) /\ OpensTokenTx(w, version) /\ ValidTx(c)
             /\ Same(PartOf(w, 3, 3), EncodeToken(t)) /\ Same(OpenedTokenTx(w, t), c)
<1> DEFINE c == [cp |-> b, regs |-> p, token |-> t]
           x == EncodeSmpBlk(b)
           y == EncodePair(p)
           z == EncodeToken(t)
           w == Sealed(SmpTxMagic, version, <<Len(x), Len(y), Len(z), 0, 0>>, x \o y \o z)
<1>1. c.cp = b /\ c.regs = p /\ c.token = t
  OBVIOUS
<1>2. Image(x) /\ DecodeSmpBlk(x) = b /\ b # Nothing
  BY SmpBlkStored, Zenon
<1>3. Image(y) /\ Len(y) = PairLen /\ DecodePair(y) = p /\ p # NoPair
  BY PairImage, Zenon
<1>4. z \in WordsOf(5) /\ t # Nothing
  BY TokenStored, Zenon
<1>5. ValidTx(c)
  <2>1. ValidPair(p)
    BY Zenon DEF Pairs
  <2> HIDE DEF c
  <2> QED
    BY <1>1, <2>1, Zenon DEF ValidTx
<1>6. x # <<>>
  BY <1>2, ImageNotEmpty, Zenon
<1>7. SealTokenTx(version, c) = w
  <2> HIDE DEF c
  <2> QED
    BY <1>1, <1>6, Zenon DEF SealTokenTx
<1> HIDE DEF x, y, z
<1>8. /\ Image(w) /\ OpensTokenTx(w, version)
      /\ Same(PartOf(w, 3, 1), x) /\ Same(PartOf(w, 3, 2), y) /\ Same(PartOf(w, 3, 3), z)
  BY <1>2, <1>3, <1>4, TokenTxStoredParts, Zenon
<1> HIDE DEF w
<1>9. OpenedTokenTx(w, t) = c
  BY <1>2, <1>3, <1>4, <1>5, <1>8, Zenon DEF OpenedTokenTx, Same
<1> HIDE DEF c
<1>10. Same(PartOf(w, 3, 3), EncodeToken(t))
  BY <1>8, Zenon DEF z
<1> QED
  BY <1>5, <1>7, <1>8, <1>9, <1>10, Zenon DEF Same, c

\* A transaction of version 2 is stored and read back.
LEMMA CompletionTxStored ==
  ASSUME NEW b \in SmpBlkStates, SmpBlkSound(b),
         NEW p \in Pairs, Bound(b.devs, p), NEW t \in Tokens, CompletionParts(t), CompletionValid(b, t)
  PROVE  LET c == [cp |-> b, regs |-> p, token |-> t]
         IN  Image(EncodeCompletionTx(c)) /\ DecodeCompletionTx(EncodeCompletionTx(c)) = c
<1> DEFINE c == [cp |-> b, regs |-> p, token |-> t]
           w == SealTokenTx(2, c)
<1>1. 2 \in Nat
  OBVIOUS
<1>2. c.cp = b /\ c.token = t /\ c # Nothing
  BY DEF Nothing
<1>3. /\ Image(w) /\ OpensTokenTx(w, 2) /\ ValidTx(c)
      /\ Same(PartOf(w, 3, 3), EncodeToken(t)) /\ Same(OpenedTokenTx(w, t), c)
  BY <1>1, TokenTxStored, Zenon
<1>4. EncodeToken(t)[5] = 0 /\ TokenIn(EncodeToken(t)) = t
  BY TokenStored, Zenon
<1> HIDE DEF c
<1>5. EncodeCompletionTx(c) = w
  BY <1>2, <1>3, Zenon DEF EncodeCompletionTx
<1> HIDE DEF w
<1>6. DecodeCompletion(PartOf(w, 3, 3)) = t
  BY <1>3, <1>4, Zenon DEF DecodeCompletion, Same
<1>7. DecodeCompletionTx(w) = c
  BY <1>2, <1>3, <1>6, Zenon DEF DecodeCompletionTx, Same
<1> QED
  BY <1>3, <1>5, <1>7, Zenon DEF c

\* A transaction of version 3 is stored and read back.
LEMMA NotificationTxStored ==
  ASSUME NEW b \in SmpBlkStates, SmpBlkSound(b),
         NEW p \in Pairs, Bound(b.devs, p), NEW t \in Tokens, NotificationParts(t), NotificationValid(b, t)
  PROVE  LET c == [cp |-> b, regs |-> p, token |-> t]
         IN  Image(EncodeNotificationTx(c)) /\ DecodeNotificationTx(EncodeNotificationTx(c)) = c
<1> DEFINE c == [cp |-> b, regs |-> p, token |-> t]
           w == SealTokenTx(3, c)
<1>1. 3 \in Nat
  OBVIOUS
<1>2. c.cp = b /\ c.token = t /\ c # Nothing
  BY DEF Nothing
<1>3. /\ Image(w) /\ OpensTokenTx(w, 3) /\ ValidTx(c)
      /\ Same(PartOf(w, 3, 3), EncodeToken(t)) /\ Same(OpenedTokenTx(w, t), c)
  BY <1>1, TokenTxStored, Zenon
<1>4. EncodeToken(t)[5] = 0 /\ TokenIn(EncodeToken(t)) = t
  BY TokenStored, Zenon
<1> HIDE DEF c
<1>5. EncodeNotificationTx(c) = w
  BY <1>2, <1>3, Zenon DEF EncodeNotificationTx
<1> HIDE DEF w
<1>6. DecodeNotification(PartOf(w, 3, 3)) = t
  BY <1>3, <1>4, Zenon DEF DecodeNotification, Same
<1>7. DecodeNotificationTx(w) = c
  BY <1>2, <1>3, <1>6, Zenon DEF DecodeNotificationTx, Same
<1> QED
  BY <1>3, <1>5, <1>7, Zenon DEF c
=============================================================================
