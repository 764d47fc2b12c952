------------------------- MODULE SourceIdentity_proofs -------------------------
(***************************************************************************)
(* Proofs about SourceIdentity, for any paths, contents and number of      *)
(* edits: what two equal identities show, what makes them differ, and what *)
(* an undisturbed collection says.                                         *)
(***************************************************************************)
EXTENDS SourceIdentity, TLAPS

-----------------------------------------------------------------------------
(* The stream that is hashed.                                               *)

IsPath(t) == t[1] = "path"
\* A content that has no beginning of an entry in it.
Unbroken(e) == e.is = "file" => \A i \in DOMAIN Bytes[e.data] : ~IsPath(Bytes[e.data][i])

LEMMA PathTokens ==
  /\ \A p \in Paths : <<"path", p>> \in Tokens /\ IsPath(<<"path", p>>)
  /\ \A p, q : <<"path", p>> = <<"path", q>> => p = q
BY DEF Tokens, IsPath

\* A piece begins with its path.
LEMMA PieceBegins ==
  ASSUME NEW p \in Paths, NEW e \in Entry
  PROVE  /\ Piece(p, e) \in Seq(Tokens) /\ Len(Piece(p, e)) \in Nat
         /\ Len(Piece(p, e)) > 1
         /\ Piece(p, e)[1] = <<"path", p>>
<1>1. <<"path", p>> \in Tokens /\ <<"file">> \in Tokens /\ <<"bit", e.mode>> \in Tokens
      /\ <<"symlink", e.data>> \in Tokens /\ <<"submodule", e.data, e.mode>> \in Tokens
  BY DEF Tokens, Entry
<1>2. Bytes[e.data] \in Seq(Tokens) /\ e.is \in Kinds
  BY ContentAssumption DEF Entry
<1>3. CASE e.is = "file"
  <2> DEFINE f == <<<<"file">>>> \o Bytes[e.data] \o <<<<"bit", e.mode>>>>
  <2>1. f \in Seq(Tokens) /\ Len(f) > 0 /\ Len(f) \in Nat
    BY <1>1, <1>2
  <2>2. Piece(p, e) = <<<<"path", p>>>> \o f
    BY <1>3 DEF Piece
  <2> HIDE DEF f
  <2> QED
    BY <1>1, <2>1, <2>2
<1>4. CASE e.is = "symlink"
  BY <1>1, <1>4 DEF Piece
<1>5. CASE e.is = "submodule"
  BY <1>1, <1>5 DEF Piece
<1> QED
  BY <1>2, <1>3, <1>4, <1>5 DEF Kinds

\* In the piece of a file, what is between the path and the bit is its content.
LEMMA PieceOfFile ==
  ASSUME NEW p \in Paths, NEW e \in Entry, e.is = "file"
  PROVE  /\ Len(Piece(p, e)) = Len(Bytes[e.data]) + 3
         /\ Piece(p, e)[2] = <<"file">>
         /\ Piece(p, e)[Len(Piece(p, e))] = <<"bit", e.mode>>
         /\ \A i \in DOMAIN Bytes[e.data] : Piece(p, e)[i + 2] = Bytes[e.data][i]
<1>1. Bytes[e.data] \in Seq(Tokens)
  BY ContentAssumption DEF Entry
<1> DEFINE c == Bytes[e.data]
           f == <<<<"file">>>> \o c
           g == f \o <<<<"bit", e.mode>>>>
<1> HIDE DEF c
<1>2. /\ f \in Seq(Tokens) /\ Len(f) = Len(c) + 1 /\ f[1] = <<"file">>
      /\ \A i \in DOMAIN c : f[i + 1] = c[i]
  BY <1>1 DEF Tokens, c
<1> HIDE DEF f
<1>3. <<"bit", e.mode>> \in Tokens
  BY DEF Tokens, Entry
<1>4. /\ g \in Seq(Tokens) /\ Len(g) = Len(c) + 2 /\ g[1] = <<"file">>
      /\ g[Len(c) + 2] = <<"bit", e.mode>>
      /\ \A i \in DOMAIN c : g[i + 1] = c[i]
  <2>1. Len(c) \in Nat /\ DOMAIN c = 1..Len(c)
    BY <1>1 DEF c
  <2>2. /\ g \in Seq(Tokens) /\ Len(g) = Len(f) + 1 /\ g[Len(f) + 1] = <<"bit", e.mode>>
        /\ \A i \in 1..Len(f) : g[i] = f[i]
    BY <1>2, <1>3
  <2> HIDE DEF g
  <2>3. \A i \in DOMAIN c : i + 1 \in 1..Len(f)
    BY <1>2, <2>1
  <2> QED
    BY <1>2, <2>1, <2>2, <2>3
<1>5. Piece(p, e) = <<<<"path", p>>>> \o g
  BY DEF Piece, g, f, c
<1> HIDE DEF g
<1>6. Len(c) \in Nat /\ DOMAIN c = 1..Len(c)
  BY <1>1 DEF c
<1>7. /\ Len(Piece(p, e)) = Len(c) + 3
      /\ \A i \in 1..Len(g) : Piece(p, e)[i + 1] = g[i]
  BY <1>4, <1>5, <1>6, PathTokens
<1> DEFINE r == Piece(p, e)
<1> HIDE DEF r
<1>8. Len(r) = Len(c) + 3 /\ \A i \in 1..Len(c) + 2 : r[i + 1] = g[i]
  BY <1>4, <1>7 DEF r
<1>9. r[2] = <<"file">>
  BY <1>4, <1>6, <1>8
<1>10. r[Len(r)] = <<"bit", e.mode>>
  BY <1>4, <1>6, <1>8
<1>11. ASSUME NEW i \in DOMAIN c PROVE r[i + 2] = c[i]
  <2>1. i + 1 \in 1..Len(c) + 2 /\ (i + 1) + 1 = i + 2
    BY <1>6
  <2>2. r[(i + 1) + 1] = g[i + 1]
    BY <1>8, <2>1
  <2> QED
    BY <1>4, <2>1, <2>2
<1> QED
  BY <1>8, <1>9, <1>10, <1>11 DEF c, r

\* The piece of another kind of entry has one more token.
LEMMA PieceOfOther ==
  ASSUME NEW p \in Paths, NEW e \in Entry, e.is # "file"
  PROVE  /\ Len(Piece(p, e)) = 2
         /\ e.is = "symlink" => Piece(p, e)[2] = <<"symlink", e.data>>
         /\ e.is = "submodule" => Piece(p, e)[2] = <<"submodule", e.data, e.mode>>
<1> e.is \in {"symlink", "submodule"}
  BY DEF Entry, Kinds
<1> QED
  BY DEF Piece

\* After the path of an unbroken entry there is no other one.
LEMMA PieceUnbroken ==
  ASSUME NEW p \in Paths, NEW e \in Entry, Unbroken(e), NEW i \in 2..Len(Piece(p, e))
  PROVE  ~IsPath(Piece(p, e)[i])
<1>1. CASE e.is = "file"
  <2> DEFINE n == Len(Bytes[e.data])
  <2>1. Bytes[e.data] \in Seq(Tokens)
    BY ContentAssumption DEF Entry
  <2>2. n \in Nat /\ DOMAIN Bytes[e.data] = 1..n /\ Len(Piece(p, e)) = n + 3
    BY <1>1, <2>1, PieceOfFile
  <2>3. ~IsPath(<<"file">>) /\ ~IsPath(<<"bit", e.mode>>)
    BY DEF IsPath
  <2>4. CASE i = 2 \/ i = n + 3
    BY <1>1, <2>2, <2>3, <2>4, PieceOfFile
  <2>5. CASE i \in 3..n + 2
    <3>1. i - 2 \in 1..n /\ (i - 2) + 2 = i
      BY <2>2, <2>5
    <3>2. ~IsPath(Bytes[e.data][i - 2])
      BY <1>1, <2>2, <3>1 DEF Unbroken
    <3>3. Piece(p, e)[(i - 2) + 2] = Bytes[e.data][i - 2]
      BY <1>1, <2>2, <3>1, PieceOfFile
    <3> QED
      BY <3>1, <3>2, <3>3
  <2> HIDE DEF n
  <2> QED
    BY <2>2, <2>4, <2>5
<1>2. CASE e.is # "file"
  <2>1. e.is \in {"symlink", "submodule"}
    BY <1>2 DEF Entry, Kinds
  <2>2. Len(Piece(p, e)) = 2
    BY <1>2, PieceOfOther
  <2>3. i = 2
    BY <2>2
  <2>4. ~IsPath(<<"symlink", e.data>>) /\ ~IsPath(<<"submodule", e.data, e.mode>>)
    BY DEF IsPath
  <2>5. CASE e.is = "symlink"
    BY <1>2, <2>3, <2>4, <2>5, PieceOfOther
  <2>6. CASE e.is = "submodule"
    BY <1>2, <2>3, <2>4, <2>6, PieceOfOther
  <2> QED
    BY <2>1, <2>5, <2>6
<1> QED
  BY <1>1, <1>2

\* A piece tells the entry it was made of, but for the mode of a link.
LEMMA PieceTells ==
  ASSUME NEW p \in Paths, NEW e \in Entry, NEW f \in Entry, Piece(p, e) = Piece(p, f)
  PROVE  e.is = f.is /\ e.data = f.data /\ (e.is # "symlink" => e.mode = f.mode)
<1>1. CASE e.is = "file" /\ f.is = "file"
  <2>1. Bytes[e.data] \in Seq(Tokens) /\ Bytes[f.data] \in Seq(Tokens)
    BY ContentAssumption DEF Entry
  <2>2. Len(Bytes[e.data]) = Len(Bytes[f.data])
    BY <1>1, <2>1, PieceOfFile
  <2>3. \A i \in DOMAIN Bytes[e.data] : Bytes[e.data][i] = Bytes[f.data][i]
    <3>1. DOMAIN Bytes[e.data] = DOMAIN Bytes[f.data]
      BY <2>1, <2>2
    <3>2. /\ \A i \in DOMAIN Bytes[e.data] : Piece(p, e)[i + 2] = Bytes[e.data][i]
          /\ \A i \in DOMAIN Bytes[f.data] : Piece(p, f)[i + 2] = Bytes[f.data][i]
      BY <1>1, PieceOfFile
    <3> QED
      BY <3>1, <3>2
  <2>4. Bytes[e.data] = Bytes[f.data]
    BY <2>1, <2>2, <2>3
  <2>5. <<"bit", e.mode>> = <<"bit", f.mode>>
    BY <1>1, PieceOfFile
  <2> QED
    BY <1>1, <2>4, <2>5, ContentAssumption DEF Entry
<1>2. CASE e.is # "file" /\ f.is # "file"
  <2>1. e.is \in {"symlink", "submodule"} /\ f.is \in {"symlink", "submodule"}
    BY <1>2 DEF Entry, Kinds
  <2>2. Piece(p, e)[2] = Piece(p, f)[2]
    OBVIOUS
  <2>3. <<"symlink", e.data>> # <<"submodule", f.data, f.mode>>
        /\ <<"symlink", f.data>> # <<"submodule", e.data, e.mode>>
    BY SMT
  <2>4. e.is = f.is
    BY <1>2, <2>1, <2>2, <2>3, PieceOfOther
  <2> QED
    BY <1>2, <2>1, <2>2, <2>4, PieceOfOther
<1>3. CASE e.is = "file" /\ f.is # "file"
  <2>1. Bytes[e.data] \in Seq(Tokens)
    BY ContentAssumption DEF Entry
  <2> QED
    BY <1>3, <2>1, PieceOfFile, PieceOfOther
<1>4. CASE e.is # "file" /\ f.is = "file"
  <2>1. Bytes[f.data] \in Seq(Tokens)
    BY ContentAssumption DEF Entry
  <2> QED
    BY <1>4, <2>1, PieceOfFile, PieceOfOther
<1> QED
  BY <1>1, <1>2, <1>3, <1>4

\* Where the piece of p ends, if the pieces of the entries e begin at at.
After(e, at, p) == at[p] + Len(Piece(p, e[p]))
\* The stream s consists of the pieces of e, which begin at at.
Consists(s, e, at) ==
  /\ at \in [DOMAIN e -> Nat \ {0}]
  /\ \A p \in DOMAIN e :
       /\ After(e, at, p) <= Len(s) + 1
       /\ \A i \in 1..Len(Piece(p, e[p])) : s[at[p] + i - 1] = Piece(p, e[p])[i]
  /\ \A k \in 1..Len(s) : \E p \in DOMAIN e : at[p] <= k /\ k < After(e, at, p)
\* They are in the order in which git lists the paths.
InOrder(e, at) == \A p, q \in DOMAIN e : Rank[p] < Rank[q] => After(e, at, p) <= at[q]
IsStream(s, e) == \E at : Consists(s, e, at) /\ InOrder(e, at)

LEMMA EntriesAre ==
  ASSUME NEW e \in Entries, NEW p \in DOMAIN e
  PROVE  p \in Paths /\ e[p] \in Entry
BY DEF Entries

\* A piece is in the stream, begins with its path and has no other path in it.
LEMMA PieceInStream ==
  ASSUME NEW s \in Seq(Tokens), NEW e \in Entries, NEW at, Consists(s, e, at),
         NEW p \in DOMAIN e
  PROVE  /\ at[p] \in 1..Len(s) /\ After(e, at, p) \in Nat /\ After(e, at, p) > at[p] + 1
         /\ s[at[p]] = <<"path", p>>
         /\ Unbroken(e[p]) => \A k \in at[p] + 1..After(e, at, p) - 1 : ~IsPath(s[k])
<1>1. p \in Paths /\ e[p] \in Entry
  BY EntriesAre
<1>2. /\ Len(Piece(p, e[p])) \in Nat /\ Len(Piece(p, e[p])) > 1
      /\ Piece(p, e[p])[1] = <<"path", p>>
  BY <1>1, PieceBegins
<1>3. at[p] \in Nat \ {0} /\ Len(s) \in Nat
  BY DEF Consists
<1>4. at[p] \in 1..Len(s) /\ After(e, at, p) \in Nat /\ After(e, at, p) > at[p] + 1
  BY <1>2, <1>3 DEF Consists, After
<1>5. s[at[p]] = <<"path", p>>
  <2>1. s[at[p] + 1 - 1] = Piece(p, e[p])[1]
    BY <1>2 DEF Consists
  <2> QED
    BY <1>2, <1>3, <2>1
<1>6. ASSUME Unbroken(e[p]), NEW k \in at[p] + 1..After(e, at, p) - 1
      PROVE  ~IsPath(s[k])
  <2> DEFINE i == k - at[p] + 1
  <2>1. i \in 2..Len(Piece(p, e[p])) /\ i \in 1..Len(Piece(p, e[p])) /\ at[p] + i - 1 = k
    <3>1. k \in Nat /\ at[p] + 1 <= k /\ k <= at[p] + Len(Piece(p, e[p])) - 1
      BY <1>3, <1>4 DEF After
    <3>2. \A m, b, n \in Nat : b + 1 <= m /\ m <= b + n - 1 =>
            /\ m - b + 1 \in 2..n /\ m - b + 1 \in 1..n
            /\ b + (m - b + 1) - 1 = m
      OBVIOUS
    <3> QED
      BY <1>2, <1>3, <3>1, <3>2
  <2>2. s[k] = Piece(p, e[p])[i]
    BY <2>1 DEF Consists
  <2> QED
    BY <1>1, <1>6, <2>1, <2>2, PieceUnbroken
<1> QED
  BY <1>4, <1>5, <1>6

\* After an unbroken piece the stream is over or the next path begins.
LEMMA NextBegins ==
  ASSUME NEW s \in Seq(Tokens), NEW e \in Entries, NEW at, Consists(s, e, at),
         \A p \in DOMAIN e : Unbroken(e[p]),
         NEW p \in DOMAIN e, After(e, at, p) <= Len(s)
  PROVE  IsPath(s[After(e, at, p)])
<1> DEFINE k == After(e, at, p)
<1>1. /\ at[p] \in 1..Len(s) /\ k \in Nat /\ k > at[p]
  BY PieceInStream
<1>2. PICK q \in DOMAIN e : at[q] <= k /\ k < After(e, at, q)
  BY <1>1 DEF Consists
<1>3. /\ at[q] \in 1..Len(s) /\ After(e, at, q) \in Nat /\ s[at[q]] = <<"path", q>>
  BY PieceInStream
<1>4. s[at[p]] = <<"path", p>>
  BY PieceInStream
<1>5. \A r \in Paths : IsPath(<<"path", r>>)
  BY PathTokens
<1>6. p \in Paths /\ q \in Paths /\ q # p
  BY <1>1, <1>2, EntriesAre
<1>7. at[q] # at[p]
  BY <1>3, <1>4, <1>6, PathTokens
<1>8. ~(at[p] < at[q] /\ at[q] < k)
  <2> SUFFICES ASSUME at[p] < at[q], at[q] < k PROVE FALSE
    OBVIOUS
  <2>1. at[q] \in at[p] + 1..After(e, at, p) - 1
    BY <1>1, <1>3
  <2>2. ~IsPath(s[at[q]])
    BY <2>1, PieceInStream
  <2> QED
    BY <1>3, <1>5, <1>6, <2>2
<1>9. ~(at[q] < at[p])
  <2> SUFFICES ASSUME at[q] < at[p] PROVE FALSE
    OBVIOUS
  <2>1. at[p] \in at[q] + 1..After(e, at, q) - 1
    BY <1>1, <1>2, <1>3
  <2>2. ~IsPath(s[at[p]])
    BY <2>1, PieceInStream
  <2> QED
    BY <1>4, <1>5, <1>6, <2>2
<1>10. at[q] = k
  BY <1>1, <1>2, <1>3, <1>7, <1>8, <1>9
<1> QED
  BY <1>3, <1>5, <1>6, <1>10

\* Where the paths of unbroken entries begin can be seen in the stream.
LEMMA PathsAreSeen ==
  ASSUME NEW s \in Seq(Tokens), NEW a \in Entries, NEW b \in Entries,
         NEW from, NEW at, Consists(s, a, from), Consists(s, b, at),
         \A p \in DOMAIN b : Unbroken(b[p]), NEW p \in DOMAIN a
  PROVE  p \in DOMAIN b /\ at[p] = from[p]
<1>1. from[p] \in 1..Len(s) /\ s[from[p]] = <<"path", p>> /\ p \in Paths
  BY PieceInStream, EntriesAre
<1>2. PICK q \in DOMAIN b : at[q] <= from[p] /\ from[p] < After(b, at, q)
  BY <1>1 DEF Consists
<1>3. at[q] \in 1..Len(s) /\ After(b, at, q) \in Nat /\ s[at[q]] = <<"path", q>>
  BY PieceInStream
<1>4. ~(at[q] < from[p])
  <2> SUFFICES ASSUME at[q] < from[p] PROVE FALSE
    OBVIOUS
  <2>1. from[p] \in at[q] + 1..After(b, at, q) - 1
    BY <1>1, <1>2, <1>3
  <2>2. ~IsPath(s[from[p]])
    BY <2>1, PieceInStream
  <2> QED
    BY <1>1, <2>2, PathTokens
<1>5. at[q] = from[p]
  BY <1>1, <1>2, <1>3, <1>4
<1> QED
  BY <1>1, <1>3, <1>5, PathTokens

\* Unbroken entries whose streams are equal are the same entries, but for the mode
\* of links, which is not hashed.
LEMMA StreamTells ==
  ASSUME NEW s \in Seq(Tokens), NEW a \in Entries, NEW b \in Entries,
         IsStream(s, a), IsStream(s, b),
         \A p \in DOMAIN a : Unbroken(a[p]), \A p \in DOMAIN b : Unbroken(b[p])
  PROVE  /\ DOMAIN a = DOMAIN b
         /\ \A p \in DOMAIN a :
              /\ a[p].is = b[p].is /\ a[p].data = b[p].data
              /\ a[p].is # "symlink" => a[p].mode = b[p].mode
<1>1. PICK from : Consists(s, a, from)
  BY DEF IsStream
<1>2. PICK at : Consists(s, b, at)
  BY DEF IsStream
<1>3. /\ \A p \in DOMAIN a : p \in DOMAIN b /\ at[p] = from[p]
      /\ \A p \in DOMAIN b : p \in DOMAIN a
  <2>1. \A p \in DOMAIN a : p \in DOMAIN b /\ at[p] = from[p]
    BY <1>1, <1>2, PathsAreSeen
  <2>2. \A p \in DOMAIN b : p \in DOMAIN a
    BY <1>1, <1>2, PathsAreSeen
  <2> QED
    BY <2>1, <2>2
<1>4. SUFFICES ASSUME NEW p \in DOMAIN a
               PROVE  /\ a[p].is = b[p].is /\ a[p].data = b[p].data
                      /\ a[p].is # "symlink" => a[p].mode = b[p].mode
  BY <1>3
<1>5. p \in DOMAIN b /\ at[p] = from[p] /\ p \in Paths /\ a[p] \in Entry /\ b[p] \in Entry
  BY <1>3, EntriesAre
<1>6. /\ from[p] \in 1..Len(s) /\ After(a, from, p) \in Nat /\ After(b, at, p) \in Nat
      /\ After(a, from, p) > from[p] /\ After(b, at, p) > at[p]
      /\ After(a, from, p) <= Len(s) + 1 /\ After(b, at, p) <= Len(s) + 1
      /\ Len(s) \in Nat
  <2>1. After(a, from, p) <= Len(s) + 1 /\ After(b, at, p) <= Len(s) + 1
    BY <1>1, <1>2, <1>5 DEF Consists
  <2> QED
    BY <1>1, <1>2, <1>5, <2>1, PieceInStream
<1>7. ~(After(a, from, p) < After(b, at, p))
  <2> SUFFICES ASSUME After(a, from, p) < After(b, at, p) PROVE FALSE
    OBVIOUS
  <2>1. After(a, from, p) <= Len(s)
    BY <1>6
  <2>2. IsPath(s[After(a, from, p)])
    BY <1>1, <2>1, NextBegins
  <2>3. After(a, from, p) \in at[p] + 1..After(b, at, p) - 1
    BY <1>5, <1>6
  <2> QED
    BY <1>2, <1>5, <2>2, <2>3, PieceInStream
<1>8. ~(After(b, at, p) < After(a, from, p))
  <2> SUFFICES ASSUME After(b, at, p) < After(a, from, p) PROVE FALSE
    OBVIOUS
  <2>1. After(b, at, p) <= Len(s)
    BY <1>6
  <2>2. IsPath(s[After(b, at, p)])
    BY <1>2, <1>5, <2>1, NextBegins
  <2>3. After(b, at, p) \in from[p] + 1..After(a, from, p) - 1
    BY <1>5, <1>6
  <2> QED
    BY <1>1, <2>2, <2>3, PieceInStream
<1>9. Piece(p, a[p]) = Piece(p, b[p])
  <2>1. Piece(p, a[p]) \in Seq(Tokens) /\ Piece(p, b[p]) \in Seq(Tokens)
    BY <1>5, PieceBegins
  <2>2. Len(Piece(p, a[p])) = Len(Piece(p, b[p]))
    BY <1>5, <1>6, <1>7, <1>8, <2>1 DEF After
  <2>3. \A i \in 1..Len(Piece(p, a[p])) : Piece(p, a[p])[i] = Piece(p, b[p])[i]
    <3>1. /\ \A i \in 1..Len(Piece(p, a[p])) : s[from[p] + i - 1] = Piece(p, a[p])[i]
          /\ \A i \in 1..Len(Piece(p, b[p])) : s[at[p] + i - 1] = Piece(p, b[p])[i]
      BY <1>1, <1>2, <1>5 DEF Consists
    <3> QED
      BY <1>5, <2>2, <3>1
  <2> QED
    BY <2>1, <2>2, <2>3
<1> QED
  BY <1>5, <1>9, PieceTells

\* No entries, no stream.
LEMMA EmptyStream ==
  /\ IsStream(<<>>, NoEntries)
  /\ \A s \in Seq(Tokens) : \A e : DOMAIN e = {} /\ IsStream(s, e) => s = <<>>
<1>1. IsStream(<<>>, NoEntries)
  <2> DEFINE at == [p \in {} |-> 1]
  <2>1. DOMAIN NoEntries = {} /\ at \in [{} -> Nat \ {0}]
    BY DEF NoEntries
  <2>2. Consists(<<>>, NoEntries, at) /\ InOrder(NoEntries, at)
    BY <2>1 DEF Consists, InOrder
  <2> QED
    BY <2>2 DEF IsStream
<1>2. ASSUME NEW s \in Seq(Tokens), NEW e, DOMAIN e = {}, IsStream(s, e) PROVE s = <<>>
  <2>1. 1..Len(s) = {}
    BY <1>2 DEF IsStream, Consists
  <2>2. Len(s) \in Nat /\ Len(s) = 0
    BY <2>1
  <2> QED
    BY <2>2
<1> QED
  BY <1>1, <1>2

\* The piece of a path that is listed later continues the stream.
LEMMA StreamContinues ==
  ASSUME NEW s \in Seq(Tokens), NEW e \in Entries, NEW p \in Paths, NEW x \in Entry,
         IsStream(s, e), \A q \in DOMAIN e : Rank[q] < Rank[p]
  PROVE  IsStream(s \o Piece(p, x), [q \in DOMAIN e \cup {p} |-> IF q = p THEN x ELSE e[q]])
<1>1. PICK at : Consists(s, e, at) /\ InOrder(e, at)
  BY DEF IsStream
<1> DEFINE c == Piece(p, x)
           t == s \o c
           f == [q \in DOMAIN e \cup {p} |-> IF q = p THEN x ELSE e[q]]
           from == [q \in DOMAIN e \cup {p} |-> IF q = p THEN Len(s) + 1 ELSE at[q]]
<1>2. c \in Seq(Tokens) /\ Len(c) \in Nat /\ Len(c) > 1 /\ Len(s) \in Nat
  BY PieceBegins
<1>3. \A q \in Paths : Rank[q] \in Nat
  BY PathAssumption
<1>4. p \notin DOMAIN e /\ \A q \in DOMAIN e : q \in Paths
  BY <1>3, EntriesAre
<1>5. /\ DOMAIN f = DOMAIN e \cup {p} /\ f[p] = x /\ from[p] = Len(s) + 1
      /\ \A q \in DOMAIN e : f[q] = e[q] /\ from[q] = at[q]
      /\ from \in [DOMAIN f -> Nat \ {0}]
  BY <1>1, <1>2, <1>4 DEF Consists
<1>6. /\ Len(t) = Len(s) + Len(c)
      /\ \A i \in 1..Len(s) : t[i] = s[i]
      /\ \A i \in 1..Len(c) : t[Len(s) + i] = c[i]
  BY <1>2
<1> HIDE DEF c, t, f, from
<1>7. /\ After(f, from, p) = Len(s) + 1 + Len(c)
      /\ \A q \in DOMAIN e : /\ After(f, from, q) = After(e, at, q)
                             /\ Piece(q, f[q]) = Piece(q, e[q])
      /\ Piece(p, f[p]) = c
  BY <1>5 DEF After, c
<1>8. \A q \in DOMAIN e : /\ After(e, at, q) \in Nat /\ at[q] \in 1..Len(s)
                          /\ After(e, at, q) <= Len(s) + 1
                          /\ Len(Piece(q, e[q])) \in Nat
  BY <1>1, PieceInStream, PieceBegins, EntriesAre DEF Consists
<1>9. Consists(t, f, from)
  <2>1. \A q \in DOMAIN f :
          /\ After(f, from, q) <= Len(t) + 1
          /\ \A i \in 1..Len(Piece(q, f[q])) : t[from[q] + i - 1] = Piece(q, f[q])[i]
    <3>1. ASSUME NEW q \in DOMAIN e
          PROVE  /\ After(f, from, q) <= Len(t) + 1
                 /\ \A i \in 1..Len(Piece(q, f[q])) : t[from[q] + i - 1] = Piece(q, f[q])[i]
      <4>1. After(f, from, q) <= Len(t) + 1
        BY <1>2, <1>6, <1>7, <1>8
      <4>2. ASSUME NEW i \in 1..Len(Piece(q, e[q]))
            PROVE  t[at[q] + i - 1] = Piece(q, e[q])[i]
        <5>1. at[q] + i - 1 \in 1..Len(s)
          BY <1>2, <1>8 DEF After
        <5> QED
          BY <1>1, <1>6, <5>1 DEF Consists
      <4> QED
        BY <1>5, <1>7, <4>1, <4>2
    <3>2. ASSUME NEW i \in 1..Len(c) PROVE t[from[p] + i - 1] = c[i]
      <4>1. from[p] + i - 1 = Len(s) + i
        BY <1>2, <1>5
      <4> QED
        BY <1>6, <4>1
    <3>3. After(f, from, p) <= Len(t) + 1
      BY <1>2, <1>6, <1>7
    <3> QED
      BY <1>5, <1>7, <3>1, <3>2, <3>3
  <2>2. ASSUME NEW k \in 1..Len(t) PROVE \E q \in DOMAIN f : from[q] <= k /\ k < After(f, from, q)
    <3>1. CASE k <= Len(s)
      <4>1. k \in 1..Len(s)
        BY <1>2, <3>1
      <4> QED
        BY <1>1, <1>5, <1>7, <4>1 DEF Consists
    <3>2. CASE k > Len(s)
      BY <1>2, <1>5, <1>6, <1>7, <3>2
    <3> QED
      BY <1>2, <3>1, <3>2
  <2> QED
    BY <1>5, <2>1, <2>2 DEF Consists
<1>10. InOrder(f, from)
  <2> SUFFICES ASSUME NEW q \in DOMAIN f, NEW r \in DOMAIN f, Rank[q] < Rank[r]
               PROVE  After(f, from, q) <= from[r]
    BY DEF InOrder
  <2>1. CASE q \in DOMAIN e /\ r \in DOMAIN e
    BY <1>1, <1>5, <1>7, <2>1 DEF InOrder
  <2>2. CASE q \in DOMAIN e /\ r = p
    BY <1>5, <1>7, <1>8, <2>2
  <2>3. CASE q = p
    BY <1>3, <1>4, <1>5, <2>3
  <2> QED
    BY <1>5, <2>1, <2>2, <2>3
<1> QED
  BY <1>9, <1>10 DEF IsStream, t, f, c

-----------------------------------------------------------------------------
(* Types.                                                                   *)

\* What is being read, by stage.
InvReading ==
  /\ stage = "read" => reading \in [path : Paths, is : Kinds, mode : BOOLEAN]
  /\ stage = "submodule_status" =>
       reading \in [path : Paths, is : {"submodule"}, data : Data]
  /\ stage \notin {"read", "submodule_status", "failed"} => reading = NoReading

\* The types of what the program has, of the world and of the history.
TypeProgram ==
  /\ stage \in Stages /\ round \in {1, 2}
  /\ error \in {"none", "io", "missing"}
  /\ partial \in Identity /\ source \in Identity /\ source_after \in Identity
  /\ todo \subseteq Paths
  /\ reading \in Reading
  /\ discovered \subseteq (Kinds \cup {None}) \X Data
  /\ state_dir \in StateDirs
TypeWorld ==
  /\ kind \in [Paths -> Kinds \cup {None}] /\ data \in [Paths -> Data]
  /\ mode \in [Paths -> BOOLEAN]
  /\ index \in Tree /\ head \in Commits \cup {Unborn}
  /\ trees \in [Commits -> Tree \cup {NoTree}] /\ ref \in Refs
TypeHistory ==
  /\ edits \in 0..MaxEdits
  /\ DOMAIN past = Facets /\ \A f \in Facets : past[f] \subseteq FacetValues[f[2]]
  /\ restored \in BOOLEAN /\ followed \in BOOLEAN /\ quiet \in BOOLEAN
  /\ drifted \subseteq Facets

\* An entry that is added to entries gives entries.
LEMMA AddedEntries ==
  ASSUME NEW e \in Entries, NEW p \in Paths, NEW x \in Entry
  PROVE  [q \in DOMAIN e \cup {p} |-> IF q = p THEN x ELSE e[q]] \in Entries
<1> PICK s \in SUBSET Paths : e \in [s -> Entry]
  BY DEF Entries
<1>1. DOMAIN e = s
  OBVIOUS
<1>2. [q \in s \cup {p} |-> IF q = p THEN x ELSE e[q]] \in [s \cup {p} -> Entry]
  OBVIOUS
<1>3. s \cup {p} \in SUBSET Paths
  OBVIOUS
<1> QED
  BY <1>1, <1>2, <1>3 DEF Entries

LEMMA EmptyIdentity == Nothing \in Identity
<1>1. NoEntries \in [{} -> Entry] /\ {} \in SUBSET Paths
  BY DEF NoEntries
<1>2. NoEntries \in Entries
  BY <1>1 DEF Entries
<1> QED
  BY <1>2, WorldAssumption DEF Nothing, Identity, PathStatus, Clean

\* The value of every facet is of its type.
LEMMA FacetTyped ==
  ASSUME TypeWorld, NEW f \in Facets
  PROVE  Now(f) \in FacetValues[f[2]]
  BY PathAssumption DEF TypeWorld, Facets, Now, FacetValues

LEMMA TypesInitially == Init => TypeProgram /\ TypeWorld /\ TypeHistory /\ InvReading
<1> SUFFICES ASSUME Init PROVE TypeProgram /\ TypeWorld /\ TypeHistory /\ InvReading
  OBVIOUS
<1>1. TypeProgram
  BY EmptyIdentity DEF Init, TypeProgram, Stages, Reading
<1>2. TypeWorld
  <2> PICK w \in Worlds :
        /\ kind = w.kind /\ data = w.data /\ mode = w.mode
        /\ index = w.index /\ head = w.head /\ trees = w.trees /\ ref = w.ref
    BY DEF Init
  <2> w \in World
    BY WorldAssumption
  <2> QED
    BY DEF World, TypeWorld
<1>3. TypeHistory
  <2>1. \A f \in Facets : past[f] = {Now(f)}
    BY DEF Init
  <2>2. \A f \in Facets : Now(f) \in FacetValues[f[2]]
    BY <1>2, FacetTyped
  <2>3. DOMAIN past = Facets
    BY DEF Init
  <2>4. \A f \in Facets : past[f] \subseteq FacetValues[f[2]]
    BY <2>1, <2>2
  <2>5. edits = 0 /\ drifted = {} /\ {restored, followed, quiet} \subseteq BOOLEAN
    BY DEF Init
  <2> QED
    BY <2>3, <2>4, <2>5, EditAssumption DEF TypeHistory
<1>4. InvReading
  BY DEF Init, InvReading
<1> QED
  BY <1>1, <1>2, <1>3, <1>4

-----------------------------------------------------------------------------
(* Steps of the program: what identify_source and the run do.              *)

USE DEF Goto, Fail, vars, program, collected, outcome, worktree, repository
USE DEF world, history, Clean

\* What git reports is of the type its place in the identity has.
LEMMA ReportsTyped ==
  ASSUME TypeWorld
  PROVE  /\ Status \in [Paths -> PathStatus]
         /\ workspace_files \subseteq Paths /\ DiffHead \subseteq Paths
         /\ DiffCached \subseteq Paths /\ Others \subseteq Paths
BY DEF Status, PathStatus, workspace_files, Cached, Others, DiffHead, DiffCached

Collecting ==
  ReadHead \/ ReadRef \/ ReadStatus \/ ReadDiff \/ ReadDiffCached \/ ReadOthers

\* A command that reports keeps the types, whatever it reports.
LEMMA ReportTyped ==
  ASSUME TypeProgram, InvReading, NEW at \in Stages, NEW next \in Stages, NEW id \in Identity,
         Report(at, next, id), {at, next} \cap {"read", "submodule_status", "failed"} = {}
  PROVE  TypeProgram' /\ InvReading'
BY DEF TypeProgram, InvReading, Report, Stages

LEMMA CollectingTyped ==
  ASSUME TypeProgram, TypeWorld, InvReading, Collecting
  PROVE  TypeProgram' /\ InvReading'
<1>1. CASE ReadHead
  <2> [partial EXCEPT !.commit = head] \in Identity
    BY DEF TypeProgram, TypeWorld, Identity
  <2> QED
    BY <1>1, ReportTyped DEF ReadHead, Stages
<1>2. CASE ReadRef
  <2> [partial EXCEPT !.ref = ref] \in Identity
    BY DEF TypeProgram, TypeWorld, Identity
  <2> QED
    BY <1>2, ReportTyped DEF ReadRef, Stages
<1>3. CASE ReadStatus
  <2> [partial EXCEPT !.status = Status] \in Identity
    BY ReportsTyped DEF TypeProgram, Identity
  <2> QED
    BY <1>3, ReportTyped DEF ReadStatus, Stages
<1>4. CASE ReadDiff
  <2> /\ [partial EXCEPT !.changed = workspace_files] \in Identity
      /\ [partial EXCEPT !.changed = DiffHead] \in Identity
    BY ReportsTyped DEF TypeProgram, Identity
  <2> QED
    BY <1>4, ReportTyped DEF ReadDiff, Stages
<1>5. CASE ReadDiffCached
  <2> [partial EXCEPT !.changed = @ \cup DiffCached] \in Identity
    BY ReportsTyped DEF TypeProgram, Identity
  <2> QED
    BY <1>5, ReportTyped DEF ReadDiffCached, Stages
<1>6. CASE ReadOthers
  <2> [partial EXCEPT !.changed = @ \cup Others] \in Identity
    BY ReportsTyped DEF TypeProgram, Identity
  <2> QED
    BY <1>6, ReportTyped DEF ReadOthers, Stages
<1> QED
  BY <1>1, <1>2, <1>3, <1>4, <1>5, <1>6 DEF Collecting

\* What AddEntry leaves alone.
LEMMA EntryAdded ==
  ASSUME TypeProgram, NEW d, NEW m, AddEntry(d, m)
  PROVE  /\ partial'.commit = partial.commit /\ partial'.ref = partial.ref
         /\ partial'.status = partial.status /\ partial'.changed = partial.changed
BY DEF AddEntry, TypeProgram, Identity

\* An entry that was read is added with its type.
LEMMA AddEntryTyped ==
  ASSUME TypeProgram, reading.path \in Paths, reading.is \in Kinds,
         NEW d \in Data, NEW m \in BOOLEAN, AddEntry(d, m)
  PROVE  partial' \in Identity /\ reading' = NoReading
<1> DEFINE x == [is |-> reading.is, data |-> d, mode |-> m]
           e == [q \in DOMAIN partial.entries \cup {reading.path} |->
                   IF q = reading.path THEN x ELSE partial.entries[q]]
           t == partial.stream \o Piece(reading.path, x)
<1>1. x \in Entry
  BY DEF Entry
<1>2. partial.entries \in Entries /\ partial.stream \in Seq(Tokens)
  BY DEF TypeProgram, Identity
<1>3. e \in Entries
  BY <1>1, <1>2, AddedEntries
<1>4. t \in Seq(Tokens)
  <2> Piece(reading.path, x) \in Seq(Tokens)
    BY <1>1, PieceBegins
  <2> QED
    BY <1>2
<1>5. partial' = [partial EXCEPT !.stream = t, !.entries = e] /\ reading' = NoReading
  BY DEF AddEntry
<1> HIDE DEF e, t
<1> QED
  BY <1>3, <1>4, <1>5 DEF TypeProgram, Identity

LEMMA ReadingTyped ==
  ASSUME TypeProgram, TypeWorld, InvReading,
         List \/ Inspect \/ ReadEntry \/ ReadSubmodule \/ ReadSubmoduleStatus
  PROVE  TypeProgram' /\ InvReading'
<1>1. CASE List
  BY <1>1, ReportsTyped DEF List, TypeProgram, InvReading, Stages
<1>2. CASE Inspect
  <2>1. stage = "hash" /\ UNCHANGED <<partial, outcome, state_dir, world, history, round>>
    BY <1>2 DEF Inspect
  <2>2. PICK p \in todo :
      \/ /\ kind[p] # None
         /\ Goto("read")
         /\ todo' = todo \ {p}
         /\ reading' = [path |-> p, is |-> kind[p], mode |-> kind[p] = "file" /\ mode[p]]
      \/ kind[p] = None /\ Fail("missing") /\ UNCHANGED <<todo, reading>>
      \/ Fail("io") /\ UNCHANGED <<todo, reading>>
    BY <1>2 DEF Inspect
  <2>3. p \in Paths /\ kind[p] \in Kinds \cup {None} /\ mode[p] \in BOOLEAN
    BY <2>2 DEF TypeProgram, TypeWorld
  <2>4. CASE /\ kind[p] # None
             /\ Goto("read")
             /\ todo' = todo \ {p}
             /\ reading' = [path |-> p, is |-> kind[p], mode |-> kind[p] = "file" /\ mode[p]]
    <3>1. reading' \in [path : Paths, is : Kinds, mode : BOOLEAN]
      BY <2>3, <2>4
    <3> QED
      BY <2>1, <2>4, <3>1 DEF TypeProgram, InvReading, Stages, Reading
  <2>5. CASE ~Goto("read")
    BY <2>1, <2>2, <2>5 DEF TypeProgram, InvReading, Stages
  <2> QED
    BY <2>2, <2>4, <2>5
<1>3. CASE ReadEntry
  <2>1. /\ reading.path \in Paths /\ reading.is \in Kinds /\ reading.mode \in BOOLEAN
        /\ data[reading.path] \in Data
    BY <1>3 DEF ReadEntry, InvReading, TypeWorld
  <2>2. CASE Goto("hash")
    <3> PICK d \in Data : AddEntry(d, reading.mode)
      BY <1>3, <2>1, <2>2 DEF ReadEntry
    <3>1. partial' \in Identity /\ reading' = NoReading
      BY <2>1, AddEntryTyped
    <3> QED
      BY <1>3, <2>2, <3>1 DEF ReadEntry, TypeProgram, InvReading, Stages, Reading
  <2> QED
    BY <1>3, <2>2 DEF ReadEntry, TypeProgram, InvReading, Stages
<1>4. CASE ReadSubmodule
  <2>1. reading.path \in Paths /\ data[reading.path] \in Data
    BY <1>4 DEF ReadSubmodule, InvReading, TypeWorld
  <2>2. CASE Goto("submodule_status")
    <3>1. reading' = [path |-> reading.path, is |-> "submodule", data |-> data[reading.path]]
      BY <1>4, <2>2 DEF ReadSubmodule
    <3>2. reading' \in [path : Paths, is : {"submodule"}, data : Data]
      BY <2>1, <3>1
    <3> QED
      BY <1>4, <2>2, <3>2 DEF ReadSubmodule, TypeProgram, InvReading, Stages, Reading
  <2> QED
    BY <1>4, <2>2 DEF ReadSubmodule, TypeProgram, InvReading, Stages
<1>5. CASE ReadSubmoduleStatus
  <2>1. /\ reading.path \in Paths /\ reading.is = "submodule" /\ reading.data \in Data
        /\ mode[reading.path] \in BOOLEAN
    BY <1>5 DEF ReadSubmoduleStatus, InvReading, TypeWorld
  <2>2. CASE Goto("hash")
    <3> AddEntry(reading.data, mode[reading.path])
      BY <1>5, <2>2 DEF ReadSubmoduleStatus
    <3>1. partial' \in Identity /\ reading' = NoReading
      BY <2>1, AddEntryTyped DEF Kinds
    <3> QED
      BY <1>5, <2>2, <3>1 DEF ReadSubmoduleStatus, TypeProgram, InvReading, Stages, Reading
  <2> QED
    BY <1>5, <2>2 DEF ReadSubmoduleStatus, TypeProgram, InvReading, Stages
<1> QED
  BY <1>1, <1>2, <1>3, <1>4, <1>5

LEMMA RunTyped ==
  ASSUME TypeProgram, TypeWorld, InvReading,
         Identified \/ Discover \/ IdentifyAgain \/ IdentifiedAgain
  PROVE  TypeProgram' /\ InvReading'
<1>1. CASE Identified
  BY <1>1 DEF Identified, TypeProgram, InvReading, Stages
<1>2. CASE Discover
  <2> <<kind[Manifest], data[Manifest]>> \in (Kinds \cup {None}) \X Data
    BY PathAssumption DEF TypeWorld
  <2> discovered' \subseteq (Kinds \cup {None}) \X Data
    BY <1>2 DEF Discover, TypeProgram
  <2> QED
    BY <1>2 DEF Discover, TypeProgram, InvReading, Stages
<1>3. CASE IdentifyAgain
  BY <1>3, EmptyIdentity DEF IdentifyAgain, TypeProgram, InvReading, Stages
<1>4. CASE IdentifiedAgain
  BY <1>4 DEF IdentifiedAgain, TypeProgram, InvReading, Stages
<1> QED
  BY <1>1, <1>2, <1>3, <1>4

-----------------------------------------------------------------------------
(* Steps of the world.                                                      *)

Entering == Identified \/ Discover \/ IdentifyAgain \/ IdentifiedAgain
Hashing == List \/ Inspect \/ ReadEntry \/ ReadSubmodule \/ ReadSubmoduleStatus
Disturbing == StoreWrites \/ Edit

\* A step of the program leaves the world alone, a disturbance the program.
LEMMA WorldStays ==
  ASSUME Collecting \/ Hashing \/ Entering
  PROVE  UNCHANGED world /\ UNCHANGED <<edits, past, restored>> /\ UNCHANGED state_dir
<1>1. CASE Collecting
  BY <1>1 DEF Collecting, ReadHead, ReadRef, ReadStatus, ReadDiff, ReadDiffCached,
              ReadOthers, Report
<1>2. CASE Hashing
  BY <1>2 DEF Hashing, List, Inspect, ReadEntry, ReadSubmodule, ReadSubmoduleStatus
<1>3. CASE Entering
  BY <1>3 DEF Entering, Identified, Discover, IdentifyAgain, IdentifiedAgain
<1> QED
  BY <1>1, <1>2, <1>3

LEMMA ProgramStays ==
  ASSUME Disturbing
  PROVE  UNCHANGED <<program, collected, outcome, state_dir, followed>> /\ Trace
BY DEF Disturbing, StoreWrites, Edit

LEMMA PutTyped ==
  ASSUME TypeWorld, NEW p \in Paths, NEW k \in Kinds \cup {None}, NEW d \in Data,
         NEW m \in BOOLEAN, Put(p, k, d, m)
  PROVE  TypeWorld'
BY DEF TypeWorld, Put

LEMMA DisturbingTyped ==
  ASSUME TypeProgram, TypeWorld, Disturbing
  PROVE  TypeWorld'
<1>1. CASE StoreWrites
  <2>1. state_dir \in Paths /\ mode[state_dir] \in BOOLEAN
    BY <1>1, PathAssumption DEF StoreWrites, TypeProgram, TypeWorld
  <2>2. PICK d \in Data : Put(state_dir, "file", d, mode[state_dir])
    BY <1>1 DEF StoreWrites
  <2> QED
    BY <2>1, <2>2, PutTyped DEF Kinds
<1>2. CASE EditWorktree
  BY <1>2, PutTyped DEF EditWorktree
<1>3. CASE Stage
  <2> PICK p \in Paths : index' \in {[index EXCEPT ![p] = e] : e \in {Added(p), NoEntry}}
    BY <1>3 DEF Stage
  <2> Added(p) \in Entry \cup {NoEntry}
    BY DEF Added, Seen, Entry, TypeWorld
  <2> index' \in Tree
    BY DEF Tree, TypeWorld
  <2> QED
    BY <1>3 DEF Stage, TypeWorld
<1>4. CASE MoveHead
  BY <1>4 DEF MoveHead, TypeWorld
<1>5. CASE Switch
  BY <1>5 DEF Switch, TypeWorld
<1> QED
  BY <1>1, <1>2, <1>3, <1>4, <1>5 DEF Disturbing, Edit

LEMMA HistoryTyped ==
  ASSUME TypeProgram, TypeWorld, TypeHistory, TypeWorld', Next
  PROVE  TypeHistory'
<1>1. CASE Disturbing
  <2>1. past' = [f \in Facets |-> past[f] \cup {Now(f)'}]
    BY <1>1, ProgramStays DEF Trace
  <2>2. \A f \in Facets : Now(f)' \in FacetValues[f[2]]
    BY PathAssumption DEF TypeWorld, Facets, Now, FacetValues
  <2>3. \A f \in Facets : past'[f] \subseteq FacetValues[f[2]]
    BY <2>1, <2>2 DEF TypeHistory
  <2>4. DOMAIN past' = Facets
    BY <2>1
  <2>5. restored' \in BOOLEAN /\ drifted' \subseteq Facets
    <3>1. restored' \in BOOLEAN
      BY <1>1, ProgramStays DEF Trace
    <3>2. Deviating(source)' \subseteq Facets
      BY DEF Deviating, FacetsOf
    <3> QED
      BY <1>1, <3>1, <3>2, ProgramStays DEF Trace, TypeHistory
  <2>6. edits' \in 0..MaxEdits /\ quiet' \in BOOLEAN /\ followed' \in BOOLEAN
    <3>1. CASE StoreWrites
      BY <3>1 DEF StoreWrites, TypeHistory
    <3>2. CASE Edit
      <4>1. /\ edits < MaxEdits /\ edits' = edits + 1
            /\ quiet' = FALSE /\ UNCHANGED followed
        BY <3>2 DEF Edit
      <4>2. edits \in 0..MaxEdits /\ followed \in BOOLEAN
        BY DEF TypeHistory
      <4>3. edits' \in 0..MaxEdits
        BY <4>1, <4>2, EditAssumption
      <4> QED
        BY <4>1, <4>2, <4>3
    <3> QED
      BY <1>1, <3>1, <3>2 DEF Disturbing
  <2> QED
    BY <2>3, <2>4, <2>5, <2>6 DEF TypeHistory
<1>2. CASE Collecting \/ Hashing \/ Entering
  <2>1. UNCHANGED <<edits, past, restored>>
    BY <1>2, WorldStays
  <2>2. followed' \in BOOLEAN /\ quiet' \in BOOLEAN /\ drifted' \subseteq Facets
    <3>1. CASE Collecting
      BY <3>1 DEF Collecting, ReadHead, ReadRef, ReadStatus, ReadDiff, ReadDiffCached,
                  ReadOthers, Report, TypeHistory
    <3>2. CASE Hashing
      BY <3>2 DEF Hashing, List, Inspect, ReadEntry, ReadSubmodule, ReadSubmoduleStatus,
                  TypeHistory
    <3>3. CASE Entering
      BY <3>3 DEF Entering, Identified, Discover, IdentifyAgain, IdentifiedAgain,
                  TypeHistory, Deviating, FacetsOf
    <3> QED
      BY <1>2, <3>1, <3>2, <3>3
  <2> QED
    BY <2>1, <2>2 DEF TypeHistory
<1>3. CASE Ended
  BY <1>3 DEF Ended, TypeHistory
<1> QED
  BY <1>1, <1>2, <1>3 DEF Next, Collect, Collecting, Hashing, Entering, Disturbing

\* TypeOK in its three parts, and what is being read.
Types == TypeProgram /\ TypeWorld /\ TypeHistory /\ InvReading

LEMMA TypesKept == Types /\ [Next]_vars => Types'
<1> SUFFICES ASSUME Types, [Next]_vars PROVE Types'
  OBVIOUS
<1> USE DEF Types
<1>1. CASE Collecting \/ Hashing \/ Entering
  <2>1. TypeWorld'
    BY <1>1, WorldStays DEF TypeWorld
  <2>2. TypeHistory'
    BY <1>1, <2>1, HistoryTyped DEF Next, Collect, Collecting, Hashing, Entering
  <2> QED
    BY <1>1, <2>1, <2>2, CollectingTyped, ReadingTyped, RunTyped DEF Hashing, Entering
<1>2. CASE Disturbing
  <2>1. TypeWorld'
    BY <1>2, DisturbingTyped
  <2>2. TypeHistory'
    BY <1>2, <2>1, HistoryTyped DEF Next, Disturbing
  <2>3. TypeProgram' /\ InvReading'
    BY <1>2, ProgramStays DEF TypeProgram, InvReading
  <2> QED
    BY <2>1, <2>2, <2>3
<1>3. CASE UNCHANGED vars
  BY <1>3 DEF TypeProgram, TypeWorld, TypeHistory, InvReading
<1> QED
  BY <1>1, <1>2, <1>3
     DEF Next, Collect, Collecting, Hashing, Entering, Disturbing, Ended

\* Every variable keeps its type.
THEOREM TypeCorrect == Spec => []TypeOK
<1>1. Init => Types
  BY TypesInitially DEF Types
<1>2. Types => TypeOK
  BY DEF Types, TypeProgram, TypeWorld, TypeHistory, TypeOK
<1> QED
  BY <1>1, <1>2, TypesKept, PTL DEF Spec

-----------------------------------------------------------------------------
(* Two collections of one source.                                           *)

\* The value v was read of the facet f in this identification: f had it, and in
\* the second round has not drifted if it is the value of the first.
Sound(f, v) ==
  ~followed =>
    /\ v \in past[f]
    /\ round = 2 /\ ~restored /\ f \in drifted => v # In(source, f)

Early == {"head", "ref", "status", "diff", "diff_cached", "others", "list"}
Opened == {"hash", "read", "submodule_status"}
Commit == <<NoPath, "head">>
Ref == <<NoPath, "ref">>

\* Nothing is hashed before the files are listed.
InvEntries == stage \in Early => DOMAIN partial.entries = {}

\* What is hashed is the stream of the entries, which come in the listed order.
InvStreams ==
  /\ IsStream(partial.stream, partial.entries) /\ IsStream(source.stream, source.entries)
  /\ stage \in Opened =>
       \A p \in DOMAIN partial.entries, q \in todo : Rank[p] < Rank[q]
  /\ stage \in {"read", "submodule_status"} =>
       /\ \A p \in DOMAIN partial.entries : Rank[p] < Rank[reading.path]
       /\ \A q \in todo : Rank[reading.path] < Rank[q]

\* The present is part of the past.
InvPast == \A f \in Facets : Now(f) \in past[f]

\* What has been collected so far was read while it was so.
SoundHead == stage \notin {"head", "failed"} => Sound(Commit, partial.commit)
SoundRef == stage \notin {"head", "ref", "failed"} => Sound(Ref, partial.ref)
SoundEntries ==
  stage # "failed" =>
    \A p \in DOMAIN partial.entries :
      /\ Sound(<<p, "kind">>, partial.entries[p].is)
      /\ Sound(<<p, "data">>, partial.entries[p].data)
      /\ partial.entries[p].is # "symlink" => Sound(<<p, "mode">>, partial.entries[p].mode)
SoundAbsent ==
  stage \notin Early \cup {"failed"} =>
    \A p \in Paths \ Ignored :
      p \notin todo /\ p \notin DOMAIN partial.entries /\ p # reading.path
        => Sound(<<p, "kind">>, None)
SoundReading ==
  stage = "read" =>
    /\ Sound(<<reading.path, "kind">>, reading.is)
    /\ reading.is = "file" => Sound(<<reading.path, "mode">>, reading.mode)
SoundSubmodule ==
  stage = "submodule_status" =>
    /\ Sound(<<reading.path, "kind">>, "submodule")
    /\ Sound(<<reading.path, "data">>, reading.data)

InvCollected ==
  SoundHead /\ SoundRef /\ SoundEntries /\ SoundAbsent /\ SoundReading /\ SoundSubmodule

HasSource == stage \in {"discover", "checks"} \/ round = 2

\* Between the collections the facets that drift are known, and unless they
\* are put back they stay different.
InvDrift ==
  /\ HasSource /\ ~followed => \A f \in FacetsOf(source) : In(source, f) \in past[f]
  /\ HasSource /\ ~followed /\ ~restored => drifted \subseteq Deviating(source)
  /\ stage \in {"discover", "checks"} => Deviating(source) \subseteq drifted

\* Discovery read the identified manifest, or it has drifted.
InvDiscovered ==
  HasSource =>
    \A seen \in discovered :
      /\ Manifest \in Covered(source) =>
           seen[1] = KindIn(source, Manifest) \/ <<Manifest, "kind">> \in drifted
      /\ Manifest \in DOMAIN source.entries =>
           seen[2] = source.entries[Manifest].data \/ <<Manifest, "data">> \in drifted

InvRun ==
  /\ ~HasSource => discovered = {}
  /\ stage \in {"discover", "checks"} => round = 1
  /\ stage = "done" => round = 2
  /\ stage = "hash" /\ round = 1 => ~HasSource

IInv ==
  /\ Types /\ InvEntries /\ InvStreams /\ InvPast /\ InvCollected /\ InvDrift /\ InvDiscovered
  /\ InvRun /\ UnchangedIsSteady

\* What is so now is sound.
LEMMA NowIsSound ==
  ASSUME Types, InvPast, InvDrift, NEW f \in Facets
  PROVE  Sound(f, Now(f))
BY DEF Sound, InvPast, InvDrift, HasSource, Deviating

\* What was sound stays so in this identification.
LEMMA SoundStays ==
  ASSUME Types, NEW f \in Facets, NEW v, Sound(f, v), past[f] \subseteq past'[f],
         followed => followed', restored => restored', UNCHANGED round,
         round = 2 => UNCHANGED <<source, drifted>>
  PROVE  Sound(f, v)'
BY DEF Sound, In, KindIn

LEMMA FacetOfPath ==
  /\ Commit \in Facets /\ Ref \in Facets
  /\ \A p \in Paths, n \in {"kind", "data", "mode"} : <<p, n>> \in Facets
BY DEF Facets, Commit, Ref

LEMMA NowOfPath ==
  /\ Now(Commit) = head /\ Now(Ref) = ref
  /\ \A p \in Paths : /\ Now(<<p, "kind">>) = kind[p]
                       /\ Now(<<p, "data">>) = data[p]
                       /\ Now(<<p, "mode">>) = mode[p]
BY DEF Now, Commit, Ref

LEMMA EntriesOfPaths ==
  ASSUME TypeProgram
  PROVE  DOMAIN partial.entries \subseteq Paths /\ DOMAIN source.entries \subseteq Paths
BY DEF TypeProgram, Identity, Entries

-----------------------------------------------------------------------------
(* The collection, step by step.                                            *)

\* Whatever happens in the world, what has been collected stays sound.
LEMMA CollectedStays ==
  ASSUME Types, InvCollected, \A f \in Facets : past[f] \subseteq past'[f],
         followed => followed', restored => restored',
         round = 2 => UNCHANGED <<source, drifted>>,
         UNCHANGED <<round, partial, todo, reading>>,
         stage' = stage \/ {stage, stage'} \subseteq {"hash", "discover", "checks", "done"}
  PROVE  InvCollected'
<1>1. \A f \in Facets : \A v : Sound(f, v) => Sound(f, v)'
  BY SoundStays
<1>2. DOMAIN partial.entries \subseteq Paths
  BY EntriesOfPaths DEF Types
<1>3. stage \in {"read", "submodule_status"} => reading.path \in Paths
  BY DEF Types, InvReading
<1> HIDE DEF Types
<1>4. SoundHead' /\ SoundRef'
  BY <1>1, FacetOfPath DEF InvCollected, SoundHead, SoundRef
<1>5. SoundEntries'
  BY <1>1, <1>2, FacetOfPath DEF InvCollected, SoundEntries
<1>6. SoundAbsent'
  BY <1>1, FacetOfPath DEF InvCollected, SoundAbsent, Early
<1>7. SoundReading' /\ SoundSubmodule'
  BY <1>1, <1>3, FacetOfPath DEF InvCollected, SoundReading, SoundSubmodule
<1> QED
  BY <1>4, <1>5, <1>6, <1>7 DEF InvCollected

\* What a command that reports changes.
LEMMA CommandStep ==
  ASSUME TypeProgram, Collecting
  PROVE  /\ UNCHANGED <<todo, reading, round, outcome, world, history>>
         /\ stage \in Early /\ stage' \in (Early \ {"head"}) \cup {"failed"}
         /\ partial'.entries = partial.entries /\ partial'.stream = partial.stream
         /\ stage' # "failed" =>
              /\ partial'.commit = IF stage = "head" THEN head ELSE partial.commit
              /\ stage # "head" =>
                   stage' # "ref" /\ partial'.ref = IF stage = "ref" THEN ref ELSE partial.ref
BY DEF Collecting, ReadHead, ReadRef, ReadStatus, ReadDiff, ReadDiffCached, ReadOthers,
       Report, TypeProgram, Identity, Early

LEMMA CommandCollects ==
  ASSUME Types, InvEntries, InvPast, InvDrift, InvCollected, Collecting
  PROVE  InvCollected'
<1>1. \A f \in Facets : \A v : Sound(f, v) => Sound(f, v)'
  BY CommandStep, SoundStays DEF Types
<1>2. Sound(Commit, head) /\ Sound(Ref, ref)
  BY NowIsSound, NowOfPath, FacetOfPath
<1>3. ASSUME stage' # "failed" PROVE Sound(Commit, partial.commit)'
  <2>1. PICK c : c = partial'.commit
    OBVIOUS
  <2>2. c = IF stage = "head" THEN head ELSE partial.commit
    BY <1>3, <2>1, CommandStep DEF Types
  <2>3. Sound(Commit, c)
    BY <1>2, <2>2, CommandStep DEF Types, InvCollected, SoundHead, Early
  <2>4. Sound(Commit, c)'
    BY <1>1, <2>3, FacetOfPath
  <2> QED
    BY <2>1, <2>4
<1>6. ASSUME stage' \notin {"ref", "failed"} PROVE Sound(Ref, partial.ref)'
  <2>1. PICK r : r = partial'.ref
    OBVIOUS
  <2>0. stage # "head"
    BY <1>6 DEF Collecting, ReadHead, ReadRef, ReadStatus, ReadDiff, ReadDiffCached,
                ReadOthers, Report
  <2>2. r = IF stage = "ref" THEN ref ELSE partial.ref
    BY <1>6, <2>0, <2>1, CommandStep DEF Types
  <2>3. Sound(Ref, r)
    BY <1>2, <2>0, <2>2, CommandStep DEF Types, InvCollected, SoundRef, Early
  <2>4. Sound(Ref, r)'
    BY <1>1, <2>3, FacetOfPath
  <2> QED
    BY <2>1, <2>4
<1>4. SoundEntries'
  BY CommandStep DEF Types, InvEntries, SoundEntries
<1>5. SoundAbsent' /\ SoundReading' /\ SoundSubmodule'
  BY CommandStep DEF Types, Early, SoundAbsent, SoundReading, SoundSubmodule
<1> QED
  BY <1>3, <1>4, <1>5, <1>6 DEF InvCollected, SoundHead, SoundRef

\* A step between two readings: what was sound stays, head and ref among it.
LEMMA HashingStays ==
  ASSUME Types, InvCollected, Hashing
  PROVE  /\ \A f \in Facets : \A v : Sound(f, v) => Sound(f, v)'
         /\ SoundHead' /\ SoundRef'
<1>1. /\ UNCHANGED <<past, restored, round, source, drifted>>
      /\ followed => followed'
      /\ stage \notin {"head", "ref", "failed"}
      /\ stage' # "failed" => partial'.commit = partial.commit /\ partial'.ref = partial.ref
  <2>1. \A d, m : AddEntry(d, m) => partial'.commit = partial.commit /\ partial'.ref = partial.ref
    BY EntryAdded DEF Types
  <2> QED
    BY <2>1 DEF Hashing, List, Inspect, ReadEntry, ReadSubmodule, ReadSubmoduleStatus
<1>2. \A f \in Facets : \A v : Sound(f, v) => Sound(f, v)'
  BY <1>1, SoundStays
<1> QED
  BY <1>1, <1>2, FacetOfPath DEF InvCollected, SoundHead, SoundRef

LEMMA ListCollects ==
  ASSUME Types, InvEntries, InvPast, InvDrift, InvCollected, List
  PROVE  InvCollected'
<1>1. SoundHead' /\ SoundRef'
  BY HashingStays DEF Hashing
<1>2. DOMAIN partial.entries = {} /\ stage' \in {"hash", "failed"} /\ UNCHANGED partial
  BY DEF List, InvEntries, Early
<1>3. SoundEntries' /\ SoundReading' /\ SoundSubmodule'
  BY <1>2 DEF SoundEntries, SoundReading, SoundSubmodule
<1>4. SoundAbsent'
  <2>1. SUFFICES ASSUME stage' = "hash", NEW p \in Paths \ Ignored, p \notin workspace_files
                 PROVE  Sound(<<p, "kind">>, None)'
    BY <1>2 DEF List, SoundAbsent, Early
  <2>2. kind[p] = None
    BY <2>1 DEF workspace_files, Cached, Others
  <2>3. Sound(<<p, "kind">>, None)
    BY <2>2, NowIsSound, NowOfPath, FacetOfPath
  <2> QED
    BY <2>3, HashingStays, FacetOfPath DEF Hashing
<1> QED
  BY <1>1, <1>3, <1>4 DEF InvCollected

LEMMA InspectCollects ==
  ASSUME Types, InvPast, InvDrift, InvCollected, Inspect
  PROVE  InvCollected'
<1>1. /\ SoundHead' /\ SoundRef'
      /\ \A f \in Facets : \A v : Sound(f, v) => Sound(f, v)'
  BY HashingStays DEF Hashing
<1>2. stage = "hash" /\ UNCHANGED partial /\ stage' \in {"read", "failed"}
  BY DEF Inspect
<1>3. SoundEntries'
  BY <1>1, <1>2, FacetOfPath, EntriesOfPaths DEF InvCollected, SoundEntries, Types
<1>4. CASE stage' = "failed"
  BY <1>1, <1>3, <1>4 DEF InvCollected, SoundAbsent, SoundReading, SoundSubmodule
<1>5. CASE stage' = "read"
  <2>1. PICK p \in todo :
          /\ kind[p] # None
          /\ todo' = todo \ {p}
          /\ reading' = [path |-> p, is |-> kind[p], mode |-> kind[p] = "file" /\ mode[p]]
    BY <1>5 DEF Inspect
  <2>2. p \in Paths
    BY <2>1 DEF Types, TypeProgram
  <2>3. PICK k, m : k = kind[p] /\ m = mode[p]
    OBVIOUS
  <2>4. Sound(<<p, "kind">>, k) /\ Sound(<<p, "mode">>, m)
    BY <2>2, <2>3, NowIsSound, NowOfPath, FacetOfPath
  <2>5. Sound(<<p, "kind">>, k)' /\ Sound(<<p, "mode">>, m)'
    BY <1>1, <2>2, <2>4, FacetOfPath
  <2>6. SoundReading'
    <3>1. reading'.path = p /\ reading'.is = k
      BY <2>1, <2>3
    <3>2. reading'.is = "file" => reading'.mode = m
      BY <2>1, <2>2, <2>3 DEF Types, TypeWorld
    <3> QED
      BY <2>5, <3>1, <3>2 DEF SoundReading
  <2>7. reading.path = NoPath
    BY <1>2 DEF Types, InvReading, NoReading
  <2>8. SoundAbsent'
    BY <1>1, <1>2, <2>1, <2>7, FacetOfPath, PathAssumption
       DEF SoundAbsent, InvCollected, Early, Types, TypeProgram
  <2> QED
    BY <1>1, <1>3, <1>5, <2>6, <2>8 DEF InvCollected, SoundSubmodule
<1> QED
  BY <1>2, <1>4, <1>5

\* An entry that was read soundly is a sound entry.
LEMMA AddingCollects ==
  ASSUME Types, InvCollected, Hashing, stage \in {"read", "submodule_status"},
         stage' = "hash", UNCHANGED todo, NEW d, NEW m, AddEntry(d, m),
         NEW path, NEW k, path = reading.path, k = reading.is,
         Sound(<<path, "kind">>, k), Sound(<<path, "data">>, d),
         k # "symlink" => Sound(<<path, "mode">>, m), path \in Paths
  PROVE  InvCollected'
<1>1. /\ SoundHead' /\ SoundRef'
      /\ \A f \in Facets : \A v : Sound(f, v) => Sound(f, v)'
  BY HashingStays
<1> DEFINE e == [q \in DOMAIN partial.entries \cup {path} |->
                   IF q = path THEN [is |-> k, data |-> d, mode |-> m]
                   ELSE partial.entries[q]]
<1>2. partial'.entries = e /\ reading' = NoReading
  BY DEF AddEntry, Types, TypeProgram, Identity
<1>3. DOMAIN e = DOMAIN partial.entries \cup {path}
  OBVIOUS
<1>4. e[path] = [is |-> k, data |-> d, mode |-> m]
  OBVIOUS
<1>5. \A q \in DOMAIN partial.entries : q # path => e[q] = partial.entries[q]
  OBVIOUS
<1>6. \A p \in DOMAIN e :
        /\ Sound(<<p, "kind">>, e[p].is) /\ Sound(<<p, "data">>, e[p].data)
        /\ e[p].is # "symlink" => Sound(<<p, "mode">>, e[p].mode)
  <2> SUFFICES ASSUME NEW p \in DOMAIN e
               PROVE  /\ Sound(<<p, "kind">>, e[p].is) /\ Sound(<<p, "data">>, e[p].data)
                      /\ e[p].is # "symlink" => Sound(<<p, "mode">>, e[p].mode)
    OBVIOUS
  <2> HIDE DEF e
  <2>1. CASE p = path
    BY <1>4, <2>1
  <2>2. CASE p # path
    BY <1>3, <1>5, <2>2 DEF InvCollected, SoundEntries
  <2> QED
    BY <2>1, <2>2
<1> HIDE DEF e
<1>7. SoundEntries'
  <2>1. SUFFICES ASSUME NEW p \in DOMAIN partial'.entries
                 PROVE  /\ Sound(<<p, "kind">>, partial.entries[p].is)'
                        /\ Sound(<<p, "data">>, partial.entries[p].data)'
                        /\ partial'.entries[p].is # "symlink" =>
                             Sound(<<p, "mode">>, partial.entries[p].mode)'
    BY DEF SoundEntries
  <2>2. PICK x : x = partial'.entries[p]
    OBVIOUS
  <2>3. /\ Sound(<<p, "kind">>, x.is) /\ Sound(<<p, "data">>, x.data)
        /\ x.is # "symlink" => Sound(<<p, "mode">>, x.mode)
    BY <1>2, <1>6, <2>2
  <2>4. p \in Paths
    BY <1>2, <1>3, EntriesOfPaths DEF Types
  <2>5. /\ Sound(<<p, "kind">>, x.is)' /\ Sound(<<p, "data">>, x.data)'
        /\ x.is # "symlink" => Sound(<<p, "mode">>, x.mode)'
    BY <1>1, <2>3, <2>4, FacetOfPath
  <2> QED
    BY <2>2, <2>5
<1>8. SoundAbsent'
  BY <1>1, <1>2, <1>3, FacetOfPath DEF InvCollected, SoundAbsent, Early
<1> QED
  BY <1>1, <1>7, <1>8 DEF InvCollected, SoundReading, SoundSubmodule

LEMMA ReadCollects ==
  ASSUME Types, InvPast, InvDrift, InvCollected,
         ReadEntry \/ ReadSubmodule \/ ReadSubmoduleStatus
  PROVE  InvCollected'
<1>1. CASE stage' = "failed"
  BY <1>1 DEF InvCollected, SoundHead, SoundRef, SoundEntries, SoundAbsent, SoundReading,
              SoundSubmodule
<1>2. PICK path, k : path = reading.path /\ k = reading.is
  OBVIOUS
<1>3. \A f \in Facets : Sound(f, Now(f))
  BY NowIsSound
<1>4. CASE ReadEntry /\ followed'
  BY <1>4 DEF ReadEntry, InvCollected, SoundHead, SoundRef, SoundEntries, SoundAbsent,
              SoundReading, SoundSubmodule, Sound
<1>5. CASE ReadEntry /\ ~followed' /\ stage' # "failed"
  <2>1. /\ stage = "read" /\ stage' = "hash" /\ UNCHANGED todo /\ k # "submodule"
        /\ AddEntry(data[path], reading.mode)
    BY <1>2, <1>5 DEF ReadEntry
  <2>2. path \in Paths /\ k \in Kinds
    BY <1>2, <2>1 DEF Types, InvReading
  <2>3. PICK d, m : d = data[path] /\ m = reading.mode
    OBVIOUS
  <2>4. Sound(<<path, "data">>, d)
    BY <1>3, <2>2, <2>3, NowOfPath, FacetOfPath
  <2>5. Sound(<<path, "kind">>, k) /\ (k # "symlink" => Sound(<<path, "mode">>, m))
    BY <1>2, <2>1, <2>2, <2>3 DEF InvCollected, SoundReading, Kinds
  <2> QED
    BY <1>2, <1>5, <2>1, <2>2, <2>3, <2>4, <2>5, AddingCollects DEF Hashing
<1>6. CASE ReadSubmodule /\ stage' # "failed"
  <2>1. /\ stage = "read" /\ stage' = "submodule_status" /\ UNCHANGED <<todo, partial>>
        /\ reading' = [path |-> path, is |-> "submodule", data |-> data[path]]
        /\ k = "submodule"
    BY <1>2, <1>6 DEF ReadSubmodule
  <2>2. path \in Paths
    BY <1>2, <2>1 DEF Types, InvReading
  <2>3. PICK d : d = data[path]
    OBVIOUS
  <2>4. Sound(<<path, "kind">>, k) /\ Sound(<<path, "data">>, d)
    BY <1>2, <1>3, <2>1, <2>2, <2>3, NowOfPath, FacetOfPath DEF InvCollected, SoundReading
  <2>5. /\ SoundHead' /\ SoundRef'
        /\ \A f \in Facets : \A v : Sound(f, v) => Sound(f, v)'
    BY <1>6, HashingStays DEF Hashing
  <2>6. Sound(<<path, "kind">>, k)' /\ Sound(<<path, "data">>, d)'
    BY <2>2, <2>4, <2>5, FacetOfPath
  <2>7. SoundSubmodule'
    <3>1. reading'.path = path /\ reading'.data = d
      BY <2>1, <2>3
    <3> QED
      BY <2>1, <2>6, <3>1 DEF SoundSubmodule
  <2>8. SoundEntries'
    BY <2>1, <2>5, FacetOfPath, EntriesOfPaths DEF InvCollected, SoundEntries, Types
  <2>9. SoundAbsent'
    BY <1>2, <2>1, <2>5, FacetOfPath DEF InvCollected, SoundAbsent, Early
  <2> QED
    BY <2>1, <2>5, <2>7, <2>8, <2>9 DEF InvCollected, SoundReading
<1>7. CASE ReadSubmoduleStatus /\ stage' # "failed"
  <2>1. /\ stage = "submodule_status" /\ stage' = "hash" /\ UNCHANGED todo
        /\ AddEntry(reading.data, mode[path])
    BY <1>2, <1>7 DEF ReadSubmoduleStatus
  <2>2. path \in Paths /\ k = "submodule"
    BY <1>2, <2>1 DEF Types, InvReading
  <2>3. PICK d, m : d = reading.data /\ m = mode[path]
    OBVIOUS
  <2>4. Sound(<<path, "mode">>, m)
    BY <1>3, <2>2, <2>3, NowOfPath, FacetOfPath
  <2>5. Sound(<<path, "kind">>, k) /\ Sound(<<path, "data">>, d)
    BY <1>2, <2>1, <2>2, <2>3 DEF InvCollected, SoundSubmodule
  <2> QED
    BY <1>2, <1>7, <2>1, <2>2, <2>3, <2>4, <2>5, AddingCollects DEF Hashing
<1> QED
  BY <1>1, <1>4, <1>5, <1>6, <1>7

LEMMA CollectedKept ==
  ASSUME Types, InvEntries, InvPast, InvDrift, InvCollected, InvRun, [Next]_vars
  PROVE  InvCollected'
<1>1. CASE Identified \/ Discover \/ IdentifiedAgain
  <2> /\ UNCHANGED <<past, followed, restored, round, partial, todo, reading>>
      /\ round = 2 => UNCHANGED <<source, drifted>>
      /\ {stage, stage'} \subseteq {"hash", "discover", "checks", "done"}
    BY <1>1 DEF Identified, Discover, IdentifiedAgain
  <2> QED
    BY CollectedStays
<1>2. CASE IdentifyAgain
  BY <1>2 DEF IdentifyAgain, Nothing, NoEntries, InvCollected, SoundHead, SoundRef,
              SoundEntries, SoundAbsent, SoundReading, SoundSubmodule, Early
<1>3. CASE Disturbing
  <2>1. UNCHANGED <<stage, round, partial, todo, reading, source, followed>> /\ Trace
    BY <1>3, ProgramStays
  <2>2. \A f \in Facets : past[f] \subseteq past'[f]
    BY <2>1 DEF Trace
  <2>3. restored => restored'
    BY <2>1 DEF Trace
  <2>4. round = 2 => UNCHANGED drifted
    BY <2>1 DEF Trace, Between, InvRun
  <2> QED
    BY <2>1, <2>2, <2>3, <2>4, CollectedStays
<1>4. CASE UNCHANGED vars
  BY <1>4, CollectedStays
<1> QED
  BY <1>1, <1>2, <1>3, <1>4, CommandCollects, ListCollects, InspectCollects, ReadCollects
     DEF Next, Collect, Collecting, Disturbing, Ended

-----------------------------------------------------------------------------
(* Between the collections.                                                 *)

\* A complete collection is sound in all that it tells.
LEMMA CompleteIsSound ==
  ASSUME Types, InvCollected, stage = "hash", todo = {}, NEW f \in FacetsOf(partial)
  PROVE  Sound(f, In(partial, f))
<1>1. reading.path = NoPath
  BY DEF Types, InvReading, NoReading
<1>2. f \in Facets
  BY DEF FacetsOf
<1>3. CASE f = Commit \/ f = Ref
  BY <1>3 DEF Commit, Ref, In, InvCollected, SoundHead, SoundRef
<1>4. ASSUME NEW p \in Paths, f = <<p, "kind">> PROVE Sound(f, In(partial, f))
  <2>1. In(partial, f) = KindIn(partial, p) /\ p \in Covered(partial)
    BY <1>4 DEF In, FacetsOf
  <2>2. CASE p \in DOMAIN partial.entries
    BY <1>4, <2>1, <2>2 DEF KindIn, InvCollected, SoundEntries
  <2>3. CASE p \notin DOMAIN partial.entries
    BY <1>1, <1>4, <2>1, <2>3, PathAssumption
       DEF KindIn, Covered, InvCollected, SoundAbsent, Early
  <2> QED
    BY <2>2, <2>3
<1>5. ASSUME NEW p \in Paths, f = <<p, "data">> PROVE Sound(f, In(partial, f))
  BY <1>5 DEF In, FacetsOf, InvCollected, SoundEntries
<1>6. ASSUME NEW p \in Paths, f = <<p, "mode">> PROVE Sound(f, In(partial, f))
  BY <1>6 DEF In, FacetsOf, InvCollected, SoundEntries
<1> QED
  BY <1>2, <1>3, <1>4, <1>5, <1>6 DEF Facets, Commit, Ref

\* Only these steps touch what the first collection is compared with.
LEMMA SourceStays ==
  ASSUME Collecting \/ Hashing
  PROVE  UNCHANGED <<source, source_after, discovered, drifted, quiet, round>>
BY DEF Collecting, ReadHead, ReadRef, ReadStatus, ReadDiff, ReadDiffCached, ReadOthers,
       Report, Hashing, List, Inspect, ReadEntry, ReadSubmodule, ReadSubmoduleStatus

\* The stages of the collection are left for the run's by Identified only.
LEMMA CollectionStages ==
  ASSUME Collecting \/ Hashing
  PROVE  /\ stage \in Early \cup {"hash", "read", "submodule_status"}
         /\ stage' \in Early \cup {"hash", "read", "submodule_status", "failed"}
BY DEF Collecting, ReadHead, ReadRef, ReadStatus, ReadDiff, ReadDiffCached, ReadOthers,
       Report, Hashing, List, Inspect, ReadEntry, ReadSubmodule, ReadSubmoduleStatus, Early

LEMMA RunKept ==
  ASSUME Types, InvRun, [Next]_vars
  PROVE  InvRun'
<1>1. CASE Collecting \/ Hashing
  BY <1>1, SourceStays, CollectionStages DEF InvRun, HasSource, Early, Types, TypeProgram
<1>2. CASE Entering
  BY <1>2 DEF Entering, Identified, Discover, IdentifyAgain, IdentifiedAgain, InvRun,
              HasSource, Types, TypeProgram
<1>3. CASE Disturbing
  BY <1>3, ProgramStays DEF InvRun, HasSource
<1>4. CASE UNCHANGED vars
  BY <1>4 DEF InvRun, HasSource
<1> QED
  BY <1>1, <1>2, <1>3, <1>4
     DEF Next, Collect, Collecting, Hashing, Entering, Disturbing, Ended

LEMMA EntriesKept ==
  ASSUME Types, InvEntries, [Next]_vars
  PROVE  InvEntries'
<1>1. CASE Collecting
  BY <1>1, CommandStep DEF InvEntries, Types
<1>2. CASE Hashing
  BY <1>2 DEF Hashing, List, Inspect, ReadEntry, ReadSubmodule, ReadSubmoduleStatus,
              InvEntries, Early
<1>3. CASE Entering
  BY <1>3 DEF Entering, Identified, Discover, IdentifyAgain, IdentifiedAgain, InvEntries,
              Early, Nothing, NoEntries
<1>4. CASE Disturbing
  BY <1>4, ProgramStays DEF InvEntries
<1>5. CASE UNCHANGED vars
  BY <1>5 DEF InvEntries
<1> QED
  BY <1>1, <1>2, <1>3, <1>4, <1>5
     DEF Next, Collect, Collecting, Hashing, Entering, Disturbing, Ended

\* An entry that was read continues the stream.
LEMMA AddEntryStreams ==
  ASSUME Types, InvStreams, stage \in {"read", "submodule_status"},
         UNCHANGED <<todo, source>>, stage' = "hash",
         NEW d \in Data, NEW m \in BOOLEAN, AddEntry(d, m), reading.is \in Kinds
  PROVE  InvStreams'
<1> PICK x : x = [is |-> reading.is, data |-> d, mode |-> m]
  OBVIOUS
<1>1. x \in Entry /\ reading.path \in Paths
  BY DEF Entry, Types, InvReading
<1>2. /\ partial'.stream = partial.stream \o Piece(reading.path, x)
      /\ partial'.entries = [q \in DOMAIN partial.entries \cup {reading.path} |->
                             IF q = reading.path THEN x ELSE partial.entries[q]]
  BY DEF AddEntry, Types, TypeProgram, Identity
<1>3. /\ \A p \in DOMAIN partial.entries : Rank[p] < Rank[reading.path]
      /\ \A q \in todo : Rank[reading.path] < Rank[q]
      /\ \A p \in DOMAIN partial.entries, q \in todo : Rank[p] < Rank[q]
      /\ IsStream(partial.stream, partial.entries)
  BY DEF InvStreams, Opened
<1>4. partial.stream \in Seq(Tokens) /\ partial.entries \in Entries
  BY DEF Types, TypeProgram, Identity
<1>5. IsStream(partial'.stream, partial'.entries)
  <2>1. IsStream(partial.stream \o Piece(reading.path, x),
                 [q \in DOMAIN partial.entries \cup {reading.path} |->
                    IF q = reading.path THEN x ELSE partial.entries[q]])
    BY <1>1, <1>3, <1>4, StreamContinues
  <2> QED
    BY <1>2, <2>1
<1>6. \A p \in DOMAIN partial'.entries : \A q \in todo' : Rank[p] < Rank[q]
  BY <1>2, <1>3
<1> QED
  BY <1>5, <1>6 DEF InvStreams

LEMMA StreamsKept ==
  ASSUME Types, InvEntries, InvStreams, [Next]_vars
  PROVE  InvStreams'
<1>1. CASE Collecting
  <2>1. /\ partial'.entries = partial.entries /\ partial'.stream = partial.stream
        /\ UNCHANGED source /\ stage' \notin Opened
    BY <1>1, CommandStep DEF Types, Early, Opened
  <2> QED
    BY <2>1 DEF InvStreams, Opened
<1>2. CASE Hashing
  <2>1. UNCHANGED source
    BY <1>2, SourceStays
  <2>2. CASE List
    BY <2>1, <2>2 DEF List, InvEntries, Early, InvStreams
  <2>3. CASE Inspect
    <3>1. stage = "hash" /\ UNCHANGED partial
      BY <2>3 DEF Inspect
    <3>2. PICK p \in todo :
            /\ \A q \in todo : Rank[p] <= Rank[q]
            /\ \/ stage' = "read" /\ todo' = todo \ {p} /\ reading'.path = p
               \/ stage' = "failed"
      BY <2>3 DEF Inspect
    <3>3. \A q \in todo \ {p} : Rank[p] < Rank[q]
      <4> SUFFICES ASSUME NEW q \in todo \ {p} PROVE Rank[p] < Rank[q]
        OBVIOUS
      <4>1. p \in Paths /\ q \in Paths
        BY DEF Types, TypeProgram
      <4>2. Rank[p] \in Nat /\ Rank[q] \in Nat /\ Rank[p] # Rank[q]
        BY <4>1, PathAssumption
      <4> QED
        BY <3>2, <4>2
    <3> QED
      BY <2>1, <3>1, <3>2, <3>3 DEF InvStreams, Opened
  <2>4. CASE ReadEntry
    <3>1. stage = "read" /\ UNCHANGED todo /\ reading.is \in Kinds /\ reading.mode \in BOOLEAN
          /\ data[reading.path] \in Data
      BY <2>4 DEF ReadEntry, Types, InvReading, TypeWorld
    <3>2. CASE stage' = "hash"
      <4> PICK d \in Data : AddEntry(d, reading.mode)
        BY <2>4, <3>1, <3>2 DEF ReadEntry
      <4> QED
        BY <2>1, <3>1, <3>2, AddEntryStreams
    <3> QED
      BY <2>1, <2>4, <3>2 DEF ReadEntry, InvStreams, Opened
  <2>5. CASE ReadSubmodule
    <3>1. /\ stage = "read" /\ UNCHANGED <<partial, todo>>
          /\ \/ stage' = "submodule_status" /\ reading'.path = reading.path
             \/ stage' = "failed"
      BY <2>5 DEF ReadSubmodule
    <3> QED
      BY <2>1, <3>1 DEF InvStreams, Opened
  <2>6. CASE ReadSubmoduleStatus
    <3>1. /\ stage = "submodule_status" /\ UNCHANGED todo /\ reading.is \in Kinds
          /\ reading.data \in Data /\ mode[reading.path] \in BOOLEAN
      BY <2>6 DEF ReadSubmoduleStatus, Types, InvReading, TypeWorld, Kinds
    <3>2. CASE stage' = "hash"
      <4> AddEntry(reading.data, mode[reading.path])
        BY <2>6, <3>2 DEF ReadSubmoduleStatus
      <4> QED
        BY <2>1, <3>1, <3>2, AddEntryStreams
    <3> QED
      BY <2>1, <2>6, <3>2 DEF ReadSubmoduleStatus, InvStreams, Opened
  <2> QED
    BY <1>2, <2>2, <2>3, <2>4, <2>5, <2>6 DEF Hashing
<1>3. CASE Identified
  BY <1>3 DEF Identified, InvStreams, Opened
<1>4. CASE IdentifyAgain
  BY <1>4, EmptyStream DEF IdentifyAgain, InvStreams, Opened, Nothing
<1>5. CASE Discover \/ IdentifiedAgain
  BY <1>5 DEF Discover, IdentifiedAgain, InvStreams, Opened
<1>6. CASE Disturbing
  BY <1>6, ProgramStays DEF InvStreams
<1>7. CASE UNCHANGED vars
  BY <1>7 DEF InvStreams
<1> QED
  BY <1>1, <1>2, <1>3, <1>4, <1>5, <1>6, <1>7
     DEF Next, Collect, Collecting, Hashing, Disturbing, Ended

\* Two identities that agree, of delimited contents, tell the same of every facet.
THEOREM AgreeingTellsSame ==
  ASSUME NEW a \in Identity, NEW b \in Identity, Agree(a, b), Delimited(a), Delimited(b),
         IsStream(a.stream, a.entries), IsStream(b.stream, b.entries)
  PROVE  FacetsOf(a) = FacetsOf(b) /\ \A f \in FacetsOf(a) : In(a, f) = In(b, f)
<1>1. /\ a.entries \in Entries /\ b.entries \in Entries /\ a.stream \in Seq(Tokens)
      /\ b.stream = a.stream /\ a.commit = b.commit /\ a.ref = b.ref
  BY DEF Identity, Agree
<1>2. /\ \A p \in DOMAIN a.entries : Unbroken(a.entries[p])
      /\ \A p \in DOMAIN b.entries : Unbroken(b.entries[p])
  BY DEF Delimited, Unbroken, IsPath
<1>3. /\ DOMAIN a.entries = DOMAIN b.entries
      /\ \A p \in DOMAIN a.entries :
           /\ a.entries[p].is = b.entries[p].is /\ a.entries[p].data = b.entries[p].data
           /\ a.entries[p].is # "symlink" => a.entries[p].mode = b.entries[p].mode
  <2> HIDE DEF IsStream, Unbroken
  <2> QED
    BY <1>1, <1>2, StreamTells
<1>4. FacetsOf(a) = FacetsOf(b)
  BY <1>3 DEF FacetsOf, Covered
<1>5. ASSUME NEW f \in FacetsOf(a) PROVE In(a, f) = In(b, f)
  <2>1. f \in Facets
    BY DEF FacetsOf
  <2>2. CASE f[2] = "kind"
    BY <1>3, <2>2 DEF In, KindIn
  <2>3. CASE f[2] = "data"
    BY <1>3, <2>3 DEF In, FacetsOf
  <2>4. CASE f[2] = "mode"
    BY <1>3, <2>4 DEF In, FacetsOf
  <2>5. CASE f[2] \in {"head", "ref"}
    BY <1>1, <2>5 DEF In
  <2>6. f[2] \in {"kind", "data", "mode", "head", "ref"}
    BY <2>1 DEF Facets
  <2> QED
    BY <2>2, <2>3, <2>4, <2>5, <2>6
<1> QED
  BY <1>4, <1>5

\* Without a disturbance every facet keeps its value.
LEMMA FacetsStay == ASSUME UNCHANGED world PROVE \A f : Now(f)' = Now(f)
BY DEF Now

LEMMA PastKept ==
  ASSUME Types, InvPast, [Next]_vars
  PROVE  InvPast'
<1>1. CASE Disturbing
  BY <1>1, ProgramStays DEF Trace, InvPast
<1>2. CASE UNCHANGED <<world, past>>
  <2> PICK g : g = past
    OBVIOUS
  <2> SUFFICES ASSUME NEW f \in Facets PROVE Now(f)' \in past'[f]
    BY DEF InvPast
  <2>1. Now(f)' = Now(f)
    BY <1>2, FacetsStay
  <2> QED
    BY <1>2, <2>1 DEF InvPast
<1> QED
  BY <1>1, <1>2, WorldStays
     DEF Next, Collect, Collecting, Hashing, Entering, Disturbing, Ended

\* A disturbance cannot make a facet agree with the source again unless it
\* puts back what was there before.
LEMMA DriftKeptDisturbed ==
  ASSUME Types, InvPast, InvDrift, Disturbing
  PROVE  InvDrift'
<1>1. UNCHANGED <<stage, round, source, followed>> /\ Trace
  BY ProgramStays
<1>2. \A f : In(source, f)' = In(source, f)
  BY <1>1 DEF In, KindIn
<1>3. FacetsOf(source)' = FacetsOf(source) /\ FacetsOf(source) \subseteq Facets
  BY <1>1 DEF FacetsOf, Covered
<1>4. UNCHANGED HasSource
  BY <1>1 DEF HasSource
<1>5. HasSource /\ ~followed => \A f \in FacetsOf(source) : In(source, f)' \in past'[f]
  BY <1>1, <1>2, <1>3 DEF InvDrift, Trace
<1>6. HasSource /\ ~followed /\ ~restored' => drifted' \subseteq Deviating(source)'
  <2> SUFFICES ASSUME HasSource, ~followed, ~restored', NEW f \in drifted',
                      f \notin Deviating(source)'
               PROVE  FALSE
    OBVIOUS
  <2>1. f \in drifted /\ ~restored
    BY <1>1 DEF Trace
  <2>2. f \in FacetsOf(source) /\ Now(f) # In(source, f) /\ In(source, f) \in past[f]
    BY <2>1 DEF InvDrift, Deviating
  <2>3. Now(f)' = In(source, f)'
    BY <1>3, <2>2 DEF Deviating
  <2> QED
    BY <1>1, <1>2, <1>3, <2>1, <2>2, <2>3 DEF Trace
<1>7. stage \in {"discover", "checks"} => Deviating(source)' \subseteq drifted'
  BY <1>1 DEF Trace, Between
<1> QED
  BY <1>1, <1>3, <1>4, <1>5, <1>6, <1>7 DEF InvDrift

LEMMA DriftKeptIdentified ==
  ASSUME Types, InvPast, InvCollected, Identified
  PROVE  InvDrift'
<1>1. /\ stage = "hash" /\ todo = {} /\ source' = partial /\ drifted' = Deviating(partial)
      /\ UNCHANGED <<world, past, restored, followed>>
  BY DEF Identified
<1>2. PICK id : id = partial
  OBVIOUS
<1>3. \A f \in FacetsOf(id) : Sound(f, In(id, f))
  BY <1>1, <1>2, CompleteIsSound
<1>4. FacetsOf(id) \subseteq Facets /\ \A f : Now(f)' = Now(f)
  BY <1>1, FacetsStay DEF FacetsOf
<1>5. Deviating(source)' = Deviating(id)
  BY <1>1, <1>2, <1>4 DEF Deviating, FacetsOf, Covered, In, KindIn
<1>6. ~followed' => \A f \in FacetsOf(id) : In(id, f) \in past'[f]
  BY <1>1, <1>3 DEF Sound
<1>7. ~followed' => \A f \in FacetsOf(source)' : In(source, f)' \in past'[f]
  BY <1>1, <1>2, <1>6 DEF FacetsOf, Covered, In, KindIn
<1> QED
  BY <1>1, <1>2, <1>5, <1>7 DEF InvDrift

LEMMA DriftKept ==
  ASSUME Types, InvPast, InvDrift, InvCollected, InvRun, [Next]_vars
  PROVE  InvDrift'
<1>1. ASSUME UNCHANGED <<world, past, restored, source, drifted>>, followed => followed',
             HasSource' => HasSource,
             stage' \in {"discover", "checks"} => stage \in {"discover", "checks"}
      PROVE  InvDrift'
  <2>1. \A f : In(source, f)' = In(source, f) /\ Now(f)' = Now(f)
    BY <1>1, FacetsStay DEF In, KindIn
  <2>2. FacetsOf(source)' = FacetsOf(source)
    BY <1>1 DEF FacetsOf, Covered
  <2>3. Deviating(source)' = Deviating(source)
    BY <2>1, <2>2 DEF Deviating
  <2>4. HasSource' /\ ~followed' => \A f \in FacetsOf(source)' : In(source, f)' \in past'[f]
    BY <1>1, <2>1, <2>2 DEF InvDrift
  <2> QED
    BY <1>1, <2>3, <2>4 DEF InvDrift
<1>2. CASE Collecting \/ Hashing
  <2>1. followed => followed'
    BY <1>2 DEF Collecting, ReadHead, ReadRef, ReadStatus, ReadDiff, ReadDiffCached,
       ReadOthers, Report, Hashing, List, Inspect, ReadEntry, ReadSubmodule,
       ReadSubmoduleStatus
  <2> QED
    BY <1>1, <1>2, <2>1, WorldStays, SourceStays, CollectionStages DEF HasSource, Early
<1>3. CASE Discover \/ IdentifyAgain \/ IdentifiedAgain
  <2>1. /\ UNCHANGED <<world, past, restored, source, drifted, followed>>
        /\ HasSource
        /\ stage' \in {"discover", "checks"} => stage \in {"discover", "checks"}
    BY <1>3 DEF Discover, IdentifyAgain, IdentifiedAgain, HasSource
  <2> QED
    BY <1>1, <2>1
<1>4. CASE UNCHANGED vars
  BY <1>1, <1>4 DEF HasSource
<1> QED
  BY <1>2, <1>3, <1>4, DriftKeptDisturbed, DriftKeptIdentified
     DEF Next, Collect, Collecting, Hashing, Disturbing, Ended

LEMMA DiscoveredKept ==
  ASSUME Types, InvDrift, InvDiscovered, InvRun, [Next]_vars
  PROVE  InvDiscovered'
<1>1. ASSUME UNCHANGED <<source, discovered>>, drifted \subseteq drifted',
             HasSource' => HasSource
      PROVE  InvDiscovered'
  BY <1>1 DEF InvDiscovered, Covered, KindIn
<1>2. CASE Identified
  BY <1>2 DEF Identified, InvRun, InvDiscovered, Types, TypeProgram
<1>3. CASE Discover
  <2>1. /\ stage = "discover" /\ UNCHANGED <<source, drifted>>
        /\ discovered' \subseteq discovered \cup {<<kind[Manifest], data[Manifest]>>}
    BY <1>3 DEF Discover
  <2>2. Manifest \in Covered(source) =>
          kind[Manifest] = KindIn(source, Manifest) \/ <<Manifest, "kind">> \in drifted
    <3> SUFFICES ASSUME Manifest \in Covered(source),
                        kind[Manifest] # KindIn(source, Manifest)
                 PROVE  <<Manifest, "kind">> \in Deviating(source)
      BY <2>1 DEF InvDrift
    <3> QED
      BY PathAssumption, FacetOfPath, NowOfPath DEF Deviating, FacetsOf, In
  <2>3. Manifest \in DOMAIN source.entries =>
          \/ data[Manifest] = source.entries[Manifest].data
          \/ <<Manifest, "data">> \in drifted
    <3> SUFFICES ASSUME Manifest \in DOMAIN source.entries,
                        data[Manifest] # source.entries[Manifest].data
                 PROVE  <<Manifest, "data">> \in Deviating(source)
      BY <2>1 DEF InvDrift
    <3> QED
      BY PathAssumption, FacetOfPath, NowOfPath DEF Deviating, FacetsOf, In
  <2>4. HasSource
    BY <2>1 DEF HasSource
  <2> QED
    BY <2>1, <2>2, <2>3, <2>4 DEF InvDiscovered, Covered, KindIn
<1>4. CASE Collecting \/ Hashing
  BY <1>1, <1>4, SourceStays, CollectionStages DEF HasSource, Early
<1>5. CASE IdentifyAgain \/ IdentifiedAgain
  <2> UNCHANGED <<source, discovered, drifted>> /\ HasSource
    BY <1>5 DEF IdentifyAgain, IdentifiedAgain, HasSource
  <2> QED
    BY <1>1
<1>6. CASE Disturbing
  <2> UNCHANGED <<source, discovered, stage, round>> /\ drifted \subseteq drifted'
    BY <1>6, ProgramStays DEF Trace
  <2> QED
    BY <1>1 DEF HasSource
<1>7. CASE UNCHANGED vars
  BY <1>1, <1>7 DEF HasSource
<1> QED
  BY <1>2, <1>3, <1>4, <1>5, <1>6, <1>7
     DEF Next, Collect, Collecting, Hashing, Disturbing, Ended

\* The second identity is complete and equal: nothing that it tells has drifted.
LEMMA SteadyKept ==
  ASSUME Types, InvStreams, InvCollected, InvDrift, InvDiscovered, UnchangedIsSteady,
         [Next]_vars
  PROVE  UnchangedIsSteady'
<1>1. CASE IdentifiedAgain
  <2>1. /\ stage = "hash" /\ todo = {} /\ round = 2 /\ source_after' = partial
        /\ UNCHANGED <<source, restored, followed, drifted, discovered>>
    BY <1>1 DEF IdentifiedAgain
  <2>2. SUFFICES ASSUME Agree(partial, source), Delimited(source), Delimited(partial),
                        ~restored, ~followed
                 PROVE  /\ drifted = {}
                        /\ Manifest \in Covered(source) =>
                             \A seen \in discovered :
                               /\ seen[1] = KindIn(source, Manifest)
                               /\ seen[1] # None => seen[2] = source.entries[Manifest].data
    <3>1. /\ Agree(source_after, source)' = Agree(partial, source)
          /\ Delimited(source_after)' = Delimited(partial)
          /\ Delimited(source)' = Delimited(source)
          /\ Covered(source)' = Covered(source)
          /\ KindIn(source, Manifest)' = KindIn(source, Manifest)
      BY <2>1 DEF Agree, Delimited, Covered, KindIn
    <3> QED
      BY <2>1, <3>1 DEF UnchangedIsSteady
  <2>3. drifted = {}
    <3> SUFFICES ASSUME NEW f \in drifted PROVE FALSE
      OBVIOUS
    <3>1. f \in FacetsOf(source)
      BY <2>1, <2>2 DEF InvDrift, HasSource, Deviating
    <3>2. FacetsOf(partial) = FacetsOf(source) /\ In(partial, f) = In(source, f)
      <4>1. partial \in Identity /\ source \in Identity
        BY DEF Types, TypeProgram
      <4>2. IsStream(partial.stream, partial.entries) /\ IsStream(source.stream, source.entries)
        BY DEF InvStreams
      <4> QED
        BY <2>2, <3>1, <4>1, <4>2, AgreeingTellsSame
    <3>3. Sound(f, In(partial, f))
      BY <2>1, <2>2, <3>1, <3>2, CompleteIsSound
    <3> QED
      BY <2>1, <2>2, <3>2, <3>3 DEF Sound
  <2>4. Manifest \in Covered(source) =>
          \A seen \in discovered :
            /\ seen[1] = KindIn(source, Manifest)
            /\ seen[1] # None => seen[2] = source.entries[Manifest].data
    BY <2>1, <2>3 DEF InvDiscovered, HasSource, KindIn
  <2> QED
    BY <2>3, <2>4
<1>2. CASE stage' # "done"
  BY <1>2 DEF UnchangedIsSteady
<1>3. CASE UNCHANGED vars
  BY <1>3 DEF UnchangedIsSteady, Covered, KindIn, Agree, Delimited
<1>4. CASE Disturbing
  BY <1>4, ProgramStays, <1>2 DEF Disturbing, StoreWrites, Edit, Alive
<1>5. CASE Collecting \/ Hashing
  BY <1>2, <1>5, CollectionStages DEF Early
<1>6. CASE Identified \/ Discover \/ IdentifyAgain
  BY <1>2, <1>6 DEF Identified, Discover, IdentifyAgain
<1> QED
  BY <1>1, <1>3, <1>4, <1>5, <1>6
     DEF Next, Collect, Collecting, Hashing, Disturbing, Ended

LEMMA InvInitially == Init => IInv
<1> SUFFICES ASSUME Init PROVE IInv
  OBVIOUS
<1>1. Types
  BY TypesInitially DEF Types
<1>2. stage = "head" /\ round = 1 /\ partial = Nothing /\ discovered = {}
  BY DEF Init
<1>3. InvPast
  BY DEF Init, InvPast
<1>4. InvCollected
  BY <1>2 DEF InvCollected, SoundHead, SoundRef, SoundEntries, SoundAbsent, SoundReading,
              SoundSubmodule, Nothing, NoEntries, Early
<1>5. InvStreams
  BY <1>2, EmptyStream DEF Init, InvStreams, Nothing, Opened
<1> QED
  BY <1>1, <1>2, <1>3, <1>4, <1>5 DEF IInv, InvEntries, InvDrift, InvDiscovered, InvRun, HasSource,
     Nothing, NoEntries, UnchangedIsSteady

LEMMA InvKept == IInv /\ [Next]_vars => IInv'
BY TypesKept, EntriesKept, StreamsKept, PastKept, CollectedKept, DriftKept, DiscoveredKept, RunKept,
   SteadyKept DEF IInv

\* The inductive invariant of a run's two identifications holds always.
THEOREM Invariance == Spec => []IInv
BY InvInitially, InvKept, PTL DEF Spec

\* Two identities that agree have seen everything that happened between them,
\* and discovery with them, unless something was put back, a link was followed or
\* a file has a path with its length in its content.
THEOREM EqualIdentitiesAreSteady == Spec => []UnchangedIsSteady
<1>1. IInv => UnchangedIsSteady
  BY DEF IInv
<1> QED
  BY <1>1, Invariance, PTL

-----------------------------------------------------------------------------
(* An undisturbed collection.                                               *)

Underway == Early \cup {"hash", "read", "submodule_status"}
ChangedPaths ==
  IF head = Unborn THEN workspace_files ELSE DiffHead \cup DiffCached \cup Others

\* As long as nobody edits anything, what was collected is so.
QuietReports ==
  /\ stage \in Underway \ {"head"} => partial.commit = head
  /\ stage \in Underway \ {"head", "ref"} => partial.ref = ref
  /\ stage \in Underway \ {"head", "ref", "status"} => partial.status = Status
  /\ stage = "diff_cached" => head # Unborn /\ partial.changed = DiffHead
  /\ stage = "others" => head # Unborn /\ partial.changed = DiffHead \cup DiffCached
  /\ stage \in Opened \cup {"list"} => partial.changed = ChangedPaths
QuietFiles ==
  /\ stage \in Opened => /\ todo \subseteq workspace_files
                         /\ \A p \in Cached : p \in todo \/ kind[p] # None
  /\ stage = "done" => \A p \in Cached : kind[p] # None
  /\ error = "missing" => \E p \in Cached : kind[p] = None
InvQuiet ==
  /\ quiet => QuietReports /\ QuietFiles
  /\ error # "none" => stage = "failed"
  /\ edits = 0 => quiet

\* What git says depends on the world alone.
LEMMA GitStays ==
  ASSUME UNCHANGED world
  PROVE  UNCHANGED <<Status, DiffHead, DiffCached, Others, Cached, workspace_files,
                     ChangedPaths>>
BY DEF Status, DiffHead, DiffCached, Others, Cached, workspace_files, ChangedPaths, tree,
       Work, Seen

LEMMA QuietCommands ==
  ASSUME Types, InvQuiet, Collecting
  PROVE  InvQuiet'
<1>1. UNCHANGED <<quiet, edits, world, Status, DiffHead, DiffCached, Others, Cached,
                  workspace_files, ChangedPaths>>
  BY WorldStays, SourceStays, GitStays
<1>2. partial \in [commit : Commits \cup {Unborn}, ref : Refs,
                    status : [Paths -> PathStatus], changed : SUBSET Paths,
                    stream : Seq(Tokens), entries : Entries]
  BY DEF Types, TypeProgram, Identity
<1>3. CASE stage' = "failed" /\ error' = "io"
  BY <1>1, <1>3 DEF InvQuiet, QuietReports, QuietFiles, Underway, Opened, Early
<1>4. CASE ReadHead /\ stage' = "ref"
  BY <1>1, <1>2, <1>4 DEF ReadHead, Report, InvQuiet, QuietReports, QuietFiles, Underway,
     Opened, Early
<1>5. CASE ReadRef /\ stage' = "status"
  BY <1>1, <1>2, <1>5 DEF ReadRef, Report, InvQuiet, QuietReports, QuietFiles, Underway,
     Opened, Early
<1>6. CASE ReadStatus /\ stage' = "diff"
  BY <1>1, <1>2, <1>6 DEF ReadStatus, Report, InvQuiet, QuietReports, QuietFiles, Underway,
     Opened, Early
<1>7. CASE ReadDiff /\ stage' = "list"
  <2>1. /\ stage = "diff" /\ partial.commit = Unborn /\ UNCHANGED error
        /\ partial' = [partial EXCEPT !.changed = workspace_files]
    BY <1>7 DEF ReadDiff, Report
  <2> QED
    BY <1>1, <1>2, <1>7, <2>1 DEF InvQuiet, QuietReports, QuietFiles, Underway, Opened,
       Early, ChangedPaths
<1>8. CASE ReadDiff /\ stage' = "diff_cached"
  <2>1. /\ stage = "diff" /\ partial.commit # Unborn /\ UNCHANGED error
        /\ partial' = [partial EXCEPT !.changed = DiffHead]
    BY <1>8 DEF ReadDiff, Report
  <2> QED
    BY <1>1, <1>2, <1>8, <2>1 DEF InvQuiet, QuietReports, QuietFiles, Underway, Opened, Early
<1>9. CASE ReadDiffCached /\ stage' = "others"
  BY <1>1, <1>2, <1>9 DEF ReadDiffCached, Report, InvQuiet, QuietReports, QuietFiles,
     Underway, Opened, Early
<1>10. CASE ReadOthers /\ stage' = "list"
  BY <1>1, <1>2, <1>10 DEF ReadOthers, Report, InvQuiet, QuietReports, QuietFiles,
     Underway, Opened, Early, ChangedPaths
<1> QED
  BY <1>3, <1>4, <1>5, <1>6, <1>7, <1>8, <1>9, <1>10
     DEF Collecting, ReadHead, ReadRef, ReadStatus, ReadDiff, ReadDiffCached, ReadOthers,
         Report

LEMMA QuietHashing ==
  ASSUME Types, InvQuiet, Hashing
  PROVE  InvQuiet'
<1>1. UNCHANGED <<quiet, edits, world, Status, DiffHead, DiffCached, Others, Cached,
                  workspace_files, ChangedPaths>>
  BY WorldStays, SourceStays, GitStays
<1>2. stage' # "failed" => /\ UNCHANGED error
                           /\ partial'.commit = partial.commit /\ partial'.ref = partial.ref
                           /\ partial'.status = partial.status
                           /\ partial'.changed = partial.changed
  BY DEF Hashing, List, Inspect, ReadEntry, ReadSubmodule, ReadSubmoduleStatus, AddEntry,
         Types, TypeProgram, Identity
<1>3. stage \in Opened \cup {"list"} /\ stage' \in Opened \cup {"failed"}
  BY DEF Hashing, List, Inspect, ReadEntry, ReadSubmodule, ReadSubmoduleStatus, Opened
<1>4. quiet' => QuietReports'
  BY <1>1, <1>2, <1>3 DEF InvQuiet, QuietReports, Underway, Opened, Early
<1>5. quiet' => QuietFiles'
  <2>1. CASE List
    BY <1>1, <2>1 DEF List, InvQuiet, QuietFiles, Opened, workspace_files
  <2>2. CASE Inspect
    BY <1>1, <2>2 DEF Inspect, InvQuiet, QuietFiles, Opened, workspace_files, Others
  <2>3. CASE ReadEntry \/ ReadSubmodule \/ ReadSubmoduleStatus
    BY <1>1, <2>3 DEF ReadEntry, ReadSubmodule, ReadSubmoduleStatus, InvQuiet, QuietFiles,
       Opened
  <2> QED
    BY <2>1, <2>2, <2>3 DEF Hashing
<1>6. error' # "none" => stage' = "failed"
  BY <1>2, <1>3 DEF InvQuiet, Opened, Hashing, List, Inspect, ReadEntry, ReadSubmodule,
     ReadSubmoduleStatus
<1> QED
  BY <1>1, <1>4, <1>5, <1>6 DEF InvQuiet

LEMMA QuietKept ==
  ASSUME Types, InvQuiet, InvRun, [Next]_vars
  PROVE  InvQuiet'
<1>1. CASE Identified \/ Discover
  <2>1. /\ UNCHANGED <<quiet, edits, world, error>> /\ stage' \in {"discover", "checks"}
        /\ stage # "failed"
    BY <1>1 DEF Identified, Discover
  <2>2. UNCHANGED Cached
    BY <2>1, GitStays
  <2> QED
    BY <2>1, <2>2 DEF InvQuiet, QuietReports, QuietFiles, Underway, Opened, Early
<1>2. CASE IdentifyAgain
  BY <1>2 DEF IdentifyAgain, InvQuiet, QuietReports, QuietFiles, Underway, Opened, Early
<1>3. CASE IdentifiedAgain
  <2>1. /\ UNCHANGED <<quiet, edits, world, error>> /\ stage' = "done" /\ stage = "hash"
        /\ todo = {}
    BY <1>3 DEF IdentifiedAgain
  <2>2. UNCHANGED Cached
    BY <2>1, GitStays
  <2> QED
    BY <2>1, <2>2 DEF InvQuiet, QuietReports, QuietFiles, Underway, Opened, Early
<1>4. CASE StoreWrites
  <2>1. UNCHANGED <<quiet, edits, stage, error>> /\ stage = "checks"
    BY <1>4 DEF StoreWrites
  <2> QED
    BY <2>1 DEF InvQuiet, QuietReports, QuietFiles, Underway, Opened, Early
<1>5. CASE Edit
  <2>1. quiet' = FALSE /\ edits' = edits + 1 /\ edits \in Nat /\ UNCHANGED <<stage, error>>
    BY <1>5, EditAssumption DEF Edit, Types, TypeHistory
  <2> QED
    BY <2>1 DEF InvQuiet
<1>6. CASE UNCHANGED vars
  <2>1. UNCHANGED <<Status, DiffHead, DiffCached, Others, Cached, workspace_files,
                    ChangedPaths>>
    BY <1>6, GitStays
  <2> QED
    BY <1>6, <2>1 DEF InvQuiet, QuietReports, QuietFiles
<1> QED
  BY <1>1, <1>2, <1>3, <1>4, <1>5, <1>6, QuietCommands, QuietHashing
     DEF Next, Collect, Collecting, Hashing, Ended

THEOREM Quietness == Spec => [](Types /\ InvRun /\ InvQuiet)
<1>1. Init => Types /\ InvRun /\ InvQuiet
  <2> SUFFICES ASSUME Init PROVE Types /\ InvRun /\ InvQuiet
    OBVIOUS
  <2>1. stage = "head" /\ error = "none" /\ quiet
    BY DEF Init
  <2> QED
    BY <2>1, InvInitially DEF IInv, InvQuiet, QuietReports, QuietFiles, Underway, Opened, Early
<1>2. Types /\ InvRun /\ InvQuiet /\ [Next]_vars => (Types /\ InvRun /\ InvQuiet)'
  BY TypesKept, RunKept, QuietKept
<1> QED
  BY <1>1, <1>2, PTL DEF Spec

\* The dirty flag and the changed paths of an undisturbed collection agree.
THEOREM DirtyMeansPaths == Spec => []DirtyHasPaths
<1>1. Types /\ InvQuiet => DirtyHasPaths
  <2> SUFFICES ASSUME Types, InvQuiet, quiet,
                      stage \in {"list", "hash", "read", "submodule_status"}
               PROVE  Dirty(partial.status) <=> partial.changed # {}
    BY DEF DirtyHasPaths
  <2>1. partial.status = Status /\ partial.changed = ChangedPaths
    BY DEF InvQuiet, QuietReports, Underway, Opened, Early
  <2>2. ASSUME NEW p \in Paths
        PROVE  Status[p] # Clean <=>
                 \/ index[p] # tree[p] \/ (index[p] # NoEntry /\ Work(p) # index[p])
                 \/ p \in Others
    <3>1. \A a, b, c \in BOOLEAN :
            [x |-> a, y |-> b, untracked |-> c] # Clean <=> a \/ b \/ c
      OBVIOUS
    <3>2. Status[p] = [x |-> index[p] # tree[p],
                       y |-> index[p] # NoEntry /\ Work(p) # index[p],
                       untracked |-> p \in Others]
      BY DEF Status
    <3> DEFINE a == index[p] # tree[p]
               b == index[p] # NoEntry /\ Work(p) # index[p]
               c == p \in Others
    <3>3. a \in BOOLEAN /\ b \in BOOLEAN /\ c \in BOOLEAN
      OBVIOUS
    <3>4. Status[p] = [x |-> a, y |-> b, untracked |-> c]
      BY <3>2
    <3> HIDE DEF a, b, c
    <3>5. [x |-> a, y |-> b, untracked |-> c] # Clean <=> a \/ b \/ c
      BY <3>1, <3>3, Zenon
    <3>6. Status[p] # Clean <=> a \/ b \/ c
      BY <3>4, <3>5
    <3> QED
      BY <3>6 DEF a, b, c
  <2>3. ASSUME NEW p \in Paths
        PROVE  Work(p) = NoEntry <=> kind[p] = None
    BY DEF Work, Seen, NoEntry
  <2>4. ChangedPaths \subseteq Paths
    BY DEF ChangedPaths, workspace_files, Cached, Others, DiffHead, DiffCached
  <2>5. CASE head = Unborn
    <3>1. \A p \in Paths : tree[p] = NoEntry
      BY <2>5 DEF tree, EmptyTree
    <3>2. ASSUME NEW p \in Paths PROVE p \in ChangedPaths <=> Status[p] # Clean
      <4>1. p \in ChangedPaths <=> index[p] # NoEntry \/ p \in Others
        BY <2>5, <3>2 DEF ChangedPaths, workspace_files, Cached
      <4>2. Status[p] # Clean <=> index[p] # NoEntry \/ p \in Others
        BY <2>2, <3>1, <3>2
      <4> QED
        BY <4>1, <4>2
    <3> QED
      BY <2>1, <2>4, <3>2 DEF Dirty
  <2>6. CASE head # Unborn
    <3>1. ASSUME NEW p \in Paths PROVE p \in ChangedPaths <=> Status[p] # Clean
      <4>1. p \in ChangedPaths <=> p \in DiffHead \/ index[p] # tree[p] \/ p \in Others
        BY <2>6, <3>1 DEF ChangedPaths, DiffCached
      <4>2. p \in DiffHead =>
              \/ index[p] # tree[p] \/ (index[p] # NoEntry /\ Work(p) # index[p])
        BY DEF DiffHead
      <4>3. index[p] = tree[p] /\ index[p] # NoEntry /\ Work(p) # index[p] => p \in DiffHead
        BY <3>1 DEF DiffHead
      <4> QED
        BY <2>2, <3>1, <4>1, <4>2, <4>3
    <3> QED
      BY <2>1, <2>4, <3>1 DEF Dirty
  <2> QED
    BY <2>5, <2>6
<1> QED
  BY <1>1, Quietness, PTL

\* An undisturbed identification fails for a missing file exactly if there is
\* one that git still tracks.
THEOREM DeletedIsMissing == Spec => []DeletedHasNoIdentity
<1>1. InvQuiet => DeletedHasNoIdentity
  BY DEF InvQuiet, QuietFiles, DeletedHasNoIdentity
<1> QED
  BY <1>1, Quietness, PTL

-----------------------------------------------------------------------------
(* Nothing is edited and the store is where git does not look.              *)

\* The stream t of the entries f begins with s, the pieces of the paths d.
Begins(t, f, s, d) ==
  \E at :
    /\ Consists(t, f, at) /\ InOrder(f, at)
    /\ Len(s) <= Len(t) /\ \A k \in 1..Len(s) : s[k] = t[k]
    /\ \A p \in DOMAIN f : IF p \in d THEN After(f, at, p) <= Len(s) + 1 ELSE at[p] > Len(s)

LEMMA NothingBegins ==
  ASSUME NEW t \in Seq(Tokens), NEW f \in Entries, IsStream(t, f)
  PROVE  Begins(t, f, <<>>, {})
<1>1. PICK at : Consists(t, f, at) /\ InOrder(f, at)
  BY DEF IsStream
<1>2. \A p \in DOMAIN f : at[p] > 0
  BY <1>1 DEF Consists
<1>3. Len(<<>>) = 0 /\ Len(t) >= 0
  OBVIOUS
<1> QED
  BY <1>1, <1>2, <1>3 DEF Begins

\* The piece of the next path is what comes next in the stream.
LEMMA BeginningContinues ==
  ASSUME NEW t \in Seq(Tokens), NEW f \in Entries, NEW s \in Seq(Tokens), NEW d,
         Begins(t, f, s, d), NEW p \in DOMAIN f, p \notin d,
         \A q \in DOMAIN f \ (d \cup {p}) : Rank[p] < Rank[q]
  PROVE  Begins(t, f, s \o Piece(p, f[p]), d \cup {p})
<1>1. PICK at :
    /\ Consists(t, f, at) /\ InOrder(f, at)
    /\ Len(s) <= Len(t) /\ \A k \in 1..Len(s) : s[k] = t[k]
    /\ \A q \in DOMAIN f : IF q \in d THEN After(f, at, q) <= Len(s) + 1 ELSE at[q] > Len(s)
  BY DEF Begins
<1> DEFINE c == Piece(p, f[p])
           u == s \o c
<1>2. c \in Seq(Tokens) /\ Len(c) \in Nat /\ Len(c) > 1 /\ Len(s) \in Nat /\ Len(t) \in Nat
  BY PieceBegins, EntriesAre
<1>3. /\ u \in Seq(Tokens) /\ Len(u) = Len(s) + Len(c)
      /\ \A k \in 1..Len(s) : u[k] = s[k]
      /\ \A i \in 1..Len(c) : u[Len(s) + i] = c[i]
  BY <1>2
<1>4. /\ \A q \in DOMAIN f : /\ at[q] \in 1..Len(t) /\ After(f, at, q) \in Nat
                             /\ After(f, at, q) > at[q] + 1
      /\ After(f, at, p) = at[p] + Len(c) /\ After(f, at, p) <= Len(t) + 1
      /\ \A i \in 1..Len(c) : t[at[p] + i - 1] = c[i]
  BY <1>1, PieceInStream DEF Consists, After
<1> HIDE DEF u, c
<1>5. at[p] = Len(s) + 1
  <2>1. at[p] > Len(s)
    BY <1>1
  <2>2. Len(s) + 1 \in 1..Len(t)
    BY <1>2, <1>4, <2>1
  <2>3. PICK q \in DOMAIN f : at[q] <= Len(s) + 1 /\ Len(s) + 1 < After(f, at, q)
    BY <1>1, <2>2 DEF Consists
  <2>4. q \notin d
    BY <1>1, <1>2, <1>4, <2>3
  <2>5. at[q] = Len(s) + 1
    BY <1>1, <1>2, <1>4, <2>3, <2>4
  <2>6. q = p
    <3> SUFFICES ASSUME q # p PROVE FALSE
      OBVIOUS
    <3>1. After(f, at, p) <= at[q]
      BY <1>1, <2>4 DEF InOrder
    <3> QED
      BY <1>2, <1>4, <2>1, <2>5, <3>1
  <2> QED
    BY <2>5, <2>6
<1>6. /\ Len(u) <= Len(t) /\ After(f, at, p) = Len(u) + 1
  BY <1>2, <1>3, <1>4, <1>5
<1>7. ASSUME NEW k \in 1..Len(u) PROVE u[k] = t[k]
  <2>1. CASE k <= Len(s)
    BY <1>1, <1>2, <1>3, <2>1
  <2>2. CASE k > Len(s)
    <3> DEFINE i == k - Len(s)
    <3>1. i \in 1..Len(c) /\ Len(s) + i = k /\ at[p] + i - 1 = k
      BY <1>2, <1>3, <1>5, <2>2
    <3>2. u[Len(s) + i] = c[i]
      BY <1>3, <3>1
    <3>3. t[at[p] + i - 1] = c[i]
      BY <1>4, <3>1
    <3> QED
      BY <3>1, <3>2, <3>3
  <2> QED
    BY <1>2, <2>1, <2>2
<1>8. ASSUME NEW q \in DOMAIN f
      PROVE  IF q \in d \cup {p} THEN After(f, at, q) <= Len(u) + 1 ELSE at[q] > Len(u)
  <2>1. CASE q = p
    BY <1>2, <1>3, <1>6, <2>1
  <2>2. CASE q # p /\ q \in d
    BY <1>1, <1>2, <1>3, <1>4, <2>2
  <2>3. CASE q # p /\ q \notin d
    <3>1. After(f, at, p) <= at[q]
      BY <1>1, <2>3 DEF InOrder
    <3> QED
      BY <1>2, <1>3, <1>4, <1>6, <2>3, <3>1
  <2> QED
    BY <2>1, <2>2, <2>3
<1>9. Begins(t, f, u, d \cup {p})
  BY <1>1, <1>6, <1>7, <1>8 DEF Begins
<1> QED
  BY <1>9 DEF u, c

\* When it has all the paths, it is all of the stream.
LEMMA BeginningEnds ==
  ASSUME NEW t \in Seq(Tokens), NEW f \in Entries, NEW s \in Seq(Tokens), NEW d,
         Begins(t, f, s, d), DOMAIN f \subseteq d
  PROVE  s = t
<1>1. PICK at :
    /\ Consists(t, f, at)
    /\ Len(s) <= Len(t) /\ \A k \in 1..Len(s) : s[k] = t[k]
    /\ \A q \in DOMAIN f : After(f, at, q) <= Len(s) + 1
  BY DEF Begins
<1>2. Len(s) \in Nat /\ Len(t) \in Nat
  OBVIOUS
<1>3. ~(Len(s) < Len(t))
  <2> SUFFICES ASSUME Len(s) < Len(t) PROVE FALSE
    OBVIOUS
  <2>1. Len(s) + 1 \in 1..Len(t)
    BY <1>2
  <2>2. PICK q \in DOMAIN f : Len(s) + 1 < After(f, at, q)
    BY <1>1, <2>1 DEF Consists
  <2>3. After(f, at, q) \in Nat
    BY <1>1, PieceInStream
  <2> QED
    BY <1>1, <1>2, <2>2, <2>3
<1>4. Len(s) = Len(t)
  BY <1>1, <1>2, <1>3
<1> QED
  BY <1>1, <1>2, <1>4

Hidden ==
  edits = 0 /\ (state_dir \in Paths => state_dir \in Ignored /\ index[state_dir] = NoEntry)
FilesNow == [p \in workspace_files |-> Work(p)]
Exact == [commit |-> head, ref |-> ref, status |-> Status, changed |-> ChangedPaths,
          entries |-> FilesNow]
\* An identity, but for the stream.
Told(id) == [commit |-> id.commit, ref |-> id.ref, status |-> id.status,
             changed |-> id.changed, entries |-> id.entries]

\* What is being read is as it was when it was inspected.
ReadingNow ==
  /\ stage \in {"read", "submodule_status"} =>
       /\ reading.path \in workspace_files /\ kind[reading.path] = reading.is
       /\ reading.is \in {"file", "symlink"} =>
            reading.mode = (kind[reading.path] = "file" /\ mode[reading.path])
  /\ stage = "submodule_status" => reading.data = data[reading.path]

\* The entries are those of the listed files, less what is still to be read, and
\* the second stream repeats the first.
InvHidden ==
  Hidden =>
    /\ stage \in Opened =>
         /\ DOMAIN partial.entries \subseteq workspace_files
         /\ workspace_files \subseteq DOMAIN partial.entries \cup todo \cup {reading.path}
         /\ todo \subseteq workspace_files
         /\ \A p \in DOMAIN partial.entries : partial.entries[p] = Work(p)
         /\ round = 2 => Begins(source.stream, source.entries,
                                partial.stream, DOMAIN partial.entries)
    /\ ReadingNow
    /\ HasSource => Told(source) = Exact
    /\ stage = "done" => Agree(source_after, source)

\* The identity that an undisturbed collection ends with.
LEMMA CompleteIsExact ==
  ASSUME Types, InvQuiet, InvHidden, Hidden, stage = "hash", todo = {}
  PROVE  Told(partial) = Exact
<1>1. partial \in [commit : Commits \cup {Unborn}, ref : Refs,
                    status : [Paths -> PathStatus], changed : SUBSET Paths,
                    stream : Seq(Tokens), entries : Entries]
  BY DEF Types, TypeProgram, Identity
<1>2. /\ partial.commit = head /\ partial.ref = ref /\ partial.status = Status
      /\ partial.changed = ChangedPaths
  BY DEF InvQuiet, Hidden, QuietReports, Underway, Opened, Early
<1>3. partial.entries = FilesNow
  <2>1. reading.path \notin workspace_files
    BY PathAssumption DEF Types, InvReading, NoReading, workspace_files, Cached, Others
  <2>2. DOMAIN partial.entries = workspace_files
    BY <2>1 DEF InvHidden, Opened
  <2>3. \A p \in workspace_files : partial.entries[p] = Work(p)
    BY <2>2 DEF InvHidden, Opened
  <2>4. PICK s \in SUBSET Paths : partial.entries \in [s -> Entry]
    BY <1>1 DEF Entries
  <2> QED
    BY <2>2, <2>3, <2>4 DEF FilesNow
<1> QED
  BY <1>2, <1>3 DEF Exact, Told

\* The second one agrees with the first.
LEMMA CompleteAgrees ==
  ASSUME Types, InvQuiet, InvHidden, Hidden, stage = "hash", todo = {}, round = 2
  PROVE  Agree(partial, source)
<1>1. Told(partial) = Exact /\ Told(source) = Exact
  BY CompleteIsExact DEF InvHidden, HasSource
<1>2. /\ partial.commit = source.commit /\ partial.ref = source.ref
      /\ partial.status = source.status /\ partial.changed = source.changed
      /\ partial.entries = source.entries
  BY <1>1 DEF Told, Exact
<1>3. partial.stream = source.stream
  <2>1. /\ source.stream \in Seq(Tokens) /\ source.entries \in Entries
        /\ partial.stream \in Seq(Tokens)
    BY DEF Types, TypeProgram, Identity
  <2>2. Begins(source.stream, source.entries, partial.stream, DOMAIN partial.entries)
    BY DEF InvHidden, Opened
  <2> QED
    BY <1>2, <2>1, <2>2, BeginningEnds
<1> QED
  BY <1>2, <1>3 DEF Agree

LEMMA ExactStays ==
  ASSUME UNCHANGED world
  PROVE  UNCHANGED Exact /\ \A p : Work(p)' = Work(p)
<1>1. UNCHANGED <<Status, ChangedPaths, workspace_files>>
  BY GitStays
<1>2. \A p : Work(p)' = Work(p)
  BY DEF Work, Seen
<1>3. UNCHANGED FilesNow
  BY <1>1, <1>2 DEF FilesNow
<1> QED
  BY <1>1, <1>2, <1>3 DEF Exact

\* What the store writes where git does not look changes no identity.
LEMMA StoreUnseen ==
  ASSUME Types, Hidden, StoreWrites
  PROVE  UNCHANGED Exact
<1>1. PICK d \in Data : Put(state_dir, "file", d, mode[state_dir])
  BY DEF StoreWrites
<1>2. /\ state_dir \in Paths /\ state_dir \in Ignored /\ index[state_dir] = NoEntry
      /\ UNCHANGED <<index, head, trees, ref>>
  BY <1>1, PathAssumption DEF StoreWrites, Hidden, Types, TypeProgram, Put
<1>3. \A p \in Paths \ {state_dir} : /\ kind'[p] = kind[p] /\ data'[p] = data[p]
                                     /\ mode'[p] = mode[p]
  BY <1>1, <1>2 DEF Put, Types, TypeWorld
<1>4. \A p \in Paths \ {state_dir} : Work(p)' = Work(p)
  BY <1>3 DEF Work, Seen
<1>5. UNCHANGED tree /\ UNCHANGED Cached
  BY <1>2 DEF tree, Cached
<1>6. UNCHANGED Others
  <2>1. state_dir \notin Others /\ state_dir \notin Others'
    BY <1>2 DEF Others
  <2>2. \A p \in Paths \ {state_dir} : p \in Others' <=> p \in Others
    BY <1>2, <1>3 DEF Others
  <2> QED
    BY <2>1, <2>2 DEF Others
<1>7. UNCHANGED workspace_files /\ state_dir \notin workspace_files
  BY <1>2, <1>5, <1>6 DEF workspace_files, Cached, Others
<1>8. UNCHANGED FilesNow
  <2>1. \A p \in workspace_files : Work(p)' = Work(p)
    BY <1>4, <1>7 DEF workspace_files, Cached, Others
  <2> QED
    BY <1>7, <2>1 DEF FilesNow
<1>9. UNCHANGED DiffCached
  BY <1>2, <1>5 DEF DiffCached
<1>10. UNCHANGED DiffHead
  <2>1. \A p \in Paths : p \in DiffHead' <=> p \in DiffHead
    <3> SUFFICES ASSUME NEW p \in Paths PROVE p \in DiffHead' <=> p \in DiffHead
      OBVIOUS
    <3>1. CASE p = state_dir
      BY <1>2, <1>5, <3>1 DEF DiffHead
    <3>2. CASE p # state_dir
      BY <1>2, <1>3, <1>4, <1>5, <3>2 DEF DiffHead
    <3> QED
      BY <3>1, <3>2
  <2> QED
    BY <2>1 DEF DiffHead
<1>11. UNCHANGED Status
  <2>1. \A p \in Paths :
          (index[p] # NoEntry /\ Work(p) # index[p])' = (index[p] # NoEntry /\ Work(p) # index[p])
    BY <1>2, <1>4
  <2> QED
    BY <1>2, <1>5, <1>6, <2>1 DEF Status
<1> QED
  BY <1>2, <1>6, <1>7, <1>8, <1>9, <1>10, <1>11 DEF Exact, ChangedPaths

\* Reading of files: Hidden is about the world, which stays.
LEMMA HiddenHashing ==
  ASSUME Types, InvEntries, InvStreams, InvQuiet, InvHidden, Hashing
  PROVE  InvHidden'
<1>1. /\ UNCHANGED <<world, edits, state_dir, source, round>>
      /\ UNCHANGED <<Others, Cached, workspace_files, Exact>>
      /\ \A p : Work(p)' = Work(p)
  BY WorldStays, SourceStays, GitStays, ExactStays
<1>2. UNCHANGED Hidden
  BY <1>1 DEF Hidden
<1>3. UNCHANGED HasSource /\ stage' # "done"
  BY <1>1, CollectionStages DEF HasSource, Early
<1>4. SUFFICES ASSUME Hidden, stage' # "failed"
               PROVE  /\ DOMAIN partial'.entries \subseteq workspace_files
                      /\ workspace_files \subseteq
                           DOMAIN partial'.entries \cup todo' \cup {reading'.path}
                      /\ todo' \subseteq workspace_files
                      /\ \A p \in DOMAIN partial'.entries : partial'.entries[p] = Work(p)
                      /\ round = 2 => Begins(source.stream, source.entries,
                                             partial'.stream, DOMAIN partial'.entries)
                      /\ ReadingNow'
  <2>1. ASSUME Hidden, stage' = "failed" PROVE ReadingNow'
    BY <2>1 DEF ReadingNow
  <2>2. /\ Told(source)' = Told(source)
        /\ Begins(source.stream, source.entries, partial.stream, DOMAIN partial.entries)'
             = Begins(source.stream, source.entries, partial'.stream, DOMAIN partial'.entries)
    <3>1. source' = source
      BY <1>1
    <3>2. Told(source)' = Told(source)
      BY <3>1 DEF Told
    <3>3. Begins(source.stream, source.entries, partial.stream, DOMAIN partial.entries)'
            = Begins(source.stream, source.entries, partial'.stream, DOMAIN partial'.entries)
      BY <3>1
    <3> QED
      BY <3>2, <3>3
  <2> QED
    BY <1>1, <1>2, <1>3, <1>4, <2>1, <2>2 DEF InvHidden, Opened
<1>5. CASE List
  <2>1. DOMAIN partial.entries = {} /\ partial' = partial /\ todo' = workspace_files
        /\ stage' = "hash"
    BY <1>4, <1>5 DEF List, InvEntries, Early
  <2>2. Begins(source.stream, source.entries, partial'.stream, DOMAIN partial'.entries)
    <3>1. /\ source.stream \in Seq(Tokens) /\ source.entries \in Entries
          /\ partial.stream \in Seq(Tokens)
      BY DEF Types, TypeProgram, Identity
    <3>2. IsStream(source.stream, source.entries) /\ IsStream(partial.stream, partial.entries)
      BY DEF InvStreams
    <3>3. partial.stream = <<>>
      BY <2>1, <3>1, <3>2, EmptyStream
    <3> QED
      BY <2>1, <3>1, <3>2, <3>3, NothingBegins
  <2> QED
    BY <2>1, <2>2 DEF ReadingNow
<1>6. CASE Inspect
  <2>1. PICK p \in todo :
          /\ kind[p] # None /\ stage' = "read" /\ todo' = todo \ {p}
          /\ reading' = [path |-> p, is |-> kind[p], mode |-> kind[p] = "file" /\ mode[p]]
    BY <1>4, <1>6 DEF Inspect
  <2>2. stage = "hash" /\ partial' = partial
    BY <1>6 DEF Inspect
  <2>3. reading'.path = p /\ reading'.is = kind[p]
        /\ reading'.mode = (kind[p] = "file" /\ mode[p])
    BY <2>1
  <2>4. reading.path \notin workspace_files
    BY <2>2, PathAssumption DEF Types, InvReading, NoReading, workspace_files, Cached, Others
  <2>5. ReadingNow'
    BY <1>1, <1>4, <2>1, <2>2, <2>3 DEF InvHidden, ReadingNow, Opened
  <2> QED
    BY <1>4, <2>1, <2>2, <2>3, <2>4, <2>5 DEF InvHidden, Opened
<1>7. ASSUME NEW d, NEW m, AddEntry(d, m), stage \in {"read", "submodule_status"},
             stage' = "hash", UNCHANGED todo,
             Work(reading.path) = [is |-> reading.is, data |-> d, mode |-> m]
      PROVE  /\ DOMAIN partial'.entries \subseteq workspace_files
             /\ workspace_files \subseteq
                  DOMAIN partial'.entries \cup todo' \cup {reading'.path}
             /\ todo' \subseteq workspace_files
             /\ \A p \in DOMAIN partial'.entries : partial'.entries[p] = Work(p)
             /\ round = 2 => Begins(source.stream, source.entries,
                                    partial'.stream, DOMAIN partial'.entries)
             /\ ReadingNow'
  <2> DEFINE e == [q \in DOMAIN partial.entries \cup {reading.path} |->
                     IF q = reading.path THEN [is |-> reading.is, data |-> d, mode |-> m]
                     ELSE partial.entries[q]]
  <2>1. partial'.entries = e
    BY <1>7 DEF AddEntry, Types, TypeProgram, Identity
  <2>2. /\ DOMAIN partial.entries \subseteq workspace_files
        /\ reading.path \in workspace_files
        /\ workspace_files \subseteq DOMAIN partial.entries \cup todo \cup {reading.path}
        /\ todo \subseteq workspace_files
        /\ \A p \in DOMAIN partial.entries : partial.entries[p] = Work(p)
    BY <1>4, <1>7 DEF InvHidden, ReadingNow, Opened
  <2>3. ReadingNow'
    BY <1>7 DEF ReadingNow
  <2>4. ASSUME round = 2
        PROVE  Begins(source.stream, source.entries, partial'.stream, DOMAIN partial'.entries)
    <3>1. /\ source.stream \in Seq(Tokens) /\ source.entries \in Entries
          /\ partial.stream \in Seq(Tokens)
      BY DEF Types, TypeProgram, Identity
    <3>2. source.entries = FilesNow
      BY <1>4, <2>4 DEF InvHidden, HasSource, Told, Exact
    <3>3. /\ reading.path \in DOMAIN source.entries
          /\ source.entries[reading.path] = Work(reading.path)
      BY <2>2, <3>2 DEF FilesNow
    <3>4. partial'.stream = partial.stream \o Piece(reading.path, source.entries[reading.path])
      BY <1>7, <3>3 DEF AddEntry, Types, TypeProgram, Identity
    <3>5. DOMAIN partial'.entries = DOMAIN partial.entries \cup {reading.path}
      BY <2>1
    <3>6. Begins(source.stream, source.entries, partial.stream, DOMAIN partial.entries)
      BY <1>4, <1>7, <2>4 DEF InvHidden, Opened
    <3>7. reading.path \notin DOMAIN partial.entries
      <4>1. \A p \in DOMAIN partial.entries : Rank[p] < Rank[reading.path]
        BY <1>7 DEF InvStreams
      <4>2. Rank[reading.path] \in Nat
        BY <1>7, PathAssumption DEF Types, InvReading
      <4> QED
        BY <4>1, <4>2
    <3>8. \A q \in DOMAIN source.entries \ (DOMAIN partial.entries \cup {reading.path}) :
            Rank[reading.path] < Rank[q]
      <4>1. \A q \in todo : Rank[reading.path] < Rank[q]
        BY <1>7 DEF InvStreams
      <4> QED
        BY <2>2, <3>2, <4>1 DEF FilesNow
    <3> QED
      BY <3>1, <3>3, <3>4, <3>5, <3>6, <3>7, <3>8, BeginningContinues
  <2> QED
    BY <1>7, <2>1, <2>2, <2>3, <2>4
<1>8. CASE ReadEntry
  <2>1. /\ stage = "read" /\ reading.is # "submodule" /\ stage' = "hash" /\ UNCHANGED todo
        /\ reading.path \in workspace_files /\ kind[reading.path] = reading.is
    BY <1>4, <1>8 DEF ReadEntry, InvHidden, ReadingNow
  <2>2. AddEntry(data[reading.path], reading.mode)
    BY <1>4, <1>8, <2>1 DEF ReadEntry
  <2>3. reading.is \in {"file", "symlink"} /\ mode[reading.path] \in BOOLEAN
    BY <2>1 DEF Types, InvReading, TypeWorld, Kinds
  <2>4. reading.mode = (reading.is = "file" /\ mode[reading.path])
    BY <1>4, <2>1, <2>3 DEF InvHidden, ReadingNow
  <2>5. Work(reading.path) = [is |-> reading.is, data |-> data[reading.path],
                              mode |-> reading.mode]
    <3>1. (kind[reading.path] # "symlink" /\ mode[reading.path]) = reading.mode
      BY <2>1, <2>3, <2>4
    <3>2. kind[reading.path] # None
      BY <2>1, <2>3 DEF None
    <3> QED
      BY <2>1, <3>1, <3>2 DEF Work, Seen
  <2> QED
    BY <1>7, <2>1, <2>2, <2>5
<1>9. CASE ReadSubmodule
  <2>1. /\ stage = "read" /\ stage' = "submodule_status" /\ UNCHANGED <<todo, partial>>
        /\ reading' = [path |-> reading.path, is |-> "submodule", data |-> data[reading.path]]
        /\ kind[reading.path] = "submodule"
    BY <1>4, <1>9 DEF ReadSubmodule
  <2>2. reading.path \in workspace_files
    BY <1>4, <2>1 DEF InvHidden, ReadingNow
  <2>3. /\ reading'.path = reading.path /\ reading'.is = "submodule"
        /\ reading'.data = data[reading.path]
    BY <2>1
  <2>4. ReadingNow'
    BY <1>1, <2>1, <2>2, <2>3 DEF ReadingNow
  <2> QED
    BY <1>4, <2>1, <2>3, <2>4 DEF InvHidden, Opened
<1>10. CASE ReadSubmoduleStatus
  <2>1. /\ stage = "submodule_status" /\ stage' = "hash" /\ UNCHANGED todo
        /\ AddEntry(reading.data, mode[reading.path])
    BY <1>4, <1>10 DEF ReadSubmoduleStatus
  <2>2. /\ reading.is = "submodule" /\ kind[reading.path] = "submodule"
        /\ reading.data = data[reading.path] /\ reading.path \in Paths
    BY <1>4, <2>1 DEF InvHidden, ReadingNow, Types, InvReading
  <2>3. Work(reading.path) = [is |-> reading.is, data |-> reading.data,
                              mode |-> mode[reading.path]]
    <3>1. (kind[reading.path] # "symlink" /\ mode[reading.path]) = mode[reading.path]
      BY <2>2 DEF Types, TypeWorld
    <3> QED
      BY <2>2, <3>1 DEF Work, Seen, None
  <2> QED
    BY <1>7, <2>1, <2>3
<1> QED
  BY <1>5, <1>6, <1>8, <1>9, <1>10 DEF Hashing

LEMMA HiddenKept ==
  ASSUME Types, InvEntries, InvStreams, InvRun, InvQuiet, InvHidden, [Next]_vars
  PROVE  InvHidden'
<1>1. CASE Collecting
  <2>1. /\ UNCHANGED <<world, edits, state_dir, source, round, Exact>>
        /\ stage' \notin Opened \cup {"discover", "checks", "done"}
    BY <1>1, WorldStays, SourceStays, ExactStays, CommandStep DEF Opened, Early, Types
  <2>2. stage \in Early
    BY <1>1, CommandStep DEF Types
  <2> QED
    BY <2>1, <2>2 DEF InvHidden, Hidden, HasSource, ReadingNow, Opened, Early
<1>2. CASE Identified
  <2>1. /\ UNCHANGED <<world, edits, state_dir>> /\ stage = "hash" /\ todo = {}
        /\ stage' = "discover" /\ source' = partial
    BY <1>2 DEF Identified
  <2>2. UNCHANGED <<Hidden, Exact>>
    BY <2>1, ExactStays DEF Hidden
  <2> QED
    BY <2>1, <2>2, CompleteIsExact DEF InvHidden, ReadingNow, Opened
<1>3. CASE Discover \/ IdentifyAgain
  <2>1. /\ UNCHANGED <<world, edits, state_dir, source>> /\ HasSource
        /\ stage' \notin Opened \cup {"done"}
    BY <1>3 DEF Discover, IdentifyAgain, HasSource, Opened
  <2>2. UNCHANGED <<Hidden, Exact>>
    BY <2>1, ExactStays DEF Hidden
  <2> QED
    BY <2>1, <2>2 DEF InvHidden, ReadingNow, Opened
<1>4. CASE IdentifiedAgain
  <2>1. /\ UNCHANGED <<world, edits, state_dir, source>> /\ HasSource /\ round = 2
        /\ stage = "hash" /\ todo = {} /\ stage' = "done" /\ source_after' = partial
    BY <1>4 DEF IdentifiedAgain, HasSource
  <2>2. UNCHANGED <<Hidden, Exact>>
    BY <2>1, ExactStays DEF Hidden
  <2>3. /\ Agree(source_after, source)' = Agree(partial, source)
        /\ Told(source)' = Told(source)
    BY <2>1 DEF Agree, Told
  <2>4. Hidden => Agree(partial, source)
    BY <2>1, CompleteAgrees
  <2> QED
    BY <2>1, <2>2, <2>3, <2>4 DEF InvHidden, ReadingNow, Opened
<1>5. CASE StoreWrites
  <2>1. UNCHANGED <<stage, round, source, edits, state_dir, index>> /\ stage = "checks"
    BY <1>5 DEF StoreWrites, Put
  <2>2. UNCHANGED Hidden
    BY <2>1 DEF Hidden
  <2>3. Hidden => UNCHANGED Exact
    BY <1>5, StoreUnseen
  <2> QED
    BY <2>1, <2>2, <2>3 DEF InvHidden, ReadingNow, Opened, HasSource
<1>6. CASE Edit
  <2>1. edits' = edits + 1 /\ edits \in Nat
    BY <1>6, EditAssumption DEF Edit, Types, TypeHistory
  <2> QED
    BY <2>1 DEF InvHidden, Hidden
<1>7. CASE UNCHANGED vars
  <2>1. UNCHANGED <<workspace_files, Exact>> /\ \A p : Work(p)' = Work(p)
    BY <1>7, GitStays, ExactStays
  <2> QED
    BY <1>7, <2>1 DEF InvHidden, Hidden, ReadingNow, HasSource
<1> QED
  BY <1>1, <1>2, <1>3, <1>4, <1>5, <1>6, <1>7, HiddenHashing
     DEF Next, Collect, Collecting, Hashing, Ended

\* Without an edit the source is unchanged, unless git lists what the run's own
\* store writes.
THEOREM NoFalseAlarm == Spec => []MismatchHasCause
<1>1. Init => InvHidden
  <2> SUFFICES ASSUME Init PROVE InvHidden
    OBVIOUS
  <2>1. stage = "head" /\ round = 1
    BY DEF Init
  <2> QED
    BY <2>1 DEF InvHidden, ReadingNow, HasSource, Opened
<1>2. InvHidden /\ IInv /\ InvQuiet /\ [Next]_vars => InvHidden'
  BY HiddenKept DEF IInv
<1>3. IInv /\ InvHidden => MismatchHasCause
  <2> SUFFICES ASSUME Types, InvHidden, stage = "done", ~Agree(source_after, source)
               PROVE  \/ edits > 0
                      \/ /\ state_dir \in Paths
                         /\ state_dir \notin Ignored \/ index[state_dir] # NoEntry
    BY DEF IInv, MismatchHasCause
  <2>1. ~Hidden
    BY DEF InvHidden
  <2>2. edits \in Nat
    BY EditAssumption DEF Types, TypeHistory
  <2> QED
    BY <2>1, <2>2 DEF Hidden
<1> QED
  BY <1>1, <1>2, <1>3, Quietness, Invariance, PTL DEF Spec
=============================================================================
