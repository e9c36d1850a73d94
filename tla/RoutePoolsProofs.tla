-------------------------- MODULE RoutePoolsProofs --------------------------
(***************************************************************************)
(* The linked lists of route.c, for pools, addresses and lifetimes of any  *)
(* size: no element is lost, a pending entry goes by time only, and the    *)
(* lists implement the sequence of RouteSet step by step.                  *)
(***************************************************************************)
EXTENDS RoutePools, RouteTableProofs, FiniteSetTheorems

Lists == {"route", "pending"}
Cell ==
  [first : Addr \cup {NULL}, second : Addr \cup {NULL},
   mid : 0 .. TIMEOUT_RANGE - 1, low : Nat]
Memory ==
  [head : [Lists -> Element \cup {NULL}],
   next : [Element -> Element \cup {NULL}],
   used : SUBSET Element,
   cell : [Element -> Cell]]

(* Elements are numbers, NULL is none of them, and no element is in both   *)
(* pools.                                                                  *)
LEMMA TwoPools ==
  /\ Element \subseteq Nat /\ NULL \notin Element
  /\ DOMAIN Block = Lists
  /\ \A l \in Lists : Block[l] \subseteq Element
  /\ Block["route"] \cap Block["pending"] = {}
  /\ Element = Block["route"] \cup Block["pending"]
  /\ Block["route"] = 1 .. NUM_RS_ENTRIES
BY TableAssumption, PoolAssumption DEF Element, NULL, Block, Lists

-----------------------------------------------------------------------------
(* Where the walk along a chain goes from its element i (0: from a pointer *)
(* to the chain).                                                          *)
After(s, i) == IF i < Len(s) THEN s[i + 1] ELSE NULL

On(s, e) == \E l \in Lists : \E i \in 1 .. Len(s[l]) : s[l][i] = e

(* The words next link the elements of s into chains, and no others: no    *)
(* element is in two places of them, and those in none of them lead        *)
(* nowhere.                                                                *)
Laid(nx, s) ==
  /\ s \in [Lists -> Seq(Element)]
  /\ \A l, k \in Lists : \A i \in 1 .. Len(s[l]), j \in 1 .. Len(s[k]) :
       s[l][i] = s[k][j] => l = k /\ i = j
  /\ \A l \in Lists : \A i \in 1 .. Len(s[l]) : nx[s[l][i]] = After(s[l], i)
  /\ \A e \in Element : ~On(s, e) => nx[e] = NULL

Suffix(s, i) == SubSeq(s, i, Len(s))

LEMMA SuffixStep ==
  ASSUME NEW S, NEW s \in Seq(S), NEW i \in 1 .. Len(s)
  PROVE  Suffix(s, i) = <<s[i]>> \o (IF i < Len(s) THEN Suffix(s, i + 1) ELSE <<>>)
<1>1. Len(s) \in Nat
  BY LenProperties
<1>2. Suffix(s, i) = <<s[i]>> \o SubSeq(s, i + 1, Len(s))
  <2>1. Len(s) \in i .. Len(s)
    BY <1>1
  <2> QED BY <2>1, SubSeqRecursiveFirst DEF Suffix
<1>3. CASE i < Len(s)
  BY <1>2, <1>3 DEF Suffix
<1>4. CASE ~(i < Len(s))
  <2>1. SubSeq(s, i + 1, Len(s)) = <<>>
    BY <1>1, <1>4, SubSeqEmpty
  <2> QED BY <1>2, <1>4, <2>1
<1> QED BY <1>3, <1>4

(* The walk that ListOf recurs along.                                      *)
Walks(nx, f) ==
  f = [e \in Element \cup {NULL} |-> IF e = NULL THEN <<>> ELSE <<e>> \o f[nx[e]]]

(* There is such a walk: along the chains.                                 *)
LEMMA WalkExists ==
  ASSUME NEW nx \in [Element -> Element \cup {NULL}], NEW s, Laid(nx, s)
  PROVE  \E f : Walks(nx, f)
<1> DEFINE Is(p, e) == p[2] \in 1 .. Len(s[p[1]]) /\ s[p[1]][p[2]] = e
           Spot(e) == CHOOSE p \in Lists \X Nat : Is(p, e)
           Rest(e) == IF On(s, e) THEN Suffix(s[Spot(e)[1]], Spot(e)[2])
                      ELSE IF e = NULL THEN <<>> ELSE <<e>>
           W == [e \in Element \cup {NULL} |-> Rest(e)]
<1>1. ASSUME NEW l \in Lists, NEW i \in 1 .. Len(s[l])
      PROVE  Rest(s[l][i]) = Suffix(s[l], i)
  <2> DEFINE e == s[l][i]
             q == Spot(e)
  <2>1. On(s, e)
    BY DEF On
  <2>2. <<l, i>> \in Lists \X Nat /\ Is(<<l, i>>, e)
    <3>1. s[l] \in Seq(Element)
      BY DEF Laid
    <3>2. Len(s[l]) \in Nat
      BY <3>1, LenProperties, SMTT(30)
    <3> QED BY <3>2
  <2>3. q \in Lists \X Nat /\ Is(q, e)
    BY <2>2
  <2> HIDE DEF q
  <2>4. q[1] = l /\ q[2] = i
    BY <2>3 DEF Laid
  <2> QED BY <2>1, <2>4 DEF q
<1>2. ASSUME NEW l \in Lists, NEW i \in 1 .. Len(s[l])
      PROVE  s[l][i] \in Element
  BY ElementOfSeq DEF Laid
<1>3. ~On(s, NULL)
  BY <1>2, TwoPools DEF On
<1>4. W[NULL] = <<>>
  BY <1>3
<1>5. \A e \in Element \cup {NULL} : W[e] = Rest(e)
  OBVIOUS
<1> HIDE DEF Rest, W
<1>6. ASSUME NEW e \in Element
      PROVE  Rest(e) = <<e>> \o W[nx[e]]
  <2>1. CASE On(s, e)
    <3>1. PICK l \in Lists : \E i \in 1 .. Len(s[l]) : s[l][i] = e
      BY <2>1 DEF On
    <3>2. PICK i \in 1 .. Len(s[l]) : s[l][i] = e
      BY <3>1
    <3>3. s[l] \in Seq(Element) /\ Len(s[l]) \in Nat
      BY LenProperties DEF Laid
    <3>4. Rest(e) = <<e>> \o (IF i < Len(s[l]) THEN Suffix(s[l], i + 1) ELSE <<>>)
      BY <1>1, <3>2, <3>3, SuffixStep
    <3>5. nx[e] = After(s[l], i)
      BY <3>2 DEF Laid
    <3>6. CASE i < Len(s[l])
      <4>1. i + 1 \in 1 .. Len(s[l])
        BY <3>3, <3>6
      <4>2. nx[e] = s[l][i + 1] /\ nx[e] \in Element
        BY <1>2, <3>5, <3>6, <4>1 DEF After
      <4> QED BY <1>1, <1>5, <3>4, <3>6, <4>1, <4>2
    <3>7. CASE ~(i < Len(s[l]))
      BY <1>4, <3>4, <3>5, <3>7 DEF After
    <3> QED BY <3>6, <3>7
  <2>2. CASE ~On(s, e)
    <3>1. nx[e] = NULL
      BY <2>2 DEF Laid
    <3>2. Rest(e) = <<e>>
      BY <2>2, TwoPools DEF Rest
    <3>3. <<e>> \in Seq(Element)
      OBVIOUS
    <3>4. <<e>> \o <<>> = <<e>>
      BY <3>3, ConcatEmptySeq
    <3> QED BY <1>4, <3>1, <3>2, <3>4
  <2> QED BY <2>1, <2>2
<1>7. W = [e \in Element \cup {NULL} |-> IF e = NULL THEN <<>> ELSE <<e>> \o W[nx[e]]]
  <2>1. W = [e \in Element \cup {NULL} |-> Rest(e)]
    BY DEF W
  <2>2. ASSUME NEW e \in Element \cup {NULL}
        PROVE  Rest(e) = IF e = NULL THEN <<>> ELSE <<e>> \o W[nx[e]]
    <3>1. CASE e = NULL
      BY <1>4, <1>5, <3>1
    <3>2. CASE e # NULL
      BY <1>6, <3>2, SMTT(30)
    <3> QED BY <3>1, <3>2
  <2> QED BY <2>1, <2>2
<1> QED BY <1>7 DEF Walks

(* Whatever solution of its equation ListOf takes, from a place of a chain *)
(* it walks to the end of the chain.                                       *)
LEMMA WalkAlong ==
  ASSUME NEW nx \in [Element -> Element \cup {NULL}], NEW s, Laid(nx, s),
         NEW f, Walks(nx, f)
  PROVE  /\ f[NULL] = <<>>
         /\ \A l \in Lists : \A i \in 1 .. Len(s[l]) : f[s[l][i]] = Suffix(s[l], i)
<1>1. \A e \in Element : f[e] = <<e>> \o f[nx[e]]
  BY TwoPools DEF Walks
<1>2. f[NULL] = <<>>
  BY DEF Walks
<1>3. ASSUME NEW l \in Lists
      PROVE  \A i \in 1 .. Len(s[l]) : f[s[l][i]] = Suffix(s[l], i)
  <2> DEFINE n == Len(s[l])
             Bad == {k \in 0 .. n - 1 : f[s[l][n - k]] # Suffix(s[l], n - k)}
  <2>1. s[l] \in Seq(Element) /\ n \in Nat
    BY LenProperties DEF Laid
  <2>2. Bad = {}
    <3> SUFFICES ASSUME Bad # {} PROVE FALSE
      OBVIOUS
    <3> DEFINE m == Min(Bad)
    <3>1. Bad \subseteq Nat
      BY <2>1
    <3>2. m \in Bad /\ \A k \in Bad : m <= k
      <4> HIDE DEF Bad
      <4> QED BY <3>1, MinIsFirst
    <3> HIDE DEF m
    <3> DEFINE i == n - m
    <3>3. m \in 0 .. n - 1 /\ i \in 1 .. n /\ f[s[l][i]] # Suffix(s[l], i)
      BY <2>1, <3>2
    <3> HIDE DEF n
    <3>4. f[s[l][i]] = <<s[l][i]>> \o f[After(s[l], i)]
      <4>1. s[l][i] \in Element
        BY <2>1, <3>3, ElementOfSeq DEF n
      <4>2. nx[s[l][i]] = After(s[l], i)
        BY <3>3 DEF Laid, n
      <4> QED BY <1>1, <4>1, <4>2
    <3>5. Suffix(s[l], i) = <<s[l][i]>> \o (IF i < n THEN Suffix(s[l], i + 1) ELSE <<>>)
      BY <2>1, <3>3, SuffixStep DEF n
    <3>6. CASE i < n
      <4>1. m - 1 \in 0 .. n - 1 /\ n - (m - 1) = i + 1 /\ m - 1 < m
        BY <2>1, <3>3, <3>6
      <4>2. m - 1 \notin Bad
        <5> HIDE DEF Bad
        <5>1. ~(m <= m - 1)
          BY <3>3
        <5> QED BY <3>2, <5>1
      <4>3. f[s[l][i + 1]] = Suffix(s[l], i + 1)
        BY <4>1, <4>2
      <4> QED BY <3>3, <3>4, <3>5, <3>6, <4>3 DEF After, n
    <3>7. CASE ~(i < n)
      BY <1>2, <3>3, <3>4, <3>5, <3>7 DEF After, n
    <3> QED BY <3>6, <3>7
  <2>3. ASSUME NEW i \in 1 .. n
        PROVE  f[s[l][i]] = Suffix(s[l], i)
    <3>1. n - i \in 0 .. n - 1 /\ n - (n - i) = i
      BY <2>1
    <3> QED BY <2>2, <3>1
  <2> QED BY <2>3
<1> QED BY <1>2, <1>3

(* So the list at a pointer into a chain is what follows in the chain.     *)
LEMMA ListAlong ==
  ASSUME NEW m, m.next \in [Element -> Element \cup {NULL}], NEW s, Laid(m.next, s)
  PROVE  /\ \A l \in Lists : m.head[l] = NULL => ListOf(m, l) = <<>>
         /\ \A l, k \in Lists : \A i \in 1 .. Len(s[k]) :
              m.head[l] = s[k][i] => ListOf(m, l) = Suffix(s[k], i)
<1> DEFINE f == CHOOSE from :
              from = [e \in Element \cup {NULL} |->
                        IF e = NULL THEN <<>> ELSE <<e>> \o from[m.next[e]]]
<1>1. Walks(m.next, f)
  <2>1. PICK g : Walks(m.next, g)
    BY WalkExists
  <2> QED BY <2>1, Zenon DEF Walks
<1>2. \A l : ListOf(m, l) = f[m.head[l]]
  BY DEF ListOf
<1> HIDE DEF f
<1> QED BY <1>1, <1>2, WalkAlong

-----------------------------------------------------------------------------
(* The lists of memory m are those of s.                                   *)
Linked(m, s) ==
  /\ m \in Memory
  /\ Laid(m.next, s)
  /\ \A l \in Lists : m.head[l] = After(s[l], 0)

Members(list) == {list[i] : i \in 1 .. Len(list)}

LEMMA LinkedLists ==
  ASSUME NEW m, NEW s, Linked(m, s), NEW l \in Lists
  PROVE  /\ s[l] \in Seq(Element) /\ Len(s[l]) \in Nat
         /\ \A i \in 1 .. Len(s[l]) : s[l][i] \in Element
         /\ ListOf(m, l) = s[l]
         /\ InList(m, l) = Members(s[l])
<1>1. s[l] \in Seq(Element) /\ Len(s[l]) \in Nat
  BY LenProperties DEF Linked, Laid
<1>2. \A i \in 1 .. Len(s[l]) : s[l][i] \in Element
  BY <1>1, ElementOfSeq
<1>3. Laid(m.next, s) /\ m.next \in [Element -> Element \cup {NULL}]
  BY DEF Linked, Memory
<1>4. ListOf(m, l) = s[l]
  <2>1. CASE Len(s[l]) = 0
    <3>1. m.head[l] = NULL
      BY <2>1 DEF Linked, After
    <3>2. s[l] = <<>>
      BY <1>1, <2>1, EmptySeq
    <3> QED BY <1>3, <3>1, <3>2, ListAlong
  <2>2. CASE Len(s[l]) # 0
    <3>1. 1 \in 1 .. Len(s[l]) /\ m.head[l] = s[l][1]
      BY <1>1, <2>2 DEF Linked, After
    <3>2. ListOf(m, l) = Suffix(s[l], 1)
      BY <1>3, <3>1, ListAlong
    <3> QED BY <1>1, <3>2, SubSeqFull DEF Suffix
  <2> QED BY <2>1, <2>2
<1>5. DOMAIN s[l] = 1 .. Len(s[l])
  BY <1>1
<1>6. InList(m, l) = Members(s[l])
  BY <1>4, <1>5 DEF InList, Range, Members
<1> QED BY <1>1, <1>2, <1>4, <1>6

(* No element is in two places.                                            *)
LEMMA OnePlace ==
  ASSUME NEW m, NEW s, Linked(m, s),
         NEW l \in Lists, NEW k \in Lists, NEW i \in 1 .. Len(s[l]), NEW j \in 1 .. Len(s[k]),
         s[l][i] = s[k][j]
  PROVE  l = k /\ i = j
BY DEF Linked, Laid

LEMMA RemoveNothing ==
  ASSUME NEW m, NEW s, Linked(m, s), NEW l \in Lists, NEW e, e \notin Members(s[l])
  PROVE  list_remove(m, l, e) = m
BY LinkedLists DEF list_remove

LEMMA RemoveFields ==
  ASSUME NEW m, NEW s, Linked(m, s), NEW l \in Lists, NEW e \in Members(s[l])
  PROVE  LET r == list_remove(m, l, e)
         IN  /\ r.head = [m.head EXCEPT ![l] = IF @ = e THEN m.next[e] ELSE @]
             /\ \A b \in Element :
                  r.next[b] = IF b = e THEN NULL
                              ELSE IF b \in Members(s[l]) /\ m.next[b] = e THEN m.next[e]
                              ELSE m.next[b]
             /\ r.used = m.used /\ r.cell = m.cell
             /\ r \in Memory
<1> DEFINE Unlinked(b) == IF b = e THEN NULL
                          ELSE IF b \in {x \in Members(s[l]) : m.next[x] = e} THEN m.next[e]
                          ELSE m.next[b]
           nx == [b \in Element |-> Unlinked(b)]
           r == [m EXCEPT !.head[l] = IF @ = e THEN m.next[e] ELSE @, !.next = nx]
<1>1. list_remove(m, l, e) = r
  <2>1. InList(m, l) = Members(s[l])
    BY LinkedLists
  <2> QED BY <2>1, Zenon DEF list_remove
<1>2. m \in Memory /\ e \in Element
  BY LinkedLists DEF Linked, Members
<1>3. nx \in [Element -> Element \cup {NULL}]
  BY <1>2 DEF Memory
<1>4. \A b \in Element :
        nx[b] = IF b = e THEN NULL
                ELSE IF b \in Members(s[l]) /\ m.next[b] = e THEN m.next[e]
                ELSE m.next[b]
  OBVIOUS
<1> HIDE DEF nx
<1>5. r.head = [m.head EXCEPT ![l] = IF @ = e THEN m.next[e] ELSE @]
  BY <1>2 DEF Memory
<1>6. r.next = nx /\ r.used = m.used /\ r.cell = m.cell /\ r \in Memory
  BY <1>2, <1>3 DEF Memory
<1> QED BY <1>1, <1>4, <1>5, <1>6

(* list_remove takes the element out of its chain.                         *)
LEMMA Unlink ==
  ASSUME NEW m, NEW s, Linked(m, s), NEW l \in Lists, NEW i \in 1 .. Len(s[l])
  PROVE  LET r == list_remove(m, l, s[l][i])
         IN  /\ Linked(r, [s EXCEPT ![l] = RemoveAt(s[l], i)])
             /\ r.used = m.used /\ r.cell = m.cell
<1> DEFINE e == s[l][i]
           r == list_remove(m, l, e)
           t == RemoveAt(s[l], i)
           z == [s EXCEPT ![l] = t]
           n == Len(s[l])
           Old(k, j) == IF k = l THEN Skip(i, j) ELSE j
<1>1. /\ s \in [Lists -> Seq(Element)] /\ m \in Memory
      /\ \A k \in Lists : s[k] \in Seq(Element) /\ Len(s[k]) \in Nat
      /\ \A k \in Lists : \A j \in 1 .. Len(s[k]) : s[k][j] \in Element
      /\ \A k \in Lists : m.head[k] = After(s[k], 0)
      /\ \A k \in Lists : \A j \in 1 .. Len(s[k]) : m.next[s[k][j]] = After(s[k], j)
      /\ \A b \in Element : ~On(s, b) => m.next[b] = NULL
  BY LinkedLists DEF Linked, Laid
<1>2. /\ t \in Seq(Element) /\ Len(t) = n - 1
      /\ \A j \in 1 .. n - 1 : Skip(i, j) \in 1 .. n /\ Skip(i, j) # i /\ t[j] = s[l][Skip(i, j)]
  <2>1. s[l] \in Seq(Element)
    BY <1>1
  <2> QED BY <2>1, RemoveAtElements
<1>3. /\ r.head = [m.head EXCEPT ![l] = IF @ = e THEN m.next[e] ELSE @]
      /\ \A b \in Element :
           r.next[b] = IF b = e THEN NULL
                       ELSE IF b \in Members(s[l]) /\ m.next[b] = e THEN m.next[e]
                       ELSE m.next[b]
      /\ r.used = m.used /\ r.cell = m.cell
      /\ r \in Memory
  <2>1. e \in Members(s[l])
    BY DEF Members
  <2> QED BY <2>1, RemoveFields
<1> HIDE DEF r, t
<1>4. z \in [Lists -> Seq(Element)] /\ z[l] = t /\ \A k \in Lists : k # l => z[k] = s[k]
  BY <1>1, <1>2
<1> HIDE DEF z
<1>5. ASSUME NEW k \in Lists, NEW j \in 1 .. Len(z[k])
      PROVE  /\ Old(k, j) \in 1 .. Len(s[k]) /\ z[k][j] = s[k][Old(k, j)]
             /\ z[k][j] # e /\ z[k][j] \in Element
  <2>1. Old(k, j) \in 1 .. Len(s[k]) /\ z[k][j] = s[k][Old(k, j)] /\ ~(k = l /\ Old(k, j) = i)
    BY <1>1, <1>2, <1>4
  <2> QED BY <1>1, <2>1, OnePlace
<1>6. ASSUME NEW k \in Lists, NEW o \in 1 .. Len(s[k]), ~(k = l /\ o = i)
      PROVE  \E j \in 1 .. Len(z[k]) : Old(k, j) = o
  <2>1. CASE k = l
    <3> DEFINE j == IF o < i THEN o ELSE o - 1
    <3>1. j \in 1 .. n - 1 /\ Skip(i, j) = o
      BY <1>1, <1>6, <2>1 DEF Skip
    <3> QED BY <1>2, <1>4, <2>1, <3>1
  <2>2. CASE k # l
    BY <1>4, <2>2
  <2> QED BY <2>1, <2>2
<1>7. ASSUME NEW h \in Lists, NEW k \in Lists,
             NEW x \in 1 .. Len(z[h]), NEW y \in 1 .. Len(z[k]), z[h][x] = z[k][y]
      PROVE  h = k /\ x = y
  <2>1. h = k /\ Old(h, x) = Old(k, y)
    <3> HIDE DEF Old
    <3>1. /\ Old(h, x) \in 1 .. Len(s[h]) /\ Old(k, y) \in 1 .. Len(s[k])
          /\ s[h][Old(h, x)] = s[k][Old(k, y)]
      BY <1>5, <1>7
    <3> QED BY <3>1, OnePlace
  <2>2. x \in Int /\ y \in Int /\ i \in Int
    BY <1>1, <1>2, <1>4
  <2> QED BY <2>1, <2>2 DEF Skip
<1>8. ASSUME NEW k \in Lists, NEW j \in 1 .. Len(z[k])
      PROVE  r.next[z[k][j]] = After(z[k], j)
  <2> DEFINE b == z[k][j]
             o == Old(k, j)
  <2>1. o \in 1 .. Len(s[k]) /\ b = s[k][o] /\ b # e /\ b \in Element /\ m.next[b] = After(s[k], o)
    BY <1>1, <1>5
  <2>2. b \in Members(s[l]) <=> k = l
    BY <2>1, OnePlace DEF Members
  <2>3. r.next[b] = IF k = l /\ m.next[b] = e THEN m.next[e] ELSE m.next[b]
    BY <1>3, <2>1, <2>2
  <2> HIDE DEF b
  <2>4. CASE k # l
    BY <1>4, <2>1, <2>3, <2>4 DEF b
  <2>5. CASE k = l
    <3> HIDE DEF o
    <3>1. m.next[b] = e <=> o + 1 = i
      <4>1. CASE o < n
        <5>1. o + 1 \in 1 .. n /\ m.next[b] = s[l][o + 1]
          BY <1>1, <2>1, <2>5, <4>1 DEF After
        <5> QED BY <5>1, OnePlace
      <4>2. CASE ~(o < n)
        <5>1. m.next[b] = NULL
          BY <2>1, <2>5, <4>2 DEF After
        <5>2. o + 1 # i
          BY <1>1, <2>1, <2>5, <4>2
        <5>3. e # NULL
          BY <1>1, TwoPools
        <5> QED BY <5>1, <5>2, <5>3
      <4> QED BY <4>1, <4>2
    <3>2. j \in 1 .. n - 1 /\ o = Skip(i, j) /\ n \in Nat
      BY <1>1, <1>2, <1>4, <2>5 DEF o
    <3>3. After(z[k], j) = IF j < n - 1 THEN s[l][Skip(i, j + 1)] ELSE NULL
      <4>1. CASE j < n - 1
        <5>1. j + 1 \in 1 .. n - 1
          BY <3>2, <4>1
        <5> QED BY <1>2, <1>4, <2>5, <4>1, <5>1 DEF After
      <4>2. CASE ~(j < n - 1)
        BY <1>2, <1>4, <2>5, <4>2 DEF After
      <4> QED BY <4>1, <4>2
    <3>4. CASE o + 1 = i
      <4>1. r.next[b] = After(s[l], i)
        BY <1>1, <2>3, <2>5, <3>1, <3>4
      <4>2. j = o /\ (j < n - 1 <=> i < n) /\ Skip(i, j + 1) = i + 1
        BY <3>2, <3>4 DEF Skip
      <4> QED BY <3>3, <4>1, <4>2 DEF After, b
    <3>5. CASE o + 1 # i
      <4>1. r.next[b] = After(s[l], o)
        BY <2>1, <2>3, <2>5, <3>1, <3>5
      <4>2. (j < n - 1 <=> o < n) /\ Skip(i, j + 1) = o + 1
        BY <3>2, <3>5 DEF Skip
      <4> QED BY <3>3, <4>1, <4>2 DEF After, b
    <3> QED BY <3>4, <3>5
  <2> QED BY <2>4, <2>5
<1>9. ASSUME NEW b \in Element, ~On(z, b)
      PROVE  r.next[b] = NULL
  <2>1. CASE b = e
    BY <1>3, <2>1
  <2>2. CASE b # e
    <3>1. ~On(s, b)
      <4> SUFFICES ASSUME NEW k \in Lists, NEW o \in 1 .. Len(s[k]), s[k][o] = b PROVE FALSE
        BY DEF On
      <4>1. PICK j \in 1 .. Len(z[k]) : Old(k, j) = o
        BY <1>6, <2>2
      <4>2. z[k][j] = b
        BY <1>5, <4>1
      <4> QED BY <1>9, <4>2 DEF On
    <3>2. b \notin Members(s[l])
      BY <3>1 DEF On, Members
    <3> QED BY <1>1, <1>3, <2>2, <3>1, <3>2
  <2> QED BY <2>1, <2>2
<1>10. ASSUME NEW k \in Lists
       PROVE  r.head[k] = After(z[k], 0)
  <2>1. CASE k # l
    BY <1>1, <1>3, <1>4, <2>1 DEF Memory
  <2>2. CASE k = l
    <3>1. m.head[l] = s[l][1] /\ 1 \in 1 .. n /\ n \in Nat
      BY <1>1 DEF After
    <3>2. r.head[l] = IF s[l][1] = e THEN m.next[e] ELSE s[l][1]
      BY <1>1, <1>3, <3>1 DEF Memory
    <3>3. s[l][1] = e <=> i = 1
      BY <3>1, OnePlace
    <3>4. CASE i = 1
      <4>1. r.head[l] = After(s[l], 1)
        BY <1>1, <3>1, <3>2, <3>3, <3>4
      <4>2. CASE n > 1
        <5>1. 1 \in 1 .. n - 1 /\ Skip(i, 1) = 2
          BY <3>1, <3>4, <4>2 DEF Skip
        <5> QED BY <1>2, <1>4, <2>2, <3>1, <4>1, <4>2, <5>1 DEF After
      <4>3. CASE ~(n > 1)
        BY <1>2, <1>4, <2>2, <3>1, <4>1, <4>3 DEF After
      <4> QED BY <4>2, <4>3
    <3>5. CASE i # 1
      <4>1. 1 \in 1 .. n - 1 /\ Skip(i, 1) = 1
        BY <3>1, <3>5 DEF Skip
      <4> QED BY <1>2, <1>4, <2>2, <3>1, <3>2, <3>3, <3>5, <4>1 DEF After
    <3> QED BY <3>4, <3>5
  <2> QED BY <2>1, <2>2
<1>11. Linked(r, z)
  BY <1>3, <1>4, <1>7, <1>8, <1>9, <1>10 DEF Linked, Laid
<1> QED BY <1>3, <1>11 DEF r, z, t

LEMMA PushFields ==
  ASSUME NEW m, NEW s, Linked(m, s), NEW l \in Lists, NEW e \in Element \ Members(s[l])
  PROVE  LET r == list_push(m, l, e)
         IN  /\ r.head = [m.head EXCEPT ![l] = e]
             /\ r.next = [m.next EXCEPT ![e] = m.head[l]]
             /\ r.used = m.used /\ r.cell = m.cell
             /\ r \in Memory
<1>1. m \in Memory
  BY DEF Linked
<1>2. list_push(m, l, e) = [m EXCEPT !.next[e] = m.head[l], !.head[l] = e]
  <2>1. list_remove(m, l, e) = m
    BY RemoveNothing
  <2>2. list_push(m, l, e) =
          [list_remove(m, l, e) EXCEPT !.next[e] = list_remove(m, l, e).head[l], !.head[l] = e]
    BY DEF list_push
  <2> QED BY <2>1, <2>2
<1> DEFINE hd == [m.head EXCEPT ![l] = e]
           nx == [m.next EXCEPT ![e] = m.head[l]]
           r == [m EXCEPT !.next = nx, !.head = hd]
<1>3. list_push(m, l, e) = r
  BY <1>1, <1>2 DEF Memory
<1>4. hd \in [Lists -> Element \cup {NULL}] /\ nx \in [Element -> Element \cup {NULL}]
  BY <1>1 DEF Memory
<1> HIDE DEF hd, nx
<1>5. r.head = hd /\ r.next = nx /\ r.used = m.used /\ r.cell = m.cell /\ r \in Memory
  BY <1>1, <1>4 DEF Memory
<1> QED BY <1>3, <1>5 DEF hd, nx

(* list_push puts an element that is in no chain in front of one.          *)
LEMMA Link ==
  ASSUME NEW m, NEW s, Linked(m, s), NEW l \in Lists, NEW e \in Element, ~On(s, e)
  PROVE  LET r == list_push(m, l, e)
         IN  /\ Linked(r, [s EXCEPT ![l] = Cons(e, s[l])])
             /\ r.used = m.used /\ r.cell = m.cell
<1> DEFINE r == list_push(m, l, e)
           t == Cons(e, s[l])
           z == [s EXCEPT ![l] = t]
           n == Len(s[l])
<1>1. /\ s \in [Lists -> Seq(Element)] /\ m \in Memory
      /\ \A k \in Lists : s[k] \in Seq(Element) /\ Len(s[k]) \in Nat
      /\ \A k \in Lists : \A j \in 1 .. Len(s[k]) : s[k][j] \in Element /\ s[k][j] # e
      /\ \A k \in Lists : m.head[k] = After(s[k], 0)
      /\ \A k \in Lists : \A j \in 1 .. Len(s[k]) : m.next[s[k][j]] = After(s[k], j)
      /\ \A b \in Element : ~On(s, b) => m.next[b] = NULL
  BY LinkedLists DEF Linked, Laid, On
<1>2. /\ t \in Seq(Element) /\ Len(t) = n + 1 /\ t[1] = e
      /\ \A j \in 2 .. n + 1 : t[j] = s[l][j - 1]
  <2> DEFINE w == s[l]
             u == Cons(e, w)
  <2>1. w \in Seq(Element) /\ e \in Element
    BY <1>1
  <2> HIDE DEF w
  <2>2. /\ u \in Seq(Element)
        /\ Len(u) = Len(w) + 1
        /\ u[1] = e
        /\ \A j \in 2 .. Len(w) + 1 : u[j] = w[j - 1]
    BY <2>1, ConsElements
  <2> QED BY <2>2 DEF w
<1>3. /\ r.head = [m.head EXCEPT ![l] = e]
      /\ r.next = [m.next EXCEPT ![e] = m.head[l]]
      /\ r.used = m.used /\ r.cell = m.cell
      /\ r \in Memory
  <2>1. e \in Element \ Members(s[l])
    BY <1>1 DEF Members
  <2> QED BY <2>1, PushFields
<1> HIDE DEF r, t
<1>3a. \A b \in Element : r.next[b] = IF b = e THEN After(s[l], 0) ELSE m.next[b]
  BY <1>1, <1>3 DEF Memory
<1>4. z \in [Lists -> Seq(Element)] /\ z[l] = t /\ \A k \in Lists : k # l => z[k] = s[k]
  BY <1>1, <1>2
<1> HIDE DEF z
<1> DEFINE New(k, j) == k = l /\ j = 1
           Old(k, j) == IF k = l THEN j - 1 ELSE j
<1>5. ASSUME NEW k \in Lists, NEW j \in 1 .. Len(z[k])
      PROVE  /\ j \in Nat
             /\ New(k, j) => z[k][j] = e
             /\ ~New(k, j) => /\ Old(k, j) \in 1 .. Len(s[k])
                              /\ z[k][j] = s[k][Old(k, j)]
                              /\ z[k][j] # e /\ z[k][j] \in Element
  <2>1. CASE k = l
    BY <1>1, <1>2, <1>4, <2>1
  <2>2. CASE k # l
    BY <1>1, <1>4, <2>2
  <2> QED BY <2>1, <2>2
<1>6. ASSUME NEW h \in Lists, NEW k \in Lists,
             NEW x \in 1 .. Len(z[h]), NEW y \in 1 .. Len(z[k]), z[h][x] = z[k][y]
      PROVE  h = k /\ x = y
  <2>1. CASE New(h, x) \/ New(k, y)
    BY <1>5, <1>6, <2>1
  <2>2. CASE ~New(h, x) /\ ~New(k, y)
    <3>1. h = k /\ Old(h, x) = Old(k, y)
      <4> HIDE DEF Old, New
      <4>1. /\ Old(h, x) \in 1 .. Len(s[h]) /\ Old(k, y) \in 1 .. Len(s[k])
            /\ s[h][Old(h, x)] = s[k][Old(k, y)]
        BY <1>5, <1>6, <2>2
      <4> QED BY <4>1, OnePlace
    <3>2. x \in Nat /\ y \in Nat
      BY <1>5
    <3> QED BY <3>1, <3>2
  <2> QED BY <2>1, <2>2
<1>7. ASSUME NEW k \in Lists, NEW j \in 1 .. Len(z[k])
      PROVE  r.next[z[k][j]] = After(z[k], j)
  <2>1. CASE New(k, j)
    <3>1. r.next[z[k][j]] = After(s[l], 0)
      <4>1. z[k][j] = e
        BY <1>5, <2>1
      <4> QED BY <1>3a, <4>1
    <3>2. CASE n = 0
      <4>1. j = 1 /\ z[k] = t
        BY <1>4, <2>1
      <4>2. Len(t) = 1
        BY <1>2, <3>2
      <4>3. After(z[k], j) = NULL /\ After(s[l], 0) = NULL
        BY <3>2, <4>1, <4>2 DEF After
      <4> QED BY <3>1, <4>3
    <3>3. CASE n # 0
      <4>1. 0 < n /\ j < Len(t) /\ j + 1 = 2 /\ 2 \in 2 .. n + 1
        BY <1>1, <1>2, <2>1, <3>3
      <4> QED BY <1>2, <1>4, <2>1, <3>1, <4>1 DEF After
    <3> QED BY <3>2, <3>3
  <2>2. CASE ~New(k, j)
    <3> DEFINE o == Old(k, j)
    <3>0. o \in 1 .. Len(s[k]) /\ z[k][j] = s[k][o] /\ z[k][j] # e /\ z[k][j] \in Element
      BY <1>5, <2>2
    <3>1. r.next[z[k][j]] = After(s[k], o) /\ o \in 1 .. Len(s[k])
      <4> HIDE DEF o
      <4> QED BY <1>1, <1>3a, <3>0
    <3>2. CASE k # l
      BY <1>4, <3>1, <3>2
    <3>3. CASE k = l
      <4>1. o = j - 1 /\ j \in Nat /\ n \in Nat /\ o \in 1 .. n
        BY <1>1, <1>5, <3>1, <3>3
      <4>2. CASE o < n
        <5>1. j < Len(t) /\ j + 1 \in 2 .. n + 1 /\ (j + 1) - 1 = o + 1
          BY <1>2, <4>1, <4>2
        <5> QED BY <1>2, <1>4, <3>1, <3>3, <4>2, <5>1 DEF After
      <4>3. CASE ~(o < n)
        <5>1. ~(j < Len(t))
          BY <1>2, <4>1, <4>3
        <5> QED BY <1>4, <3>1, <3>3, <4>3, <5>1 DEF After
      <4> QED BY <4>2, <4>3
    <3> QED BY <3>2, <3>3
  <2> QED BY <2>1, <2>2
<1>8. ASSUME NEW b \in Element, ~On(z, b)
      PROVE  r.next[b] = NULL
  <2>1. b # e
    <3>1. 1 \in 1 .. Len(z[l]) /\ z[l][1] = e
      BY <1>1, <1>2, <1>4
    <3> QED BY <1>8, <3>1 DEF On
  <2>2. ~On(s, b)
    <3> SUFFICES ASSUME NEW k \in Lists, NEW o \in 1 .. Len(s[k]), s[k][o] = b PROVE FALSE
      BY DEF On
    <3>1. CASE k = l
      <4>1. o + 1 \in 2 .. n + 1 /\ (o + 1) - 1 = o /\ o + 1 \in 1 .. Len(z[k])
        BY <1>1, <1>2, <1>4, <3>1
      <4> QED BY <1>2, <1>4, <1>8, <3>1, <4>1 DEF On
    <3>2. CASE k # l
      BY <1>4, <1>8, <3>2 DEF On
    <3> QED BY <3>1, <3>2
  <2> QED BY <1>1, <1>3, <2>1, <2>2 DEF Memory
<1>9. ASSUME NEW k \in Lists
      PROVE  r.head[k] = After(z[k], 0)
  <2>1. CASE k = l
    BY <1>1, <1>2, <1>3, <1>4, <2>1 DEF Memory, After
  <2>2. CASE k # l
    BY <1>1, <1>3, <1>4, <2>2 DEF Memory
  <2> QED BY <2>1, <2>2
<1>10. Linked(r, z)
  BY <1>3, <1>4, <1>6, <1>7, <1>8, <1>9 DEF Linked, Laid
<1> QED BY <1>3, <1>10 DEF r, z, t

(* An element of route_set that is pushed onto pending_set stays where it  *)
(* is and leads on into the pending entries: the lists share it.           *)
LEMMA Tangle ==
  ASSUME NEW m, NEW s, Linked(m, s), NEW i \in 1 .. Len(s["route"])
  PROVE  LET r == list_push(m, "pending", s["route"][i])
         IN  InList(r, "route") \cap InList(r, "pending") # {}
<1> DEFINE a == s["route"]
           p == s["pending"]
           e == a[i]
           n == Len(a)
           r == list_push(m, "pending", e)
           front == SubSeq(a, 1, i)
           back == SubSeq(a, i + 1, n)
           z == [l \in Lists |-> IF l = "route" THEN front \o p ELSE back]
           c == z["route"]
<1>0. "route" \in Lists /\ "pending" \in Lists
  BY DEF Lists
<1>1. /\ m \in Memory
      /\ a \in Seq(Element) /\ n \in Nat /\ p \in Seq(Element) /\ Len(p) \in Nat
      /\ \A j \in 1 .. n : a[j] \in Element
      /\ \A j \in 1 .. Len(p) : p[j] \in Element
      /\ m.head["route"] = After(a, 0) /\ m.head["pending"] = After(p, 0)
      /\ \A j \in 1 .. n : m.next[a[j]] = After(a, j)
      /\ \A j \in 1 .. Len(p) : m.next[p[j]] = After(p, j)
  BY <1>0, LinkedLists DEF Linked, Laid
<1>2. \A b \in Element : ~On(s, b) => m.next[b] = NULL
  BY DEF Linked, Laid
<1>3. /\ \A j, k \in 1 .. n : a[j] = a[k] => j = k
      /\ \A j, k \in 1 .. Len(p) : p[j] = p[k] => j = k
      /\ \A j \in 1 .. n, k \in 1 .. Len(p) : a[j] # p[k]
  BY <1>0, OnePlace
<1>4. front \in Seq(Element) /\ Len(front) = i /\ \A j \in 1 .. i : front[j] = a[j]
  <2>1. \A j \in 1 .. i : a[j] \in Element
    BY <1>1
  <2>2. /\ front \in Seq(Element)
        /\ Len(front) = IF 1 <= i THEN i - 1 + 1 ELSE 0
        /\ \A j \in 1 .. i - 1 + 1 : front[j] = a[1 + j - 1]
    BY <2>1, SubSeqProperties
  <2> QED BY <1>1, <2>2
<1>5. back \in Seq(Element) /\ Len(back) = n - i /\ \A j \in 1 .. n - i : back[j] = a[i + j]
  <2>1. \A j \in i + 1 .. n : a[j] \in Element
    BY <1>1
  <2>2. /\ back \in Seq(Element)
        /\ Len(back) = IF i + 1 <= n THEN n - (i + 1) + 1 ELSE 0
        /\ \A j \in 1 .. n - (i + 1) + 1 : back[j] = a[(i + 1) + j - 1]
    BY <1>1, <2>1, SubSeqProperties
  <2> QED BY <1>1, <2>2
<1> HIDE DEF front, back
<1>6. /\ z \in [Lists -> Seq(Element)]
      /\ Len(c) = i + Len(p)
      /\ \A j \in 1 .. i + Len(p) : c[j] = IF j <= i THEN a[j] ELSE p[j - i]
      /\ z["pending"] = back
  <2>1. /\ front \o p \in Seq(Element)
        /\ Len(front \o p) = Len(front) + Len(p)
        /\ \A j \in 1 .. Len(front) + Len(p) :
             (front \o p)[j] = IF j <= Len(front) THEN front[j] ELSE p[j - Len(front)]
    BY <1>1, <1>4, ConcatProperties
  <2>2. c = front \o p /\ z["pending"] = back
    BY <1>0
  <2>3. z \in [Lists -> Seq(Element)]
    BY <1>5, <2>1
  <2> HIDE DEF z
  <2>4. \A j \in 1 .. i + Len(p) : c[j] = IF j <= i THEN a[j] ELSE p[j - i]
    BY <1>1, <1>4, <2>1, <2>2
  <2> QED BY <1>4, <2>1, <2>2, <2>3, <2>4
<1> HIDE DEF z
<1>7. /\ r.head = [m.head EXCEPT !["pending"] = e]
      /\ r.next = [m.next EXCEPT ![e] = m.head["pending"]]
      /\ r \in Memory
  <2>1. e \in Element \ Members(p)
    BY <1>1, <1>3 DEF Members
  <2> HIDE DEF e
  <2> QED BY <1>0, <2>1, PushFields
<1> HIDE DEF r
<1>7a. \A b \in Element : r.next[b] = IF b = e THEN After(p, 0) ELSE m.next[b]
  BY <1>1, <1>7 DEF Memory
(* The route list of r is c: the routes up to e, then the pending entries. *)
<1>8. \A j \in 1 .. Len(c) : c[j] \in Element /\ r.next[c[j]] = After(c, j)
  <2> SUFFICES ASSUME NEW j \in 1 .. Len(c)
               PROVE  c[j] \in Element /\ r.next[c[j]] = After(c, j)
    OBVIOUS
  <2>1. CASE j < i
    <3>1. j + 1 \in 1 .. Len(c) /\ j < Len(c) /\ j \in 1 .. n /\ j < n
      BY <1>1, <1>6, <2>1
    <3>2. c[j] = a[j] /\ c[j + 1] = a[j + 1]
      BY <1>6, <2>1, <3>1
    <3>3. a[j] # e /\ a[j] \in Element /\ m.next[a[j]] = a[j + 1]
      BY <1>1, <1>3, <2>1, <3>1 DEF After
    <3> QED BY <1>7a, <3>1, <3>2, <3>3 DEF After
  <2>2. CASE j = i
    <3>1. c[j] = e /\ e \in Element
      BY <1>1, <1>6, <2>2
    <3>2. r.next[e] = After(p, 0)
      BY <1>7a, <3>1
    <3>3. CASE Len(p) = 0
      BY <1>6, <2>2, <3>1, <3>2, <3>3 DEF After
    <3>4. CASE Len(p) # 0
      <4>1. j + 1 \in 1 .. i + Len(p) /\ ~(j + 1 <= i) /\ (j + 1) - i = 1 /\ j < Len(c) /\ 0 < Len(p)
        BY <1>1, <1>6, <2>2, <3>4
      <4> QED BY <1>6, <3>1, <3>2, <4>1 DEF After
    <3> QED BY <3>3, <3>4
  <2>3. CASE j > i
    <3> DEFINE k == j - i
    <3>1. k \in 1 .. Len(p) /\ c[j] = p[k]
      BY <1>1, <1>6, <2>3
    <3>2. p[k] \in Element /\ p[k] # e /\ m.next[p[k]] = After(p, k)
      BY <1>1, <1>3, <3>1
    <3>3. r.next[c[j]] = After(p, k)
      BY <1>7a, <3>1, <3>2
    <3>4. CASE k < Len(p)
      <4>1. j + 1 \in 1 .. i + Len(p) /\ ~(j + 1 <= i) /\ (j + 1) - i = k + 1 /\ j < Len(c)
        BY <1>1, <1>6, <2>3, <3>1, <3>4
      <4> QED BY <1>6, <3>1, <3>2, <3>3, <3>4, <4>1 DEF After
    <3>5. CASE ~(k < Len(p))
      <4>1. ~(j < Len(c))
        BY <1>1, <1>6, <3>1, <3>5
      <4> QED BY <3>1, <3>2, <3>3, <3>5, <4>1 DEF After
    <3> QED BY <3>4, <3>5
  <2> QED BY <1>1, <1>6, <2>1, <2>2, <2>3
<1>9. \A j \in 1 .. Len(back) : /\ back[j] = a[i + j] /\ i + j \in 1 .. n
                                /\ r.next[back[j]] = After(back, j)
  <2> SUFFICES ASSUME NEW j \in 1 .. Len(back)
               PROVE  /\ back[j] = a[i + j] /\ i + j \in 1 .. n
                      /\ r.next[back[j]] = After(back, j)
    OBVIOUS
  <2>1. back[j] = a[i + j] /\ i + j \in 1 .. n /\ i + j # i
    BY <1>1, <1>5
  <2>2. a[i + j] \in Element /\ a[i + j] # e /\ m.next[a[i + j]] = After(a, i + j)
    BY <1>1, <1>3, <2>1
  <2>3. r.next[back[j]] = After(a, i + j)
    BY <1>7a, <2>1, <2>2
  <2>4. CASE j < n - i
    <3>1. i + j < n /\ j + 1 \in 1 .. n - i /\ i + (j + 1) = (i + j) + 1
      BY <1>1, <2>1, <2>4, <1>5
    <3> QED BY <1>5, <2>1, <2>3, <2>4, <3>1 DEF After
  <2>5. CASE ~(j < n - i)
    <3>1. ~(i + j < n)
      BY <1>1, <1>5, <2>1, <2>5
    <3> QED BY <1>5, <2>1, <2>3, <2>5, <3>1 DEF After
  <2> QED BY <2>1, <2>4, <2>5
<1>10. ASSUME NEW j \in 1 .. Len(c), NEW k \in 1 .. Len(c), c[j] = c[k]
       PROVE  j = k
  <2>1. ASSUME NEW x \in 1 .. Len(c), x > i
        PROVE  x - i \in 1 .. Len(p) /\ c[x] = p[x - i]
    BY <1>1, <1>6, <2>1
  <2>2. ASSUME NEW x \in 1 .. Len(c), x <= i
        PROVE  x \in 1 .. n /\ c[x] = a[x]
    BY <1>1, <1>6, <2>2
  <2>3. j \in Int /\ k \in Int /\ i \in Int
    BY <1>1, <1>6
  <2>4. CASE j > i /\ k > i
    <3>1. j - i \in 1 .. Len(p) /\ k - i \in 1 .. Len(p) /\ p[j - i] = p[k - i]
      BY <1>10, <2>1, <2>4
    <3>2. j - i = k - i
      BY <1>3, <3>1
    <3> QED BY <2>3, <3>2
  <2>5. CASE j <= i /\ k <= i
    BY <1>3, <1>10, <2>2, <2>5
  <2>6. CASE (j > i /\ k <= i) \/ (j <= i /\ k > i)
    BY <1>3, <1>10, <2>1, <2>2, <2>6
  <2> QED BY <2>3, <2>4, <2>5, <2>6
<1>11. ASSUME NEW j \in 1 .. Len(c), NEW k \in 1 .. Len(back)
       PROVE  c[j] # back[k]
  <2>1. back[k] = a[i + k] /\ i + k \in 1 .. n /\ i + k > i
    BY <1>1, <1>5, SMTT(30)
  <2>2. CASE j <= i
    <3>1. j \in 1 .. n /\ c[j] = a[j] /\ j # i + k
      BY <1>1, <1>6, <2>1, <2>2, SMTT(30)
    <3> QED BY <1>3, <2>1, <3>1
  <2>3. CASE j > i
    <3>1. j - i \in 1 .. Len(p) /\ c[j] = p[j - i]
      BY <1>1, <1>6, <2>3, SMTT(30)
    <3> QED BY <1>3, <2>1, <3>1
  <2> QED BY <1>1, <1>6, <2>2, <2>3
<1>12. ASSUME NEW j \in 1 .. Len(back), NEW k \in 1 .. Len(back), back[j] = back[k]
       PROVE  j = k
  <2>1. i + j = i + k
    BY <1>3, <1>9, <1>12
  <2> QED BY <1>1, <1>5, <2>1
<1>13. ASSUME NEW b \in Element, ~On(z, b)
       PROVE  r.next[b] = NULL
  <2>1. b # e
    <3>1. i \in 1 .. Len(c) /\ c[i] = e
      BY <1>1, <1>6
    <3> QED BY <1>0, <1>13, <3>1 DEF On
  <2>2. ASSUME NEW j \in 1 .. n
        PROVE  a[j] # b
    <3>1. CASE j <= i
      <4>1. j \in 1 .. Len(c) /\ c[j] = a[j]
        BY <1>1, <1>6, <3>1
      <4> QED BY <1>0, <1>13, <4>1 DEF On
    <3>2. CASE j > i
      <4>1. j - i \in 1 .. Len(back) /\ back[j - i] = a[j]
        BY <1>1, <1>5, <3>2
      <4> QED BY <1>0, <1>6, <1>13, <4>1 DEF On
    <3> QED BY <1>1, <3>1, <3>2
  <2>3. ASSUME NEW j \in 1 .. Len(p)
        PROVE  p[j] # b
    <3>1. i + j \in 1 .. Len(c) /\ ~(i + j <= i) /\ (i + j) - i = j
      BY <1>1, <1>6
    <3>2. c[i + j] = p[j]
      BY <1>6, <3>1
    <3> QED BY <1>0, <1>13, <3>1, <3>2 DEF On
  <2>4. ~On(s, b)
    BY <2>2, <2>3 DEF On, Lists
  <2> QED BY <1>1, <1>2, <1>7, <2>1, <2>4 DEF Memory
<1>14. Laid(r.next, z)
  <2>1. ASSUME NEW h \in Lists, NEW k \in Lists,
               NEW x \in 1 .. Len(z[h]), NEW y \in 1 .. Len(z[k]), z[h][x] = z[k][y]
        PROVE  h = k /\ x = y
    <3>1. z["pending"] = back
      BY <1>6
    <3>2. CASE h = "route" /\ k = "route"
      BY <1>10, <2>1, <3>2
    <3>3. CASE h = "pending" /\ k = "pending"
      BY <1>12, <2>1, <3>1, <3>3
    <3>4. CASE h # k
      BY <1>11, <2>1, <3>1, <3>4 DEF Lists
    <3> QED BY <3>2, <3>3, <3>4 DEF Lists
  <2>2. ASSUME NEW k \in Lists, NEW j \in 1 .. Len(z[k])
        PROVE  r.next[z[k][j]] = After(z[k], j)
    BY <1>6, <1>8, <1>9, <2>2 DEF Lists
  <2> QED BY <1>6, <1>13, <2>1, <2>2 DEF Laid
<1>15. 1 \in 1 .. Len(c) /\ i \in 1 .. Len(c) /\ c[1] = a[1] /\ c[i] = e
  BY <1>1, <1>6
<1>16. r.head["route"] = c[1] /\ r.head["pending"] = c[i]
  <2>1. r.head["pending"] = e /\ r.head["route"] = m.head["route"]
    BY <1>0, <1>7, <1>1 DEF Memory
  <2>2. m.head["route"] = a[1]
    BY <1>1 DEF After
  <2> QED BY <1>15, <2>1, <2>2
<1>17. r.next \in [Element -> Element \cup {NULL}]
  BY <1>7 DEF Memory
<1>18. ListOf(r, "route") = Suffix(c, 1) /\ ListOf(r, "pending") = Suffix(c, i)
  BY <1>0, <1>14, <1>15, <1>16, <1>17, ListAlong
<1>19. c \in Seq(Element) /\ Len(c) \in Nat
  BY <1>0, <1>1, <1>6
<1>20. e \in Range(Suffix(c, 1)) /\ e \in Range(Suffix(c, i))
  <2> HIDE DEF c, e
  <2>1. Suffix(c, 1) = c /\ DOMAIN c = 1 .. Len(c)
    BY <1>19, SubSeqFull DEF Suffix
  <2>2. /\ Suffix(c, i) \in Seq(Element)
        /\ Len(Suffix(c, i)) = Len(c) - i + 1
        /\ Suffix(c, i)[1] = c[i]
    <3>1. \A j \in i .. Len(c) : c[j] \in Element
      BY <1>8, <1>15, <1>19
    <3>2. /\ SubSeq(c, i, Len(c)) \in Seq(Element)
          /\ Len(SubSeq(c, i, Len(c))) = IF i <= Len(c) THEN Len(c) - i + 1 ELSE 0
          /\ \A j \in 1 .. Len(c) - i + 1 : SubSeq(c, i, Len(c))[j] = c[i + j - 1]
      BY <1>15, <1>19, <3>1, SubSeqProperties
    <3>3. 1 \in 1 .. Len(c) - i + 1 /\ i + 1 - 1 = i
      BY <1>15, <1>19
    <3> QED BY <1>15, <1>19, <3>2, <3>3 DEF Suffix
  <2>3. 1 \in DOMAIN Suffix(c, i)
    BY <1>15, <1>19, <2>2
  <2> QED BY <1>15, <2>1, <2>2, <2>3 DEF Range
<1> QED BY <1>18, <1>20 DEF InList, r

-----------------------------------------------------------------------------
(* The pools: list l holds elements of its own pool, all that are given    *)
(* away and no other.                                                      *)
Held(m, s) ==
  \A l \in Lists : Members(s[l]) \subseteq Block[l] /\ Members(s[l]) = m.used \cap Block[l]

Pooled(m, s) == Linked(m, s) /\ Held(m, s)

PoolSize(l) == IF l = "route" THEN NUM_RS_ENTRIES ELSE NUM_pending_ENTRIES

(* The elements that are left, or come to be, in a list.                   *)
LEMMA RemoveAtMembers ==
  ASSUME NEW w \in Seq(Element), \A j, k \in 1 .. Len(w) : w[j] = w[k] => j = k,
         NEW i \in 1 .. Len(w)
  PROVE  Members(RemoveAt(w, i)) = Members(w) \ {w[i]}
<1> DEFINE t == RemoveAt(w, i)
<1>1. /\ Len(t) = Len(w) - 1
      /\ \A k \in 1 .. Len(w) - 1 :
           Skip(i, k) \in 1 .. Len(w) /\ Skip(i, k) # i /\ t[k] = w[Skip(i, k)]
  BY RemoveAtElements
<1>2. Len(w) \in Nat
  BY LenProperties
<1> HIDE DEF t
<1>3. ASSUME NEW k \in 1 .. Len(t)
      PROVE  t[k] \in Members(w) \ {w[i]}
  BY <1>1 DEF Members
<1>4. ASSUME NEW o \in 1 .. Len(w), w[o] # w[i]
      PROVE  w[o] \in Members(t)
  <2> DEFINE k == IF o < i THEN o ELSE o - 1
  <2>1. k \in 1 .. Len(w) - 1 /\ Skip(i, k) = o
    BY <1>2, <1>4 DEF Skip
  <2> QED BY <1>1, <2>1 DEF Members
<1>5. Members(t) \subseteq Members(w) \ {w[i]}
  BY <1>3 DEF Members
<1>6. Members(w) \ {w[i]} \subseteq Members(t)
  BY <1>4 DEF Members
<1> QED BY <1>5, <1>6 DEF t

LEMMA ConsMembers ==
  ASSUME NEW w \in Seq(Element), NEW e \in Element
  PROVE  Members(Cons(e, w)) = Members(w) \cup {e}
<1> DEFINE t == Cons(e, w)
<1>1. /\ Len(t) = Len(w) + 1 /\ t[1] = e
      /\ \A k \in 2 .. Len(w) + 1 : t[k] = w[k - 1]
  BY ConsElements
<1>2. Len(w) \in Nat
  BY LenProperties
<1> HIDE DEF t
<1>3. ASSUME NEW k \in 1 .. Len(t)
      PROVE  t[k] \in Members(w) \cup {e}
  <2>1. CASE k = 1
    BY <1>1, <2>1
  <2>2. CASE k # 1
    <3>1. k \in 2 .. Len(w) + 1 /\ k - 1 \in 1 .. Len(w)
      BY <1>1, <1>2, <2>2
    <3> QED BY <1>1, <3>1 DEF Members
  <2> QED BY <2>1, <2>2
<1>4. ASSUME NEW o \in 1 .. Len(w)
      PROVE  w[o] \in Members(t)
  <2>1. o + 1 \in 2 .. Len(w) + 1 /\ (o + 1) - 1 = o /\ o + 1 \in 1 .. Len(t)
    BY <1>1, <1>2
  <2> QED BY <1>1, <2>1 DEF Members
<1>5. e \in Members(t)
  <2>1. 1 \in 1 .. Len(t)
    BY <1>1, <1>2
  <2> QED BY <1>1, <2>1 DEF Members
<1>6. Members(t) \subseteq Members(w) \cup {e}
  BY <1>3 DEF Members
<1>7. Members(w) \cup {e} \subseteq Members(t)
  BY <1>4, <1>5 DEF Members
<1> QED BY <1>6, <1>7 DEF t

(* The last entry of a list goes by Front and by RemoveAt alike.           *)
LEMMA FrontIsRemoveAt ==
  ASSUME NEW w \in Seq(Element), Len(w) # 0
  PROVE  Front(w) = RemoveAt(w, Len(w))
<1>1. Len(w) \in Nat /\ w # <<>> /\ Len(w) \in 1 .. Len(w)
  BY LenProperties, EmptySeq
<1>2. /\ Front(w) \in Seq(Element)
      /\ Len(Front(w)) = Len(w) - 1
      /\ \A k \in 1 .. Len(w) - 1 : Front(w)[k] = w[k]
  BY <1>1, FrontElements
<1> DEFINE t == RemoveAt(w, Len(w))
<1>3. /\ t \in Seq(Element)
      /\ Len(t) = Len(w) - 1
      /\ \A k \in 1 .. Len(w) - 1 : t[k] = w[Skip(Len(w), k)]
  BY <1>1, RemoveAtElements
<1> HIDE DEF t
<1>4. \A k \in 1 .. Len(w) - 1 : Skip(Len(w), k) = k
  BY <1>1 DEF Skip
<1>5. \A k \in 1 .. Len(Front(w)) : Front(w)[k] = t[k]
  BY <1>2, <1>3, <1>4, SMTT(30)
<1> QED BY <1>2, <1>3, <1>5, SeqEqual DEF t

(* A list that holds distinct elements of a pool fills the pool exactly    *)
(* when it is as long as the pool.                                         *)
LEMMA FullPool ==
  ASSUME NEW l \in Lists, NEW w \in Seq(Element),
         \A j, k \in 1 .. Len(w) : w[j] = w[k] => j = k,
         Members(w) \subseteq Block[l]
  PROVE  /\ Len(w) <= PoolSize(l)
         /\ Len(w) = PoolSize(l) <=> Members(w) = Block[l]
<1>1. Len(w) \in Nat /\ w \in [1 .. Len(w) -> Element]
  BY LenProperties
<1>2. NUM_RS_ENTRIES \in Nat \ {0} /\ NUM_pending_ENTRIES \in Nat \ {0}
  BY TableAssumption, PoolAssumption
<1>3. IsFiniteSet(Block[l]) /\ Cardinality(Block[l]) = PoolSize(l)
  <2>1. CASE l = "route"
    <3>1. Block[l] = 1 .. NUM_RS_ENTRIES
      BY <2>1 DEF Block
    <3> QED BY <1>2, <2>1, <3>1, FS_Interval DEF PoolSize
  <2>2. CASE l = "pending"
    <3> DEFINE a == NUM_RS_ENTRIES + 1
               b == NUM_RS_ENTRIES + NUM_pending_ENTRIES
    <3>1. Block[l] = a .. b
      BY <2>2 DEF Block
    <3>2. a \in Int /\ b \in Int /\ ~(a > b) /\ b - a + 1 = NUM_pending_ENTRIES
      BY <1>2
    <3>3. PoolSize(l) = NUM_pending_ENTRIES
      BY <2>2 DEF PoolSize
    <3> HIDE DEF a, b
    <3>4. IsFiniteSet(a .. b) /\ Cardinality(a .. b) = IF a > b THEN 0 ELSE b - a + 1
      BY <3>2, FS_Interval
    <3> QED BY <3>1, <3>2, <3>3, <3>4
  <2> QED BY <2>1, <2>2 DEF Lists
<1>4. IsFiniteSet(1 .. Len(w)) /\ Cardinality(1 .. Len(w)) = Len(w)
  BY <1>1, FS_Interval, SMTT(30)
<1>5. w \in Surjection(1 .. Len(w), Members(w)) /\ w \in Injection(1 .. Len(w), Members(w))
  <2>1. w \in [1 .. Len(w) -> Members(w)]
    BY <1>1 DEF Members
  <2>2. \A b \in Members(w) : \E j \in 1 .. Len(w) : w[j] = b
    BY DEF Members
  <2> QED BY <2>1, <2>2 DEF Surjection, Injection, IsInjective
<1>6. IsFiniteSet(Members(w)) /\ Cardinality(Members(w)) = Len(w)
  BY <1>4, <1>5, FS_Surjection
<1>7. /\ Cardinality(Members(w)) <= Cardinality(Block[l])
      /\ Cardinality(Block[l]) = Cardinality(Members(w)) => Block[l] = Members(w)
  BY <1>3, FS_Subset
<1> QED BY <1>3, <1>6, <1>7

(* The content of cells and what is given away do not bear on the links.   *)
LEMMA SameLinks ==
  ASSUME NEW m, NEW s, Linked(m, s), NEW r \in Memory, r.head = m.head, r.next = m.next
  PROVE  Linked(r, s)
BY DEF Linked

LEMMA PooledLists ==
  ASSUME NEW m, NEW s, Pooled(m, s), NEW l \in Lists
  PROVE  /\ s[l] \in Seq(Element) /\ Len(s[l]) \in Nat /\ Len(s[l]) <= PoolSize(l)
         /\ \A j, k \in 1 .. Len(s[l]) : s[l][j] = s[l][k] => j = k
         /\ Members(s[l]) \subseteq Block[l] /\ Members(s[l]) = m.used \cap Block[l]
         /\ Free(m, l) = {} <=> Len(s[l]) = PoolSize(l)
<1>1. s[l] \in Seq(Element) /\ Len(s[l]) \in Nat
  BY LinkedLists DEF Pooled
<1>2. \A j, k \in 1 .. Len(s[l]) : s[l][j] = s[l][k] => j = k
  BY OnePlace DEF Pooled
<1>3. Members(s[l]) \subseteq Block[l] /\ Members(s[l]) = m.used \cap Block[l]
  BY DEF Pooled, Held
<1>4. /\ Len(s[l]) <= PoolSize(l)
      /\ Len(s[l]) = PoolSize(l) <=> Members(s[l]) = Block[l]
  BY <1>1, <1>2, <1>3, FullPool
<1>5. Free(m, l) = {} <=> Members(s[l]) = Block[l]
  BY <1>3 DEF Free
<1> QED BY <1>1, <1>2, <1>3, <1>4, <1>5

(* The element an *_add function uses, and the memory once it has it.      *)
Chosen(m, s, l, i) == IF i # 0 THEN s[l][i] ELSE Vacant(m, l)
Cleared(m, s, l, i) == IF i # 0 THEN list_remove(m, l, s[l][i]) ELSE Taken(m, l)

(* The element that will hold a new entry is in no list then, and counts   *)
(* as given away; the others keep their places.                            *)
RoomMade(m, s, l, i) ==
  LET e == Chosen(m, s, l, i)
      r == Cleared(m, s, l, i)
      w == Vacate(s[l], i, PoolSize(l))
  IN  /\ e \in Block[l]
      /\ Linked(r, [s EXCEPT ![l] = w])
      /\ w \in Seq(Element) /\ Members(w) = Members(s[l]) \ {e}
      /\ r.used = m.used \cup {e} /\ r.cell = m.cell

LEMMA MakesRoom ==
  ASSUME NEW m, NEW s, Pooled(m, s), NEW l \in Lists, NEW i \in 0 .. Len(s[l])
  PROVE  RoomMade(m, s, l, i)
<1> DEFINE n == Len(s[l])
<1>1. /\ s[l] \in Seq(Element) /\ n \in Nat /\ n <= PoolSize(l)
      /\ \A j, k \in 1 .. n : s[l][j] = s[l][k] => j = k
      /\ Members(s[l]) \subseteq Block[l] /\ Members(s[l]) = m.used \cap Block[l]
      /\ Free(m, l) = {} <=> n = PoolSize(l)
  BY PooledLists
<1>2. Linked(m, s) /\ m \in Memory /\ s \in [Lists -> Seq(Element)]
  BY DEF Pooled, Linked, Laid
<1>3. PoolSize(l) \in Nat \ {0}
  BY TableAssumption, PoolAssumption DEF PoolSize
<1>4. ASSUME NEW k \in 1 .. n
      PROVE  LET r == list_remove(m, l, s[l][k])
                 w == RemoveAt(s[l], k)
             IN  /\ s[l][k] \in Block[l] /\ s[l][k] \in m.used
                 /\ Linked(r, [s EXCEPT ![l] = w])
                 /\ w \in Seq(Element) /\ Members(w) = Members(s[l]) \ {s[l][k]}
                 /\ r.used = m.used /\ r.cell = m.cell
  <2> DEFINE u == s[l]
  <2>1. u[k] \in Members(u)
    BY DEF Members
  <2>2. u \in Seq(Element) /\ k \in 1 .. Len(u) /\ \A j, h \in 1 .. Len(u) : u[j] = u[h] => j = h
    BY <1>1
  <2> HIDE DEF u
  <2>3. RemoveAt(u, k) \in Seq(Element)
    BY <2>2, RemoveAtElements
  <2>4. Members(RemoveAt(u, k)) = Members(u) \ {u[k]}
    BY <2>2, RemoveAtMembers
  <2> USE DEF u
  <2>5. LET r == list_remove(m, l, s[l][k])
        IN  /\ Linked(r, [s EXCEPT ![l] = RemoveAt(s[l], k)])
            /\ r.used = m.used /\ r.cell = m.cell
    BY <1>2, Unlink
  <2> QED BY <1>1, <2>1, <2>3, <2>4, <2>5
<1>5. CASE i # 0
  <2>1. i \in 1 .. n
    BY <1>1, <1>5
  <2>2. Vacate(s[l], i, PoolSize(l)) = RemoveAt(s[l], i)
    BY <1>5 DEF Vacate
  <2>3. m.used \cup {s[l][i]} = m.used
    BY <1>4, <2>1
  <2>4. Chosen(m, s, l, i) = s[l][i] /\ Cleared(m, s, l, i) = list_remove(m, l, s[l][i])
    BY <1>5 DEF Chosen, Cleared
  <2> QED BY <1>4, <2>1, <2>2, <2>3, <2>4 DEF RoomMade
<1>6. CASE i = 0 /\ Free(m, l) # {}
  <2> DEFINE e == Vacant(m, l)
             r == [m EXCEPT !.used = @ \cup {e}]
  <2>1. e \in Block[l] \ m.used
    <3>1. Block[l] \subseteq Nat
      BY TwoPools
    <3>2. Free(m, l) \subseteq Nat
      BY <3>1 DEF Free
    <3>3. Min(Free(m, l)) \in Free(m, l)
      BY <1>6, <3>2, MinIsFirst
    <3> QED BY <1>6, <3>3 DEF Vacant, Free
  <2>2. Taken(m, l) = r
    BY <1>6 DEF Taken
  <2>3. Vacate(s[l], i, PoolSize(l)) = s[l]
    BY <1>1, <1>6 DEF Vacate
  <2>4. [s EXCEPT ![l] = s[l]] = s
    BY <1>2
  <2>5. e \in Element
    BY <2>1, TwoPools
  <2> HIDE DEF e
  <2>6. /\ r \in Memory /\ r.head = m.head /\ r.next = m.next
        /\ r.used = m.used \cup {e} /\ r.cell = m.cell
    BY <1>2, <2>5 DEF Memory
  <2> HIDE DEF r
  <2>7. Linked(r, s)
    BY <1>2, <2>6, SameLinks
  <2>8. Members(s[l]) = Members(s[l]) \ {e}
    BY <1>1, <2>1
  <2>9. Chosen(m, s, l, i) = e /\ Cleared(m, s, l, i) = Taken(m, l)
    BY <1>6 DEF Chosen, Cleared, e
  <2> QED BY <1>1, <2>1, <2>2, <2>3, <2>4, <2>6, <2>7, <2>8, <2>9 DEF RoomMade
<1>7. CASE i = 0 /\ Free(m, l) = {}
  <2>1. n = PoolSize(l) /\ n \in 1 .. n
    BY <1>1, <1>3, <1>7
  <2>2. Vacant(m, l) = s[l][n]
    <3>1. ListOf(m, l) = s[l]
      BY <1>2, LinkedLists
    <3> QED BY <1>7, <3>1 DEF Vacant, LastOf, Last
  <2>3. Taken(m, l) = list_remove(m, l, s[l][n])
    BY <1>7, <2>2 DEF Taken
  <2>4. Vacate(s[l], i, PoolSize(l)) = RemoveAt(s[l], n)
    <3>1. Front(s[l]) = RemoveAt(s[l], n)
      BY <1>1, <2>1, FrontIsRemoveAt
    <3> QED BY <1>7, <2>1, <3>1 DEF Vacate
  <2>5. m.used \cup {s[l][n]} = m.used
    BY <1>4, <2>1
  <2>6. Chosen(m, s, l, i) = s[l][n] /\ Cleared(m, s, l, i) = list_remove(m, l, s[l][n])
    BY <1>7, <2>2, <2>3 DEF Chosen, Cleared
  <2> QED BY <1>4, <2>1, <2>4, <2>5, <2>6 DEF RoomMade
<1> QED BY <1>5, <1>6, <1>7

LEMMA InPool ==
  ASSUME NEW l \in Lists, NEW e \in Block[l]
  PROVE  e \in Element
BY TwoPools

LEMMA PoolsApart ==
  ASSUME NEW l \in Lists, NEW k \in Lists, l # k, NEW e \in Block[l]
  PROVE  e \notin Block[k]
<1>1. Block["route"] \cap Block["pending"] = {}
  BY TwoPools
<1> QED BY <1>1 DEF Lists

(* An element that is in no list but in a pool can only be in that one.    *)
LEMMA NotOn ==
  ASSUME NEW s, \A k \in Lists : Members(s[k]) \subseteq Block[k],
         NEW l \in Lists, NEW e \in Block[l], e \notin Members(s[l])
  PROVE  ~On(s, e)
<1>1. ASSUME NEW k \in Lists, e \in Members(s[k])
      PROVE  FALSE
  <2>1. e \in Block[k] /\ k # l
    BY <1>1
  <2> QED BY <2>1, PoolsApart
<1> QED BY <1>1 DEF On, Members

(* Writing an entry: what the two *_add functions do to lists and pools.   *)
Put(m, s, l, i, content) ==
  LET e == Chosen(m, s, l, i)
      r == Write(Cleared(m, s, l, i), l, e, content)
  IN  /\ e \in Block[l]
      /\ Pooled(r, [s EXCEPT ![l] = PushReusing(s[l], i, PoolSize(l), e)])
      /\ r.cell = [m.cell EXCEPT ![e] = content]
      /\ Members(PushReusing(s[l], i, PoolSize(l), e)) = Members(s[l]) \cup {e}

LEMMA Puts ==
  ASSUME NEW m, NEW s, Pooled(m, s), NEW l \in Lists, NEW i \in 0 .. Len(s[l]),
         NEW content \in Cell
  PROVE  Put(m, s, l, i, content)
<1> DEFINE e == Chosen(m, s, l, i)
           b == Cleared(m, s, l, i)
           w == Vacate(s[l], i, PoolSize(l))
           y == [s EXCEPT ![l] = w]
           c == [b EXCEPT !.cell[e] = content]
           r == list_push(c, l, e)
           z == [y EXCEPT ![l] = Cons(e, y[l])]
           u == PushReusing(s[l], i, PoolSize(l), e)
<1>room. RoomMade(m, s, l, i)
  BY MakesRoom
<1>0. e \in Block[l]
  BY <1>room DEF RoomMade
<1>1. /\ e \in Block[l]
      /\ Linked(b, y)
      /\ w \in Seq(Element) /\ Members(w) = Members(s[l]) \ {e}
      /\ b.used = m.used \cup {e} /\ b.cell = m.cell
  BY <1>room DEF RoomMade
<1>2. /\ \A k \in Lists : Members(s[k]) \subseteq Block[k] /\ Members(s[k]) = m.used \cap Block[k]
      /\ s \in [Lists -> Seq(Element)]
  BY DEF Pooled, Held, Linked, Laid
<1> HIDE DEF e, b, w
<1>3. y[l] = w /\ \A k \in Lists : k # l => y[k] = s[k]
  BY <1>2
<1>4. u = Cons(e, w) /\ Write(b, l, e, content) = r
  BY DEF PushReusing, Write, w
<1>5. e \in Element
  BY <1>0, InPool
<1> HIDE DEF u
<1>6. z = [s EXCEPT ![l] = u] /\ z[l] = u /\ \A k \in Lists : k # l => z[k] = s[k]
  BY <1>2, <1>3, <1>4, Zenon
<1> HIDE DEF y
<1>7. /\ c \in Memory /\ c.head = b.head /\ c.next = b.next /\ c.used = b.used
      /\ c.cell = [m.cell EXCEPT ![e] = content]
  <2> DEFINE cl == [b.cell EXCEPT ![e] = content]
             d == [b EXCEPT !.cell = cl]
  <2>1. b \in Memory
    BY <1>1 DEF Linked
  <2>2. c = d
    OBVIOUS
  <2>3. cl \in [Element -> Cell] /\ cl = [m.cell EXCEPT ![e] = content]
    BY <1>1, <2>1 DEF Memory
  <2> HIDE DEF cl, c
  <2>4. d \in Memory /\ d.head = b.head /\ d.next = b.next /\ d.used = b.used /\ d.cell = cl
    BY <2>1, <2>3 DEF Memory
  <2> QED BY <2>2, <2>3, <2>4
<1> HIDE DEF c
<1>8. Linked(c, y)
  BY <1>1, <1>7, SameLinks
<1>9. ~On(y, e)
  <2>1. \A k \in Lists : Members(y[k]) \subseteq Block[k]
    BY <1>1, <1>2, <1>3
  <2>2. e \notin Members(y[l])
    BY <1>1, <1>3
  <2> QED BY <1>1, <2>1, <2>2, NotOn
<1>10. Linked(r, z) /\ r.used = c.used /\ r.cell = c.cell
  BY <1>5, <1>8, <1>9, Link
<1> HIDE DEF r, z
<1>11. Members(u) = Members(s[l]) \cup {e}
  <2>1. Members(Cons(e, w)) = Members(w) \cup {e}
    BY <1>1, <1>5, ConsMembers
  <2> QED BY <1>1, <1>4, <2>1
<1>12. Held(r, z)
  <2> SUFFICES ASSUME NEW k \in Lists
               PROVE  Members(z[k]) \subseteq Block[k] /\ Members(z[k]) = r.used \cap Block[k]
    BY DEF Held
  <2>1. r.used = m.used \cup {e}
    BY <1>1, <1>7, <1>10
  <2>2. CASE k = l
    BY <1>1, <1>2, <1>6, <1>11, <2>1, <2>2
  <2>3. CASE k # l
    <3>1. e \notin Block[k]
      BY <1>1, <2>3, PoolsApart
    <3> QED BY <1>2, <1>6, <2>1, <2>3, <3>1
  <2> QED BY <2>2, <2>3
<1> QED BY <1>1, <1>4, <1>6, <1>7, <1>10, <1>11, <1>12 DEF Put, Pooled, e, b, r, u

(* Dropping an entry gives its element back.                               *)
Dropped(m, s, l, i) ==
  LET r == Drop(m, l, s[l][i])
  IN  /\ Pooled(r, [s EXCEPT ![l] = RemoveAt(s[l], i)])
      /\ r.cell = [m.cell EXCEPT ![s[l][i]] = Zero]
      /\ Members(RemoveAt(s[l], i)) = Members(s[l]) \ {s[l][i]}

LEMMA Drops ==
  ASSUME NEW m, NEW s, Pooled(m, s), NEW l \in Lists, NEW i \in 1 .. Len(s[l])
  PROVE  Dropped(m, s, l, i)
<1> DEFINE e == s[l][i]
           w == RemoveAt(s[l], i)
           z == [s EXCEPT ![l] = w]
           b == list_remove(m, l, e)
           us == b.used \ {e}
           cl == [b.cell EXCEPT ![e] = Zero]
           r == [b EXCEPT !.used = us, !.cell = cl]
<1>1. Linked(b, z) /\ b.used = m.used /\ b.cell = m.cell
  BY Unlink DEF Pooled
<1>2. /\ s[l] \in Seq(Element) /\ \A j, k \in 1 .. Len(s[l]) : s[l][j] = s[l][k] => j = k
      /\ Members(s[l]) \subseteq Block[l]
  BY PooledLists
<1>3. /\ \A k \in Lists : Members(s[k]) \subseteq Block[k] /\ Members(s[k]) = m.used \cap Block[k]
      /\ s \in [Lists -> Seq(Element)]
  BY DEF Pooled, Held, Linked, Laid
<1>4. Members(w) = Members(s[l]) \ {e}
  <2> DEFINE u == s[l]
  <2>1. u \in Seq(Element) /\ i \in 1 .. Len(u) /\ \A j, h \in 1 .. Len(u) : u[j] = u[h] => j = h
    BY <1>2
  <2> HIDE DEF u
  <2>2. Members(RemoveAt(u, i)) = Members(u) \ {u[i]}
    BY <2>1, RemoveAtMembers
  <2> QED BY <2>2 DEF u
<1>5. e \in Block[l] /\ e \in Element
  <2>1. e \in Members(s[l])
    BY DEF Members
  <2> QED BY <1>2, <2>1, TwoPools
<1>6. Drop(m, l, e) = r
  BY <1>5 DEF Drop
<1>7. Zero \in Cell
  BY TableAssumption DEF Zero, Cell, NULL, TIMEOUT_RANGE
<1>8. \A k \in Lists : z[k] = IF k = l THEN w ELSE s[k]
  BY <1>3
<1> HIDE DEF e, w, z, b
<1>9. us \in SUBSET Element /\ cl \in [Element -> Cell] /\ b \in Memory
  BY <1>1, <1>5, <1>7 DEF Linked, Memory
<1>10. us = m.used \ {e} /\ cl = [m.cell EXCEPT ![e] = Zero]
  BY <1>1
<1> HIDE DEF us, cl
<1>11. r \in Memory /\ r.head = b.head /\ r.next = b.next /\ r.used = us /\ r.cell = cl
  BY <1>9 DEF Memory
<1> HIDE DEF r
<1>12. Linked(r, z)
  BY <1>1, <1>11, SameLinks
<1>13. Held(r, z)
  <2> SUFFICES ASSUME NEW k \in Lists
               PROVE  Members(z[k]) \subseteq Block[k] /\ Members(z[k]) = r.used \cap Block[k]
    BY DEF Held
  <2>1. CASE k = l
    BY <1>3, <1>4, <1>8, <1>10, <1>11, <2>1
  <2>2. CASE k # l
    <3>1. e \notin Block[k]
      BY <1>5, <2>2, PoolsApart
    <3> QED BY <1>3, <1>8, <1>10, <1>11, <2>2, <3>1
  <2> QED BY <2>1, <2>2
<1> QED BY <1>4, <1>6, <1>10, <1>11, <1>12, <1>13 DEF Dropped, Pooled, e, w, z

(* Other contents in the same places.                                      *)
LEMMA Recelled ==
  ASSUME NEW m, NEW s, Pooled(m, s), NEW cl \in [Element -> Cell]
  PROVE  Pooled([m EXCEPT !.cell = cl], s) /\ [m EXCEPT !.cell = cl].cell = cl
<1> DEFINE r == [m EXCEPT !.cell = cl]
<1>1. m \in Memory
  BY DEF Pooled, Linked
<1>2. r \in Memory /\ r.head = m.head /\ r.next = m.next /\ r.used = m.used /\ r.cell = cl
  BY <1>1 DEF Memory
<1> HIDE DEF r
<1>3. Linked(r, s)
  BY <1>2, SameLinks DEF Pooled
<1> QED BY <1>2, <1>3 DEF Pooled, Held, r

-----------------------------------------------------------------------------
(* What the rest of route.c makes of memory m with the lists s.            *)
RoutesOf(m, s) == [i \in 1 .. Len(s["route"]) |-> AsTuple(m.cell[s["route"][i]])]

Entry(m, e) == <<e, m.cell[e].first, m.cell[e].second, m.cell[e].low>>
WaitsOf(m, s) == {Entry(m, e) : e \in Members(s["pending"])}

Sound(m, s) == Pooled(m, s) /\ RoutesOf(m, s) \in Seq(RouteTuple(Addr, Seqno))

(* The inductive invariant: memory that is intact is sound.                *)
PoolInv == Intact => \E s : Sound(Now, s)

LEMMA Seen ==
  ASSUME NEW s, Linked(Now, s)
  PROVE  /\ Elements("route") = s["route"] /\ Elements("pending") = s["pending"]
         /\ InList(Now, "pending") = Members(s["pending"])
         /\ Routes = RoutesOf(Now, s)
         /\ Waiting = WaitsOf(Now, s)
<1>0. "route" \in Lists /\ "pending" \in Lists
  BY DEF Lists
<1>1. /\ ListOf(Now, "route") = s["route"] /\ ListOf(Now, "pending") = s["pending"]
      /\ InList(Now, "pending") = Members(s["pending"])
      /\ s["route"] \in Seq(Element)
  BY <1>0, LinkedLists
<1>2. DOMAIN s["route"] = 1 .. Len(s["route"])
  BY <1>1
<1>3. Now.cell = cell
  BY DEF Now
<1>4. Routes = RoutesOf(Now, s)
  BY <1>1, <1>2, <1>3 DEF Routes, RoutesOf, Elements
<1>5. Waiting = WaitsOf(Now, s)
  BY <1>1, <1>3 DEF Waiting, WaitsOf, Entry
<1> QED BY <1>1, <1>4, <1>5 DEF Elements

LEMMA SeenNext ==
  ASSUME NEW s, Linked(Now', s)
  PROVE  Routes' = RoutesOf(Now', s) /\ Waiting' = WaitsOf(Now', s)
<1>0. "route" \in Lists /\ "pending" \in Lists
  BY DEF Lists
<1>1. /\ ListOf(Now', "route") = s["route"]
      /\ InList(Now', "pending") = Members(s["pending"])
      /\ s["route"] \in Seq(Element)
  BY <1>0, LinkedLists
<1>2. DOMAIN s["route"] = 1 .. Len(s["route"])
  BY <1>1
<1>3. (Now').cell = cell'
  BY DEF Now
<1>4. Routes' = RoutesOf(Now', s)
  BY <1>1, <1>2, <1>3 DEF Routes, RoutesOf, Elements
<1>5. Waiting' = WaitsOf(Now', s)
  BY <1>1, <1>3 DEF Waiting, WaitsOf, Entry
<1> QED BY <1>4, <1>5

LEMMA Becoming ==
  ASSUME NEW m \in Memory, Becomes(m)
  PROVE  Now' = m
BY DEF Memory, Becomes, Now

(* The words mid.                                                          *)
LEMMA ModAdd ==
  ASSUME NEW B \in Nat, NEW x \in Nat, x < B, NEW k \in Nat
  PROVE  (x + B * k) % B = x /\ (x + B * k) \div B = k
BY SMTT(30)

LEMMA ModType ==
  ASSUME NEW T \in Nat, T > 0, NEW x \in Int
  PROVE  x % T \in 0 .. T - 1
BY SMTT(30)

LEMMA ModNeg ==
  ASSUME NEW T \in Nat, T > 1
  PROVE  (0 - 1) % T = T - 1
BY SMTT(30)

LEMMA ModSmall ==
  ASSUME NEW T \in Nat, NEW x \in Nat, x < T
  PROVE  x % T = x
OBVIOUS

LEMMA Sizes ==
  /\ UINT8_MAX \in Nat /\ UINT8_MAX >= 1
  /\ TIMEOUT_RANGE \in Nat /\ TIMEOUT_RANGE > 1
<1>1. UINT8_MAX \in Nat /\ UINT8_MAX >= 1
  BY TableAssumption
<1> DEFINE B == UINT8_MAX + 1
<1>2. B \in Nat /\ B >= 2
  BY <1>1
<1> HIDE DEF B
<1>3. B * B \in Nat /\ B * B > 1
  BY <1>2, SMTT(30)
<1> QED BY <1>1, <1>3 DEF TIMEOUT_RANGE, B

LEMMA WordFits ==
  ASSUME NEW B \in Nat, NEW x \in 0 .. B - 1, NEW k \in 0 .. B - 1
  PROVE  x + B * k \in 0 .. B * B - 1
<1>1. k \in Nat /\ B - 1 - k \in Nat
  OBVIOUS
<1>2. B * (B - 1 - k) >= 0 /\ B * k >= 0 /\ B * k \in Int /\ B * B \in Int
  BY <1>1, SMTT(30)
<1>3. B * (B - 1 - k) = B * B - B - B * k
  BY SMTT(30)
<1> QED BY <1>2, <1>3

(* An element route_add fills reads as the tuple of RouteTable.            *)
LEMMA TupleBuilt ==
  ASSUME NEW dest \in Addr, NEW nexthop \in Addr,
         NEW cost \in 0 .. UINT8_MAX, NEW seqno \in 0 .. UINT8_MAX
  PROVE  LET c == [first |-> dest, second |-> nexthop,
                   mid |-> cost + (UINT8_MAX + 1) * seqno, low |-> 0]
         IN  c \in Cell /\ AsTuple(c) = NewTuple(dest, nexthop, cost, seqno)
<1> DEFINE B == UINT8_MAX + 1
           word == cost + B * seqno
           c == [first |-> dest, second |-> nexthop, mid |-> word, low |-> 0]
<1>1. B \in Nat /\ cost \in 0 .. B - 1 /\ seqno \in 0 .. B - 1 /\ TIMEOUT_RANGE = B * B
  BY Sizes DEF TIMEOUT_RANGE
<1> HIDE DEF B
<1>2. word \in 0 .. TIMEOUT_RANGE - 1
  BY <1>1, WordFits
<1>3. word % B = cost /\ word \div B = seqno
  BY <1>1, ModAdd
<1> HIDE DEF word
<1>4. c \in Cell
  BY <1>2 DEF Cell
<1>5. AsTuple(c) = [R_dest_addr |-> dest, R_next_addr |-> nexthop, route_cost |-> word % B,
                    R_seq_num |-> word \div B, R_valid_time |-> 0]
  BY DEF AsTuple, B
<1>6. AsTuple(c) = NewTuple(dest, nexthop, cost, seqno)
  BY <1>3, <1>5 DEF NewTuple
<1> QED BY <1>4, <1>6 DEF word, B

-----------------------------------------------------------------------------
(* To know the Routing Set of some memory is to know it place by place.    *)
LEMMA RoutesAre ==
  ASSUME NEW m, NEW s, NEW S, NEW rs \in Seq(S), Len(rs) = Len(s["route"]),
         \A k \in 1 .. Len(s["route"]) : rs[k] = AsTuple(m.cell[s["route"][k]])
  PROVE  RoutesOf(m, s) = rs
<1>1. Len(rs) \in Nat /\ rs \in [1 .. Len(rs) -> S]
  BY LenProperties
<1>2. rs = [k \in 1 .. Len(rs) |-> rs[k]]
  BY <1>1
<1> QED BY <1>2, Zenon DEF RoutesOf

(* What a list shows stays if the list and its cells do.                   *)
LEMMA RoutesSame ==
  ASSUME NEW m, NEW s, NEW r, NEW z, z["route"] = s["route"],
         \A e \in Members(s["route"]) : r.cell[e] = m.cell[e]
  PROVE  RoutesOf(r, z) = RoutesOf(m, s)
<1>1. \A k \in 1 .. Len(s["route"]) : r.cell[s["route"][k]] = m.cell[s["route"][k]]
  BY DEF Members
<1> QED BY <1>1 DEF RoutesOf

LEMMA WaitsSame ==
  ASSUME NEW m, NEW s, NEW r, NEW z, z["pending"] = s["pending"],
         \A e \in Members(s["pending"]) : r.cell[e] = m.cell[e]
  PROVE  WaitsOf(r, z) = WaitsOf(m, s)
BY DEF WaitsOf, Entry

LEMMA SoundLists ==
  ASSUME NEW m, NEW s, Sound(m, s)
  PROVE  /\ Pooled(m, s) /\ Linked(m, s) /\ m \in Memory /\ s \in [Lists -> Seq(Element)]
         /\ "route" \in Lists /\ "pending" \in Lists
         /\ RoutesOf(m, s) \in Seq(RouteTuple(Addr, Seqno))
         /\ Len(RoutesOf(m, s)) = Len(s["route"]) /\ Len(s["route"]) \in Nat
         /\ Len(s["route"]) <= NUM_RS_ENTRIES
         /\ \A k \in 1 .. Len(s["route"]) :
              RoutesOf(m, s)[k] = AsTuple(m.cell[s["route"][k]])
<1>1. "route" \in Lists /\ "pending" \in Lists
  BY DEF Lists
<1>2. Pooled(m, s) /\ RoutesOf(m, s) \in Seq(RouteTuple(Addr, Seqno))
  BY DEF Sound
<1>3. Linked(m, s) /\ m \in Memory /\ s \in [Lists -> Seq(Element)]
  BY <1>2 DEF Pooled, Linked, Laid
<1>4. Len(s["route"]) \in Nat /\ Len(s["route"]) <= PoolSize("route")
  BY <1>1, <1>2, PooledLists
<1>5. Len(RoutesOf(m, s)) = Len(s["route"])
  BY <1>4 DEF RoutesOf
<1>6. \A k \in 1 .. Len(s["route"]) : RoutesOf(m, s)[k] = AsTuple(m.cell[s["route"][k]])
  BY DEF RoutesOf
<1> QED BY <1>1, <1>2, <1>3, <1>4, <1>5, <1>6 DEF PoolSize

(* route_add is route_add of RouteTable on the sequence, and does not      *)
(* touch the pending entries.                                              *)
LEMMA RouteAddStep ==
  ASSUME NEW s, Sound(Now, s),
         NEW dest \in Addr, NEW nexthop \in Addr, NEW cost \in Cost, NEW seqno \in Seqno,
         RouteAdd(dest, nexthop, cost, seqno)
  PROVE  /\ \E z : Sound(Now', z)
         /\ Routes' = route_add(Routes, dest, nexthop, cost, seqno)
         /\ Waiting' = Waiting
<1> DEFINE rs == RoutesOf(Now, s)
           T == RouteTuple(Addr, Seqno)
           a == s["route"]
           i == Replaced(rs, dest, nexthop)
           content == [first |-> dest, second |-> nexthop,
                       mid |-> cost + (UINT8_MAX + 1) * seqno, low |-> 0]
           e == Chosen(Now, s, "route", i)
           r == Write(Cleared(Now, s, "route", i), "route", e, content)
           u == PushReusing(a, i, NUM_RS_ENTRIES, e)
           z == [s EXCEPT !["route"] = u]
           t == route_add(rs, dest, nexthop, cost, seqno)
<1>1. /\ Pooled(Now, s) /\ Linked(Now, s) /\ Now \in Memory /\ s \in [Lists -> Seq(Element)]
      /\ "route" \in Lists /\ "pending" \in Lists
      /\ rs \in Seq(T) /\ Len(rs) = Len(a) /\ Len(a) \in Nat /\ Len(a) <= NUM_RS_ENTRIES
      /\ \A k \in 1 .. Len(a) : rs[k] = AsTuple(Now.cell[a[k]])
  BY SoundLists
<1>2. Elements("route") = a /\ Routes = rs /\ Waiting = WaitsOf(Now, s)
  BY <1>1, Seen
<1>3. cost \in 0 .. UINT8_MAX /\ seqno \in 0 .. UINT8_MAX
  BY PoolAssumption
<1>4. content \in Cell /\ AsTuple(content) = NewTuple(dest, nexthop, cost, seqno)
  BY <1>3, TupleBuilt
<1> HIDE DEF content
<1>5. i \in 0 .. Len(a)
  BY <1>1, ReplacedIsBest
<1>6. Becomes(r)
  <2>1. Replaced(Routes, dest, nexthop) = i
    BY <1>2
  <2> HIDE DEF i
  <2>2. (IF i # 0 THEN Elements("route")[i] ELSE Vacant(Now, "route")) = e
    BY <1>2 DEF Chosen
  <2>3. (IF i # 0 THEN list_remove(Now, "route", e) ELSE Taken(Now, "route")) =
          Cleared(Now, s, "route", i)
    BY DEF Cleared, Chosen
  <2> HIDE DEF e
  <2> QED BY <2>1, <2>2, <2>3 DEF RouteAdd, content
<1>7. /\ e \in Block["route"] /\ Pooled(r, z) /\ r.cell = [Now.cell EXCEPT ![e] = content]
  <2>1. PoolSize("route") = NUM_RS_ENTRIES
    BY DEF PoolSize
  <2>2. Put(Now, s, "route", i, content)
    <3> HIDE DEF i
    <3> QED BY <1>1, <1>4, <1>5, Puts
  <2> HIDE DEF i
  <2> QED BY <2>1, <2>2 DEF Put
<1>8. t \in Seq(T) /\ Len(t) = PushedLen(Len(a), i, NUM_RS_ENTRIES)
      /\ t[1] = NewTuple(dest, nexthop, cost, seqno)
      /\ \A k \in 2 .. Len(t) : Origin(i, k) \in 1 .. Len(a) /\ t[k] = rs[Origin(i, k)]
  <2>1. rs \in Seq(T) /\ Len(rs) <= NUM_RS_ENTRIES /\ Len(rs) = Len(a)
    BY <1>1
  <2> HIDE DEF rs
  <2>2. t \in Seq(T) /\ t[1] = NewTuple(dest, nexthop, cost, seqno)
    BY <1>3, <2>1, AddElements
  <2>4. Len(t) = PushedLen(Len(rs), i, NUM_RS_ENTRIES)
    BY <1>3, <2>1, AddElements, SMTT(30)
  <2>3. ASSUME NEW k \in 2 .. Len(t)
        PROVE  Origin(i, k) \in 1 .. Len(rs) /\ t[k] = rs[Origin(i, k)]
    BY <1>3, <2>1, AddElements
  <2> HIDE DEF t, i
  <2> QED BY <2>1, <2>2, <2>3, <2>4
<1> HIDE DEF i, e, r, t
<1>9. /\ e \in Element
      /\ u \in Seq(Element) /\ Len(u) = PushedLen(Len(a), i, NUM_RS_ENTRIES)
      /\ 1 <= Len(u) /\ u[1] = e
      /\ \A k \in 2 .. Len(u) : Origin(i, k) \in 1 .. Len(a) /\ u[k] = a[Origin(i, k)]
  <2>1. a \in Seq(Element) /\ e \in Element
    BY <1>1, <1>7, InPool
  <2>2. NUM_RS_ENTRIES \in Nat \ {0}
    BY TableAssumption
  <2>3. Len(a) <= NUM_RS_ENTRIES
    BY <1>1
  <2> HIDE DEF a
  <2>4. /\ u \in Seq(Element) /\ Len(u) = PushedLen(Len(a), i, NUM_RS_ENTRIES)
        /\ 1 <= Len(u) /\ u[1] = e
        /\ \A k \in 2 .. Len(u) : Origin(i, k) \in 1 .. Len(a) /\ u[k] = a[Origin(i, k)]
    BY <1>5, <2>1, <2>2, <2>3, PushElements
  <2> QED BY <2>1, <2>4
<1> HIDE DEF u
<1>10. z["route"] = u /\ z["pending"] = s["pending"]
  BY <1>1
<1> HIDE DEF z, rs
<1>11. \A j, k \in 1 .. Len(u) : u[j] = u[k] => j = k
  BY <1>1, <1>7, <1>10, PooledLists
<1>12. Len(u) \in Nat /\ Len(t) = Len(u)
  BY <1>8, <1>9, LenProperties
<1>13. r \in Memory /\ Linked(r, z)
  BY <1>7 DEF Pooled, Linked
<1>14. Now' = r
  BY <1>6, <1>13, Becoming
<1>15. Now.cell \in [Element -> Cell]
  BY <1>1 DEF Memory
<1>16. \A b \in Element : r.cell[b] = IF b = e THEN content ELSE Now.cell[b]
  BY <1>7, <1>15
<1>17. ASSUME NEW k \in 1 .. Len(u)
       PROVE  t[k] = AsTuple(r.cell[u[k]])
  <2>1. CASE k = 1
    BY <1>4, <1>8, <1>9, <1>16, <2>1
  <2>2. CASE k # 1
    <3>1. k \in 2 .. Len(u) /\ 1 \in 1 .. Len(u)
      BY <1>12, <2>2
    <3>2. u[k] # e /\ u[k] \in Element
      BY <1>9, <1>11, <2>2, <3>1, ElementOfSeq
    <3>3. r.cell[u[k]] = Now.cell[a[Origin(i, k)]]
      BY <1>9, <1>16, <3>1, <3>2
    <3>4. t[k] = rs[Origin(i, k)] /\ Origin(i, k) \in 1 .. Len(a)
      BY <1>8, <1>12, <3>1
    <3> QED BY <1>1, <3>3, <3>4
  <2> QED BY <2>1, <2>2
<1>18. RoutesOf(r, z) = t
  BY <1>8, <1>10, <1>12, <1>17, RoutesAre
<1>19. WaitsOf(r, z) = WaitsOf(Now, s)
  <2>1. \A b \in Members(s["pending"]) : b \in Block["pending"]
    BY <1>1, PooledLists
  <2>2. \A b \in Members(s["pending"]) : b # e /\ b \in Element
    BY <1>1, <1>7, <2>1, PoolsApart, InPool
  <2> QED BY <1>10, <1>16, <2>2, WaitsSame
<1>20. Sound(Now', z)
  BY <1>7, <1>8, <1>14, <1>18 DEF Sound
<1>21. Routes' = RoutesOf(Now', z) /\ Waiting' = WaitsOf(Now', z)
  BY <1>13, <1>14, SeenNext
<1>22. Routes' = route_add(Routes, dest, nexthop, cost, seqno)
  BY <1>2, <1>14, <1>18, <1>21 DEF t
<1> QED BY <1>2, <1>14, <1>19, <1>20, <1>21, <1>22

(* What Lookup returns is the element of the tuple route_lookup returns.   *)
LEMMA LookupSeen ==
  ASSUME NEW s, Sound(Now, s), NEW dest, Lookup(dest) # NULL
  PROVE  LET j == route_lookup(Routes, dest)
         IN  j \in 1 .. Len(s["route"]) /\ Lookup(dest) = s["route"][j]
<1>1. /\ Routes \in Seq(RouteTuple(Addr, Seqno)) /\ Len(Routes) = Len(s["route"])
      /\ Elements("route") = s["route"]
  BY SoundLists, Seen
<1>2. HasRoute(Routes, dest)
  BY DEF Lookup
<1>3. route_lookup(Routes, dest) \in 1 .. Len(Routes)
  BY <1>1, <1>2, LookupFinds
<1> QED BY <1>1, <1>2, <1>3 DEF Lookup

(* A route and a pending entry are never the same element.                 *)
LEMMA RouteElement ==
  ASSUME NEW m, NEW s, Sound(m, s), NEW j \in 1 .. Len(s["route"])
  PROVE  /\ s["route"][j] \in Block["route"] /\ s["route"][j] \in Element
         /\ s["route"][j] \notin Block["pending"]
         /\ s["route"][j] \notin Members(s["pending"])
         /\ \A b \in Members(s["pending"]) : b # s["route"][j]
         /\ \A k \in 1 .. Len(s["route"]) : s["route"][k] = s["route"][j] => k = j
<1>1. Pooled(m, s) /\ "route" \in Lists /\ "pending" \in Lists
  BY SoundLists
<1>2. s["route"][j] \in Members(s["route"])
  BY DEF Members
<1>3. Members(s["route"]) \subseteq Block["route"] /\ Members(s["pending"]) \subseteq Block["pending"]
  BY <1>1, PooledLists
<1>4. s["route"][j] \in Block["route"]
  BY <1>2, <1>3
<1>5. s["route"][j] \in Element /\ s["route"][j] \notin Block["pending"]
  BY <1>1, <1>4, PoolsApart, InPool
<1>6. \A k \in 1 .. Len(s["route"]) : s["route"][k] = s["route"][j] => k = j
  BY <1>1, PooledLists
<1> QED BY <1>3, <1>4, <1>5, <1>6

LEMMA RouteRefreshStep ==
  ASSUME NEW s, Sound(Now, s), NEW dest \in Addr, RouteRefresh(dest)
  PROVE  /\ \E z : Sound(Now', z)
         /\ Routes' = route_refresh(Routes, route_lookup(Routes, dest))
         /\ Waiting' = Waiting
<1> DEFINE rs == RoutesOf(Now, s)
           T == RouteTuple(Addr, Seqno)
           a == s["route"]
           j == route_lookup(Routes, dest)
           e == a[j]
           old == Now.cell[e]
           new == [old EXCEPT !.low = 0]
           cl == [Now.cell EXCEPT ![e] = new]
           r == [Now EXCEPT !.cell = cl]
           t == route_refresh(rs, j)
<1>1. /\ Pooled(Now, s) /\ Linked(Now, s) /\ Now \in Memory
      /\ rs \in Seq(T) /\ Len(rs) = Len(a) /\ Len(a) \in Nat
      /\ \A k \in 1 .. Len(a) : rs[k] = AsTuple(Now.cell[a[k]])
  BY SoundLists
<1>2. Routes = rs /\ Waiting = WaitsOf(Now, s)
  BY <1>1, Seen
<1>3. j \in 1 .. Len(a) /\ Lookup(dest) = e
  BY LookupSeen DEF RouteRefresh
<1> HIDE DEF j
<1>4. /\ e \in Element
      /\ \A b \in Members(s["pending"]) : b # e
      /\ \A k \in 1 .. Len(a) : a[k] = e => k = j
  BY <1>3, RouteElement
<1>5. cell \in [Element -> Cell] /\ Now.cell = cell
  BY <1>1 DEF Memory, Now
<1>6. Now' = r
  <2>1. cell' = cl
    BY <1>3, <1>5 DEF RouteRefresh
  <2>2. head' = head /\ next' = next /\ used' = used
    BY DEF RouteRefresh
  <2> HIDE DEF cl
  <2> QED BY <2>1, <2>2 DEF Now
<1> HIDE DEF e
<1>7. old \in Cell
  BY <1>4, <1>5
<1> HIDE DEF old
<1>8. new \in Cell /\ AsTuple(new) = [AsTuple(old) EXCEPT !.R_valid_time = 0]
  BY <1>7 DEF Cell, AsTuple
<1> HIDE DEF new
<1>9. cl \in [Element -> Cell] /\ \A b \in Element : cl[b] = IF b = e THEN new ELSE Now.cell[b]
  BY <1>4, <1>5, <1>8
<1> HIDE DEF cl
<1>10. Pooled(r, s) /\ r.cell = cl
  BY <1>1, <1>9, Recelled
<1>11. /\ t \in Seq(T) /\ Len(t) = Len(rs)
       /\ \A k \in 1 .. Len(rs) : t[k] = IF k = j THEN [rs[k] EXCEPT !.R_valid_time = 0] ELSE rs[k]
  <2>1. rs \in Seq(T) /\ j \in 0 .. Len(rs)
    BY <1>1, <1>3
  <2> HIDE DEF rs
  <2> QED BY <2>1, RefreshElements
<1> HIDE DEF r, t
<1>12. ASSUME NEW k \in 1 .. Len(a)
       PROVE  t[k] = AsTuple(r.cell[a[k]])
  <2>1. a[k] \in Element
    BY <1>12, RouteElement
  <2>2. CASE k = j
    <3>1. a[k] = e /\ r.cell[a[k]] = new /\ old = Now.cell[a[k]]
      BY <1>9, <1>10, <2>1, <2>2 DEF e, old
    <3> QED BY <1>1, <1>8, <1>11, <2>2, <3>1
  <2>3. CASE k # j
    <3>1. a[k] # e
      BY <1>4, <2>3
    <3> QED BY <1>1, <1>9, <1>10, <1>11, <2>1, <2>3, <3>1
  <2> QED BY <2>2, <2>3
<1> HIDE DEF rs
<1>13. RoutesOf(r, s) = t
  BY <1>1, <1>11, <1>12, RoutesAre
<1>14. WaitsOf(r, s) = WaitsOf(Now, s)
  <2>1. \A b \in Members(s["pending"]) : b \in Element /\ b # e
    BY <1>1, <1>4, LinkedLists, SoundLists DEF Members
  <2> QED BY <1>9, <1>10, <2>1, WaitsSame
<1>15. Sound(Now', s) /\ Linked(Now', s)
  BY <1>6, <1>10, <1>11, <1>13 DEF Sound, Pooled
<1>16. Routes' = RoutesOf(Now', s) /\ Waiting' = WaitsOf(Now', s)
  BY <1>15, SeenNext
<1> QED BY <1>2, <1>6, <1>13, <1>14, <1>15, <1>16 DEF t, j

(* Dropping the tuple at place j.                                          *)
RouteDropped(m, s, j) ==
  LET r == Drop(m, "route", s["route"][j])
      z == [s EXCEPT !["route"] = RemoveAt(s["route"], j)]
  IN  /\ Pooled(r, z) /\ z["pending"] = s["pending"]
      /\ Len(z["route"]) = Len(s["route"]) - 1
      /\ \A k \in 1 .. Len(s["route"]) - 1 :
           /\ Skip(j, k) \in 1 .. Len(s["route"]) /\ Skip(j, k) # j
           /\ r.cell[z["route"][k]] = m.cell[s["route"][Skip(j, k)]]
      /\ \A b \in Members(s["pending"]) : r.cell[b] = m.cell[b]

LEMMA DropsRoute ==
  ASSUME NEW m, NEW s, Pooled(m, s), NEW j \in 1 .. Len(s["route"])
  PROVE  RouteDropped(m, s, j)
<1> DEFINE a == s["route"]
           e == a[j]
           r == Drop(m, "route", e)
           u == RemoveAt(a, j)
           z == [s EXCEPT !["route"] = u]
<1>1. /\ "route" \in Lists /\ "pending" \in Lists
      /\ m \in Memory /\ s \in [Lists -> Seq(Element)] /\ a \in Seq(Element)
  BY DEF Pooled, Linked, Laid, Lists
<1>2. Pooled(r, z) /\ r.cell = [m.cell EXCEPT ![e] = Zero]
  <2>1. Dropped(m, s, "route", j)
    BY <1>1, Drops
  <2> QED BY <2>1 DEF Dropped
<1>3. /\ Len(u) = Len(a) - 1
      /\ \A k \in 1 .. Len(a) - 1 :
           Skip(j, k) \in 1 .. Len(a) /\ Skip(j, k) # j /\ u[k] = a[Skip(j, k)]
  <2> HIDE DEF a
  <2> QED BY <1>1, RemoveAtElements DEF a
<1> HIDE DEF r, u
<1>4. z["route"] = u /\ z["pending"] = s["pending"]
  BY <1>1
<1> HIDE DEF z
<1>5. \A k, h \in 1 .. Len(a) : a[k] = a[h] => k = h
  BY <1>1, PooledLists
<1>6. \A k \in 1 .. Len(a) : a[k] \in Element
  BY <1>1, ElementOfSeq
<1>7. \A b \in Element : b # e => r.cell[b] = m.cell[b]
  BY <1>1, <1>2 DEF Memory
<1>8. ASSUME NEW b \in Members(s["pending"])
      PROVE  r.cell[b] = m.cell[b]
  <2>1. e \in Members(a)
    BY DEF Members
  <2>2. b \in Block["pending"] /\ e \in Block["route"]
    BY <1>1, <2>1, PooledLists
  <2>3. b # e /\ b \in Element
    BY <1>1, <2>2, PoolsApart, InPool
  <2> QED BY <1>7, <2>3
<1>9. \A k \in 1 .. Len(a) - 1 : r.cell[z["route"][k]] = m.cell[a[Skip(j, k)]]
  BY <1>3, <1>4, <1>5, <1>6, <1>7
<1> QED BY <1>2, <1>3, <1>4, <1>8, <1>9 DEF RouteDropped, r, u, z

LEMMA RouteRemoveStep ==
  ASSUME NEW s, Sound(Now, s), NEW dest \in Addr, RouteRemove(dest)
  PROVE  /\ \E z : Sound(Now', z)
         /\ Routes' = route_remove(Routes, route_lookup(Routes, dest))
         /\ Waiting' = Waiting
<1> DEFINE rs == RoutesOf(Now, s)
           T == RouteTuple(Addr, Seqno)
           a == s["route"]
           j == route_lookup(Routes, dest)
           r == Drop(Now, "route", a[j])
           z == [s EXCEPT !["route"] = RemoveAt(a, j)]
           t == RemoveAt(rs, j)
<1>1. /\ Pooled(Now, s) /\ Linked(Now, s)
      /\ rs \in Seq(T) /\ Len(rs) = Len(a) /\ Len(a) \in Nat
      /\ \A k \in 1 .. Len(a) : rs[k] = AsTuple(Now.cell[a[k]])
  BY SoundLists
<1>2. Routes = rs /\ Waiting = WaitsOf(Now, s)
  BY <1>1, Seen
<1>3. j \in 1 .. Len(a) /\ Lookup(dest) = a[j]
  BY LookupSeen DEF RouteRemove
<1>4. Becomes(r)
  BY <1>3 DEF RouteRemove
<1>5. route_remove(Routes, j) = t
  BY <1>2, <1>3 DEF route_remove
<1> HIDE DEF j
<1>6. /\ Pooled(r, z) /\ z["pending"] = s["pending"] /\ Len(z["route"]) = Len(a) - 1
      /\ \A k \in 1 .. Len(a) - 1 :
           Skip(j, k) \in 1 .. Len(a) /\ r.cell[z["route"][k]] = Now.cell[a[Skip(j, k)]]
      /\ \A b \in Members(s["pending"]) : r.cell[b] = Now.cell[b]
  <2>1. RouteDropped(Now, s, j)
    BY <1>1, <1>3, DropsRoute
  <2> QED BY <2>1 DEF RouteDropped
<1>7. /\ t \in Seq(T) /\ Len(t) = Len(rs) - 1
      /\ \A k \in 1 .. Len(rs) - 1 : t[k] = rs[Skip(j, k)]
  <2>1. rs \in Seq(T) /\ j \in 1 .. Len(rs)
    BY <1>1, <1>3
  <2> HIDE DEF rs
  <2> QED BY <2>1, RemoveAtElements
<1> HIDE DEF r, t, z, rs
<1>8. RoutesOf(r, z) = t
  <2>1. \A k \in 1 .. Len(z["route"]) : t[k] = AsTuple(r.cell[z["route"][k]])
    BY <1>1, <1>6, <1>7
  <2>2. Len(t) = Len(z["route"])
    BY <1>1, <1>6, <1>7
  <2> QED BY <1>7, <2>1, <2>2, RoutesAre
<1>9. WaitsOf(r, z) = WaitsOf(Now, s)
  BY <1>6, WaitsSame
<1>10. r \in Memory
  BY <1>6 DEF Pooled, Linked
<1>11. Now' = r
  BY <1>4, <1>10, Becoming
<1>12. Sound(Now', z) /\ Linked(Now', z)
  BY <1>6, <1>7, <1>8, <1>11 DEF Sound, Pooled
<1>13. Routes' = RoutesOf(Now', z) /\ Waiting' = WaitsOf(Now', z)
  BY <1>12, SeenNext
<1> QED BY <1>2, <1>5, <1>8, <1>9, <1>11, <1>12, <1>13 DEF j

(* What the lookup of pending entries finds is an element of route_set.    *)
LEMMA FoundIsRoute ==
  ASSUME NEW s, Sound(Now, s), NEW from, NEW orig, NEW id,
         route_pending_list_lookup(from, orig, id) # NULL
  PROVE  \E j \in 1 .. Len(s["route"]) :
           route_pending_list_lookup(from, orig, id) = s["route"][j]
<1> DEFINE a == s["route"]
           found == Matching(a, from, orig, id)
<1>1. Elements("route") = a /\ a \in Seq(Element)
  BY SoundLists, Seen
<1>2. DOMAIN a = 1 .. Len(a)
  BY <1>1
<1>3. found \subseteq 1 .. Len(a)
  BY <1>2 DEF Matching
<1>4. found # {} /\ route_pending_list_lookup(from, orig, id) = a[Min(found)]
  BY <1>1 DEF route_pending_list_lookup
<1> HIDE DEF found
<1>5. found \subseteq Nat
  BY <1>3
<1>6. Min(found) \in found
  BY <1>4, <1>5, MinIsFirst
<1> QED BY <1>3, <1>4, <1>6

(* So the removal of a pending entry removes nothing.                      *)
LEMMA PendingRemoveStep ==
  ASSUME NEW s, Sound(Now, s), NEW from, NEW orig, NEW seq_num,
         PendingRemove(from, orig, seq_num)
  PROVE  Now' = Now /\ Sound(Now', s) /\ Routes' = Routes /\ Waiting' = Waiting
<1> DEFINE e == route_pending_list_lookup(from, orig, seq_num)
<1>1. PICK j \in 1 .. Len(s["route"]) : e = s["route"][j]
  BY FoundIsRoute DEF PendingRemove
<1>2. e \notin Block["pending"] /\ e \notin Members(s["pending"])
  BY <1>1, RouteElement
<1>3. Linked(Now, s) /\ "pending" \in Lists /\ Now \in Memory
  BY SoundLists
<1>4. Becomes(Drop(Now, "pending", e))
  BY DEF PendingRemove
<1> HIDE DEF e
<1>5. list_remove(Now, "pending", e) = Now
  BY <1>2, <1>3, RemoveNothing
<1>6. Drop(Now, "pending", e) = Now
  BY <1>2, <1>5 DEF Drop
<1>7. Now' = Now
  BY <1>3, <1>4, <1>6, Becoming
<1>8. Routes' = RoutesOf(Now', s) /\ Waiting' = WaitsOf(Now', s)
  BY <1>3, <1>7, SeenNext
<1>9. Routes = RoutesOf(Now, s) /\ Waiting = WaitsOf(Now, s)
  BY <1>3, Seen
<1> QED BY <1>7, <1>8, <1>9

(* A pending entry that the lookup does not find is new: it takes a free   *)
(* element or the last.                                                    *)
LEMMA PendingAddStep ==
  ASSUME NEW s, Sound(Now, s),
         NEW nexthop \in Addr, NEW dest \in Addr, NEW id \in RREQ_ID, NEW timeout \in AckTimeout,
         PendingAdd(nexthop, dest, id, timeout),
         route_pending_list_lookup(nexthop, dest, id) = NULL
  PROVE  /\ \E z : Sound(Now', z)
         /\ Routes' = Routes
         /\ \A w \in Waiting :
              w \in Waiting' \/ (Free(Now, "pending") = {} /\ w[1] = LastOf(Now, "pending"))
<1> DEFINE content == [first |-> nexthop, second |-> dest, mid |-> timeout, low |-> id]
           p == s["pending"]
           e == Chosen(Now, s, "pending", 0)
           r == Write(Cleared(Now, s, "pending", 0), "pending", e, content)
           u == PushReusing(p, 0, PoolSize("pending"), e)
           z == [s EXCEPT !["pending"] = u]
<1>1. /\ Pooled(Now, s) /\ Linked(Now, s) /\ Now \in Memory /\ s \in [Lists -> Seq(Element)]
      /\ "route" \in Lists /\ "pending" \in Lists
      /\ RoutesOf(Now, s) \in Seq(RouteTuple(Addr, Seqno))
  BY SoundLists
<1>2. Routes = RoutesOf(Now, s) /\ Waiting = WaitsOf(Now, s)
  BY <1>1, Seen
<1>3. content \in Cell
  BY PoolAssumption DEF Cell
<1>4. Becomes(r)
  <2>1. Chosen(Now, s, "pending", 0) = Vacant(Now, "pending")
    BY DEF Chosen
  <2>2. Cleared(Now, s, "pending", 0) = Taken(Now, "pending")
    BY DEF Cleared
  <2> QED BY <2>1, <2>2, Zenon DEF PendingAdd
<1> HIDE DEF content
<1>5. Len(p) \in Nat /\ 0 \in 0 .. Len(p)
  BY <1>1, PooledLists
<1>6. Put(Now, s, "pending", 0, content)
  BY <1>1, <1>3, <1>5, Puts
<1>7. /\ e \in Block["pending"] /\ Pooled(r, z)
      /\ r.cell = [Now.cell EXCEPT ![e] = content] /\ Members(u) = Members(p) \cup {e}
  BY <1>6 DEF Put
<1>8. e = Vacant(Now, "pending")
  BY DEF Chosen
<1> HIDE DEF e, r, u
<1>9. z["pending"] = u /\ z["route"] = s["route"]
  BY <1>1
<1> HIDE DEF z
<1>10. r \in Memory /\ Linked(r, z)
  BY <1>7 DEF Pooled, Linked
<1>11. Now' = r
  BY <1>4, <1>10, Becoming
<1>12. \A b \in Element : b # e => r.cell[b] = Now.cell[b]
  BY <1>1, <1>7 DEF Memory
<1>13. RoutesOf(r, z) = RoutesOf(Now, s)
  <2>1. ASSUME NEW b \in Members(s["route"])
        PROVE  r.cell[b] = Now.cell[b]
    <3>1. b \in Block["route"]
      BY <1>1, PooledLists
    <3>2. b # e /\ b \in Element
      BY <1>1, <1>7, <3>1, PoolsApart, InPool
    <3> QED BY <1>12, <3>2
  <2> QED BY <1>9, <2>1, RoutesSame
<1>14. Sound(Now', z) /\ Linked(Now', z)
  BY <1>1, <1>7, <1>10, <1>11, <1>13 DEF Sound
<1>15. Routes' = RoutesOf(Now', z) /\ Waiting' = WaitsOf(Now', z)
  BY <1>14, SeenNext
<1>16. ASSUME NEW b \in Members(p), b = e
       PROVE  Free(Now, "pending") = {} /\ b = LastOf(Now, "pending")
  <2>1. b \in Now.used
    BY <1>1, PooledLists
  <2>2. CASE Free(Now, "pending") # {}
    <3>1. Block["pending"] \subseteq Nat
      BY <1>1, TwoPools
    <3>2. Free(Now, "pending") \subseteq Nat
      BY <3>1 DEF Free
    <3>3. e \in Free(Now, "pending")
      BY <1>8, <2>2, <3>2, MinIsFirst DEF Vacant
    <3> QED BY <1>16, <2>1, <3>3 DEF Free
  <2>3. CASE Free(Now, "pending") = {}
    BY <1>8, <1>16, <2>3 DEF Vacant
  <2> QED BY <2>2, <2>3
<1>17. ASSUME NEW w \in Waiting
       PROVE  w \in Waiting' \/ (Free(Now, "pending") = {} /\ w[1] = LastOf(Now, "pending"))
  <2>1. PICK b \in Members(p) : w = Entry(Now, b)
    BY <1>2 DEF WaitsOf
  <2>2. w[1] = b
    BY <2>1 DEF Entry
  <2>3. CASE b = e
    BY <1>16, <2>2, <2>3
  <2>4. CASE b # e
    <3>1. b \in Element /\ b \in Members(z["pending"])
      BY <1>1, <1>7, <1>9, PooledLists, InPool
    <3>2. Entry(r, b) = Entry(Now, b)
      BY <1>12, <2>4, <3>1 DEF Entry
    <3>3. Entry(r, b) \in WaitsOf(r, z)
      BY <3>1 DEF WaitsOf
    <3>4. Waiting' = WaitsOf(r, z)
      BY <1>11, <1>15
    <3> QED BY <2>1, <3>2, <3>3, <3>4
  <2> QED BY <2>3, <2>4
<1> QED BY <1>2, <1>11, <1>13, <1>14, <1>15, <1>17

(* One it finds is a route, and the lists come to share it.                *)
LEMMA PendingAddTangles ==
  ASSUME NEW s, Sound(Now, s),
         NEW nexthop \in Addr, NEW dest \in Addr, NEW id \in RREQ_ID, NEW timeout \in AckTimeout,
         PendingAdd(nexthop, dest, id, timeout),
         route_pending_list_lookup(nexthop, dest, id) # NULL
  PROVE  ~Intact'
<1> DEFINE content == [first |-> nexthop, second |-> dest, mid |-> timeout, low |-> id]
           e == route_pending_list_lookup(nexthop, dest, id)
           c == [Now EXCEPT !.cell[e] = content]
           r == list_push(c, "pending", e)
<1>1. PICK j \in 1 .. Len(s["route"]) : e = s["route"][j]
  BY FoundIsRoute
<1>2. e \in Element /\ e \notin Members(s["pending"])
  BY <1>1, RouteElement
<1>3. Pooled(Now, s) /\ Linked(Now, s) /\ "pending" \in Lists /\ Now \in Memory
  BY SoundLists
<1>4. Becomes(r)
  <2>1. list_remove(Now, "pending", e) = Now
    BY <1>2, <1>3, RemoveNothing
  <2>2. e # NULL
    OBVIOUS
  <2>3. Becomes(Write(list_remove(Now, "pending", e), "pending", e, content))
    <3> HIDE DEF content
    <3>1. (IF e # NULL THEN e ELSE Vacant(Now, "pending")) = e
      BY <2>2
    <3>2. (IF e # NULL THEN list_remove(Now, "pending", e) ELSE Taken(Now, "pending")) =
            list_remove(Now, "pending", e)
      BY <2>2
    <3>3. Becomes(Write(IF e # NULL THEN list_remove(Now, "pending", IF e # NULL THEN e ELSE Vacant(Now, "pending"))
                        ELSE Taken(Now, "pending"), "pending",
                        IF e # NULL THEN e ELSE Vacant(Now, "pending"), content))
      BY DEF PendingAdd, content
    <3> HIDE DEF e
    <3> QED BY <3>1, <3>2, <3>3
  <2> HIDE DEF e, content
  <2> QED BY <2>1, <2>3 DEF Write
<1>5. content \in Cell
  BY PoolAssumption DEF Cell
<1> HIDE DEF e, content
<1>6. Linked(c, s)
  <2> DEFINE cl == [Now.cell EXCEPT ![e] = content]
             d == [Now EXCEPT !.cell = cl]
  <2>1. cl \in [Element -> Cell]
    BY <1>3, <1>5 DEF Memory
  <2>2. c = d
    OBVIOUS
  <2> HIDE DEF cl
  <2>3. Pooled(d, s)
    BY <1>3, <2>1, Recelled
  <2> HIDE DEF c, d
  <2> QED BY <2>2, <2>3 DEF Pooled
<1> HIDE DEF c
<1>7. InList(r, "route") \cap InList(r, "pending") # {}
  BY <1>1, <1>6, Tangle
<1>8. r \in Memory
  <2>1. e \in Element \ Members(s["pending"])
    BY <1>2
  <2> QED BY <1>3, <1>6, <2>1, PushFields
<1> HIDE DEF r
<1>9. Now' = r
  BY <1>4, <1>8, Becoming
<1> QED BY <1>7, <1>9 DEF Intact

-----------------------------------------------------------------------------
(* A loop of periodic() reaches the elements up to the first that is due.  *)
LEMMA WalkedPlaces ==
  ASSUME NEW w \in Seq(Element), \A j, k \in 1 .. Len(w) : w[j] = w[k] => j = k,
         NEW due \in SUBSET (1 .. Len(w))
  PROVE  /\ Walked(w, due) \subseteq Members(w)
         /\ \A k \in 1 .. Len(w) : w[k] \in Walked(w, due) <=> \A j \in due : k <= j
<1>1. DOMAIN w = 1 .. Len(w)
  OBVIOUS
<1>2. Walked(w, due) = {w[i] : i \in {i \in 1 .. Len(w) : \A j \in due : i <= j}}
  BY <1>1 DEF Walked
<1> QED BY <1>2 DEF Members

LEMMA TickedCell ==
  ASSUME NEW c \in Cell
  PROVE  /\ Ticked(c) \in Cell
         /\ AsTuple(Ticked(c)) = [AsTuple(c) EXCEPT !.R_valid_time = @ + 1]
BY DEF Ticked, Cell, AsTuple

(* A timeout word of 0 would wrap, so only 1 counts down to 0.             *)
LEMMA CountsDown ==
  ASSUME NEW T \in Nat, T > 1, NEW n \in Nat, n < T, (n - 1) % T = 0
  PROVE  n = 1
<1>1. CASE n = 0
  <2>1. (0 - 1) % T = T - 1
    BY ModNeg
  <2> DEFINE y == (0 - 1) % T
  <2>2. y = 0 /\ y = T - 1
    BY <1>1, <2>1
  <2> HIDE DEF y
  <2> QED BY <2>2
<1>2. CASE n # 0
  <2> DEFINE k == n - 1
  <2>1. k \in Nat /\ k < T
    BY <1>2
  <2>2. k % T = 0
    OBVIOUS
  <2>3. k % T = k
    <3> HIDE DEF k
    <3> QED BY <2>1, ModSmall
  <2>4. k = 0
    BY <2>2, <2>3
  <2> QED BY <2>4
<1> QED BY <1>1, <1>2

LEMMA ShorterCell ==
  ASSUME NEW c \in Cell
  PROVE  /\ Shorter(c) \in Cell
         /\ Shorter(c).first = c.first /\ Shorter(c).second = c.second /\ Shorter(c).low = c.low
         /\ Shorter(c).mid = 0 => c.mid = 1
<1> DEFINE T == TIMEOUT_RANGE
           x == (c.mid - 1) % T
<1>1. T \in Nat /\ T > 1
  BY Sizes
<1>2. c.mid \in Nat /\ c.mid < T
  BY <1>1 DEF Cell
<1>3. Shorter(c) = [c EXCEPT !.mid = x]
  BY DEF Shorter
<1> HIDE DEF T
<1>4. x \in 0 .. T - 1
  <2>1. c.mid - 1 \in Int
    BY <1>2
  <2> QED BY <1>1, <2>1, ModType
<1>5. x = 0 => c.mid = 1
  BY <1>1, <1>2, CountsDown
<1> HIDE DEF x
<1>6. Shorter(c) \in Cell /\ Shorter(c).mid = x
  BY <1>3, <1>4 DEF Cell, T
<1>7. Shorter(c).first = c.first /\ Shorter(c).second = c.second /\ Shorter(c).low = c.low
  BY <1>3 DEF Cell
<1> QED BY <1>5, <1>6, <1>7

(* The first loop is AgeRoutes of RouteTable.                              *)
RoutesAged(m, s) ==
  \E z : /\ Sound(AgedRoutes(m), z)
         /\ RoutesOf(AgedRoutes(m), z) = AgeRoutes(RoutesOf(m, s))
         /\ z["pending"] = s["pending"]
         /\ \A b \in Members(s["pending"]) : AgedRoutes(m).cell[b] = m.cell[b]

LEMMA AgedRoutesStep ==
  ASSUME NEW s, Sound(Now, s)
  PROVE  RoutesAged(Now, s)
<1> DEFINE rs == RoutesOf(Now, s)
           T == RouteTuple(Addr, Seqno)
           a == s["route"]
           due == Expiring(rs)
           cl == [e \in Element |-> IF e \in Walked(a, due) THEN Ticked(Now.cell[e]) ELSE Now.cell[e]]
           c == [Now EXCEPT !.cell = cl]
           t == AgeRoutes(rs)
<1>1. /\ Pooled(Now, s) /\ Linked(Now, s) /\ Now \in Memory /\ s \in [Lists -> Seq(Element)]
      /\ "route" \in Lists /\ "pending" \in Lists
      /\ rs \in Seq(T) /\ Len(rs) = Len(a) /\ Len(a) \in Nat
      /\ \A k \in 1 .. Len(a) : rs[k] = AsTuple(Now.cell[a[k]])
  BY SoundLists
<1>2. Routes = rs /\ ListOf(Now, "route") = a
  BY <1>1, Seen, LinkedLists
<1>3. /\ a \in Seq(Element) /\ \A j, k \in 1 .. Len(a) : a[j] = a[k] => j = k
      /\ \A k \in 1 .. Len(a) : a[k] \in Element
  BY <1>1, PooledLists, ElementOfSeq
<1>4. due \in SUBSET (1 .. Len(a))
  <2>1. DOMAIN rs = 1 .. Len(rs)
    BY <1>1, LenProperties
  <2> QED BY <1>1, <2>1 DEF Expiring
<1>5. AgedRoutes(Now) = IF due = {} THEN c ELSE Drop(c, "route", a[Min(due)])
  BY <1>2 DEF AgedRoutes
<1>6. /\ t \in Seq(T)
      /\ due = {} => Len(t) = Len(rs) /\ \A k \in 1 .. Len(rs) : t[k] = Older(rs, k)
      /\ due # {} => /\ Min(due) \in 1 .. Len(rs) /\ Len(t) = Len(rs) - 1
                     /\ \A k \in 1 .. Len(rs) - 1 :
                          t[k] = IF k < Min(due) THEN Older(rs, k) ELSE rs[k + 1]
  <2>1. rs \in Seq(T)
    BY <1>1
  <2> HIDE DEF rs
  <2> QED BY <2>1, AgeElements
<1>7. /\ Walked(a, due) \subseteq Members(a)
      /\ \A k \in 1 .. Len(a) : a[k] \in Walked(a, due) <=> \A j \in due : k <= j
  <2> HIDE DEF a, due
  <2> QED BY <1>3, <1>4, WalkedPlaces
<1>8. due # {} => \A j \in due : Min(due) <= j
  <2>1. due \subseteq Nat
    BY <1>4
  <2> HIDE DEF due
  <2> QED BY <2>1, MinIsFirst
<1>8a. due # {} => Min(due) \in due
  <2>1. due \subseteq Nat
    BY <1>4
  <2> HIDE DEF due
  <2> QED BY <2>1, MinIsFirst
<1>9. Now.cell \in [Element -> Cell]
  BY <1>1 DEF Memory
<1> HIDE DEF due, t
<1>10. cl \in [Element -> Cell]
  BY <1>9, TickedCell
<1>11. \A e \in Element : cl[e] = IF e \in Walked(a, due) THEN Ticked(Now.cell[e]) ELSE Now.cell[e]
  OBVIOUS
<1> HIDE DEF cl
<1>12. Pooled(c, s) /\ c.cell = cl
  BY <1>1, <1>10, Recelled
<1> HIDE DEF c
<1>13. ASSUME NEW k \in 1 .. Len(a)
       PROVE  /\ (\A j \in due : k <= j) => AsTuple(c.cell[a[k]]) = Older(rs, k)
              /\ ~(\A j \in due : k <= j) => AsTuple(c.cell[a[k]]) = rs[k]
  <2>1. rs[k] = AsTuple(Now.cell[a[k]]) /\ a[k] \in Element
    BY <1>1, <1>3
  <2>2. Now.cell[a[k]] \in Cell
    BY <1>9, <2>1
  <2>3. CASE \A j \in due : k <= j
    <3>1. c.cell[a[k]] = Ticked(Now.cell[a[k]])
      BY <1>7, <1>11, <1>12, <2>1, <2>3
    <3>2. AsTuple(Ticked(Now.cell[a[k]])) = [AsTuple(Now.cell[a[k]]) EXCEPT !.R_valid_time = @ + 1]
      BY <2>2, TickedCell
    <3>3. Older(rs, k) = [AsTuple(Now.cell[a[k]]) EXCEPT !.R_valid_time = @ + 1]
      BY <2>1 DEF Older
    <3> QED BY <2>3, <3>1, <3>2, <3>3
  <2>4. CASE ~(\A j \in due : k <= j)
    BY <1>7, <1>11, <1>12, <2>1, <2>4
  <2> QED BY <2>3, <2>4
<1>14. ASSUME NEW b \in Members(s["pending"])
       PROVE  c.cell[b] = Now.cell[b]
  <2>1. b \in Block["pending"]
    BY <1>1, PooledLists
  <2>2. b \in Element /\ b \notin Block["route"]
    BY <1>1, <2>1, PoolsApart, InPool
  <2>3. Members(a) \subseteq Block["route"]
    BY <1>1, PooledLists
  <2> QED BY <1>7, <1>11, <1>12, <2>2, <2>3
<1> HIDE DEF rs
<1>15. CASE due = {}
  <2>1. AgedRoutes(Now) = c
    BY <1>5, <1>15
  <2>2. \A k \in 1 .. Len(a) : t[k] = AsTuple(c.cell[a[k]])
    BY <1>1, <1>6, <1>13, <1>15
  <2>3. Len(t) = Len(a)
    BY <1>1, <1>6, <1>15
  <2>4. RoutesOf(c, s) = t
    BY <1>6, <2>2, <2>3, RoutesAre
  <2>5. Sound(c, s)
    BY <1>6, <1>12, <2>4 DEF Sound
  <2> QED BY <1>14, <2>1, <2>4, <2>5 DEF RoutesAged, rs, t
<1>16. CASE due # {}
  <2> DEFINE j == Min(due)
             r == Drop(c, "route", a[j])
             z == [s EXCEPT !["route"] = RemoveAt(a, j)]
  <2>1. AgedRoutes(Now) = r
    BY <1>5, <1>16
  <2>2. j \in 1 .. Len(a) /\ j \in due /\ \A i \in due : j <= i
    BY <1>1, <1>6, <1>8, <1>8a, <1>16
  <2>3. /\ Len(t) = Len(a) - 1
        /\ \A k \in 1 .. Len(a) - 1 : t[k] = IF k < j THEN Older(rs, k) ELSE rs[k + 1]
    BY <1>1, <1>6, <1>16
  <2> HIDE DEF j
  <2>4. RouteDropped(c, s, j)
    BY <1>12, <2>2, DropsRoute
  <2>5. /\ Pooled(r, z) /\ z["pending"] = s["pending"] /\ Len(z["route"]) = Len(a) - 1
        /\ \A k \in 1 .. Len(a) - 1 :
             Skip(j, k) \in 1 .. Len(a) /\ r.cell[z["route"][k]] = c.cell[a[Skip(j, k)]]
        /\ \A b \in Members(s["pending"]) : r.cell[b] = c.cell[b]
    BY <2>4 DEF RouteDropped
  <2> HIDE DEF r, z
  <2>6. ASSUME NEW k \in 1 .. Len(z["route"])
        PROVE  t[k] = AsTuple(r.cell[z["route"][k]])
    <3>1. k \in 1 .. Len(a) - 1 /\ k \in 1 .. Len(a) /\ k + 1 \in 1 .. Len(a)
      BY <1>1, <2>5
    <3>2. CASE k < j
      <4>1. \A i \in due : k <= i
        BY <1>4, <2>2, <3>1, <3>2
      <4>2. Skip(j, k) = k
        BY <3>2 DEF Skip
      <4>3. AsTuple(c.cell[a[k]]) = Older(rs, k)
        BY <1>13, <3>1, <4>1
      <4> QED BY <2>3, <2>5, <3>1, <3>2, <4>2, <4>3
    <3>3. CASE ~(k < j)
      <4>1. ~(\A i \in due : k + 1 <= i)
        BY <2>2, <3>1, <3>3
      <4>2. Skip(j, k) = k + 1
        BY <3>3 DEF Skip
      <4>3. AsTuple(c.cell[a[k + 1]]) = rs[k + 1]
        BY <1>13, <3>1, <4>1
      <4> QED BY <2>3, <2>5, <3>1, <3>3, <4>2, <4>3
    <3> QED BY <3>2, <3>3
  <2>7. RoutesOf(r, z) = t
    <3>1. Len(t) = Len(z["route"])
      BY <2>3, <2>5
    <3> QED BY <1>6, <2>6, <3>1, RoutesAre
  <2>8. Sound(r, z)
    BY <1>6, <2>5, <2>7 DEF Sound
  <2>9. \A b \in Members(s["pending"]) : r.cell[b] = Now.cell[b]
    BY <1>14, <2>5
  <2> QED BY <2>1, <2>5, <2>7, <2>8, <2>9 DEF RoutesAged, rs, t
<1> QED BY <1>15, <1>16

(* The second leaves the routes alone and drops what is due.               *)
PendingAged(m, s) ==
  \E z : /\ Sound(AgedPending(m), z)
         /\ RoutesOf(AgedPending(m), z) = RoutesOf(m, s)
         /\ \A b \in Members(s["pending"]) :
              \/ b \in Members(z["pending"]) /\ Entry(AgedPending(m), b) = Entry(m, b)
              \/ m.cell[b].mid = 1

LEMMA AgedPendingStep ==
  ASSUME NEW m, NEW s, Sound(m, s), \A b \in Members(s["pending"]) : m.cell[b] = cell[b]
  PROVE  PendingAged(m, s)
<1> DEFINE p == s["pending"]
           due == Overdue(p)
           cl == [e \in Element |-> IF e \in Walked(p, due) THEN Shorter(m.cell[e]) ELSE m.cell[e]]
           c == [m EXCEPT !.cell = cl]
<1>1. /\ Pooled(m, s) /\ Linked(m, s) /\ m \in Memory /\ s \in [Lists -> Seq(Element)]
      /\ "route" \in Lists /\ "pending" \in Lists
      /\ RoutesOf(m, s) \in Seq(RouteTuple(Addr, Seqno))
  BY SoundLists
<1>2. /\ p \in Seq(Element) /\ \A j, k \in 1 .. Len(p) : p[j] = p[k] => j = k
      /\ \A k \in 1 .. Len(p) : p[k] \in Element
      /\ Members(p) \subseteq Block["pending"]
  BY <1>1, PooledLists, ElementOfSeq
<1>3. ListOf(m, "pending") = p
  BY <1>1, LinkedLists
<1>4. due = {i \in 1 .. Len(p) : Shorter(m.cell[p[i]]).mid = 0}
  <2>1. DOMAIN p = 1 .. Len(p)
    BY <1>2, LenProperties
  <2>2. \A i \in 1 .. Len(p) : m.cell[p[i]] = cell[p[i]]
    BY DEF Members
  <2> QED BY <2>1, <2>2 DEF Overdue
<1>5. AgedPending(m) = IF due = {} THEN c ELSE Drop(c, "pending", p[Min(due)])
  BY <1>3 DEF AgedPending
<1> HIDE DEF due
<1>6. due \in SUBSET (1 .. Len(p)) /\ due \subseteq Nat
  BY <1>4
<1>7. Walked(p, due) \subseteq Members(p)
  <2> HIDE DEF p
  <2> QED BY <1>2, <1>6, WalkedPlaces
<1>8. m.cell \in [Element -> Cell]
  BY <1>1 DEF Memory
<1>9. cl \in [Element -> Cell]
  BY <1>8, ShorterCell
<1>10. \A e \in Element : cl[e] = IF e \in Walked(p, due) THEN Shorter(m.cell[e]) ELSE m.cell[e]
  OBVIOUS
<1> HIDE DEF cl
<1>11. Pooled(c, s) /\ c.cell = cl
  BY <1>1, <1>9, Recelled
<1> HIDE DEF c
<1>12. ASSUME NEW b \in Members(p)
       PROVE  b \in Element /\ Entry(c, b) = Entry(m, b)
  <2>1. b \in Element
    BY <1>2 DEF Members
  <2>2. m.cell[b] \in Cell
    BY <1>8, <2>1
  <2>3. /\ cl[b].first = m.cell[b].first /\ cl[b].second = m.cell[b].second
        /\ cl[b].low = m.cell[b].low
    BY <1>10, <2>1, <2>2, ShorterCell
  <2> QED BY <1>11, <2>1, <2>3 DEF Entry
<1>13. ASSUME NEW b \in Members(s["route"])
       PROVE  b \in Element /\ b \notin Members(p) /\ c.cell[b] = m.cell[b]
  <2>1. b \in Block["route"]
    BY <1>1, PooledLists
  <2>2. b \in Element /\ b \notin Members(p)
    BY <1>1, <1>2, <2>1, PoolsApart, InPool
  <2> QED BY <1>7, <1>10, <1>11, <2>2
<1>14. CASE due = {}
  <2>1. AgedPending(m) = c
    BY <1>5, <1>14
  <2>2. RoutesOf(c, s) = RoutesOf(m, s)
    BY <1>13, RoutesSame
  <2>3. Sound(c, s)
    BY <1>1, <1>11, <2>2 DEF Sound
  <2> QED BY <1>12, <2>1, <2>2, <2>3 DEF PendingAged
<1>15. CASE due # {}
  <2> DEFINE j == Min(due)
             e == p[j]
             r == Drop(c, "pending", e)
             u == RemoveAt(p, j)
             z == [s EXCEPT !["pending"] = u]
  <2>1. AgedPending(m) = r
    BY <1>5, <1>15
  <2>2. j \in due
    BY <1>6, <1>15, MinIsFirst
  <2> HIDE DEF j
  <2>3. j \in 1 .. Len(p) /\ Shorter(m.cell[e]).mid = 0 /\ e \in Element /\ e \in Members(p)
    BY <1>2, <1>4, <2>2 DEF Members
  <2>4. m.cell[e].mid = 1
    <3>1. m.cell[e] \in Cell
      BY <1>8, <2>3
    <3> HIDE DEF e
    <3> QED BY <2>3, <3>1, ShorterCell
  <2>5. Dropped(c, s, "pending", j)
    BY <1>1, <1>11, <2>3, Drops
  <2>6. Pooled(r, z) /\ r.cell = [cl EXCEPT ![e] = Zero] /\ Members(u) = Members(p) \ {e}
    BY <1>11, <2>5 DEF Dropped
  <2> HIDE DEF e, r, u
  <2>7. z["pending"] = u /\ z["route"] = s["route"]
    BY <1>1
  <2> HIDE DEF z
  <2>8. \A b \in Element : b # e => r.cell[b] = c.cell[b]
    BY <1>9, <1>11, <2>6
  <2>9. RoutesOf(r, z) = RoutesOf(m, s)
    <3>1. \A b \in Members(s["route"]) : r.cell[b] = m.cell[b]
      BY <1>13, <2>3, <2>8
    <3> QED BY <2>7, <3>1, RoutesSame
  <2>10. Sound(r, z)
    BY <1>1, <2>6, <2>9 DEF Sound
  <2>11. ASSUME NEW b \in Members(p), b # e
         PROVE  b \in Members(z["pending"]) /\ Entry(r, b) = Entry(m, b)
    <3>1. b \in Members(u)
      BY <2>6, <2>11
    <3>2. Entry(r, b) = Entry(c, b)
      BY <1>12, <2>8, <2>11 DEF Entry
    <3> QED BY <1>12, <2>7, <3>1, <3>2
  <2> QED BY <2>1, <2>4, <2>9, <2>10, <2>11 DEF PendingAged
<1> QED BY <1>14, <1>15

LEMMA PeriodicStep ==
  ASSUME NEW s, Sound(Now, s), Periodic
  PROVE  /\ \E z : Sound(Now', z)
         /\ Routes' = AgeRoutes(Routes)
         /\ \A w \in Waiting : w \in Waiting' \/ cell[w[1]].mid = 1
<1> DEFINE m == AgedRoutes(Now)
           r == AgedPending(m)
           p == s["pending"]
<1>1. Routes = RoutesOf(Now, s) /\ Waiting = WaitsOf(Now, s)
  BY SoundLists, Seen
<1>2. Becomes(r)
  BY DEF Periodic
<1>3. RoutesAged(Now, s)
  BY AgedRoutesStep
<1> HIDE DEF m, r
<1>4. PICK y : /\ Sound(m, y) /\ RoutesOf(m, y) = AgeRoutes(RoutesOf(Now, s))
               /\ y["pending"] = p /\ \A b \in Members(p) : m.cell[b] = Now.cell[b]
  BY <1>3 DEF RoutesAged, m
<1>5. Now.cell = cell
  BY DEF Now
<1>6. PendingAged(m, y)
  BY <1>4, <1>5, AgedPendingStep
<1>7. PICK z : /\ Sound(r, z) /\ RoutesOf(r, z) = RoutesOf(m, y)
               /\ \A b \in Members(p) :
                    \/ b \in Members(z["pending"]) /\ Entry(r, b) = Entry(m, b)
                    \/ m.cell[b].mid = 1
  BY <1>4, <1>6 DEF PendingAged, r
<1>8. Linked(r, z) /\ r \in Memory
  BY <1>7, SoundLists
<1>9. Now' = r
  BY <1>2, <1>8, Becoming
<1>10. Routes' = RoutesOf(r, z) /\ Waiting' = WaitsOf(r, z)
  BY <1>8, <1>9, SeenNext
<1>11. ASSUME NEW w \in Waiting
       PROVE  w \in Waiting' \/ cell[w[1]].mid = 1
  <2>1. PICK b \in Members(p) : w = Entry(Now, b)
    BY <1>1 DEF WaitsOf
  <2>2. w[1] = b /\ Entry(Now, b) = Entry(m, b) /\ m.cell[b] = cell[b]
    BY <1>4, <1>5, <2>1 DEF Entry
  <2>3. CASE m.cell[b].mid = 1
    BY <2>2, <2>3
  <2>4. CASE m.cell[b].mid # 1
    <3>1. b \in Members(z["pending"]) /\ Entry(r, b) = w
      BY <1>7, <2>1, <2>2, <2>4
    <3>2. Entry(r, b) \in WaitsOf(r, z)
      BY <3>1 DEF WaitsOf
    <3> QED BY <1>10, <3>1, <3>2
  <2> QED BY <2>3, <2>4
<1>12. Routes' = AgeRoutes(Routes)
  BY <1>1, <1>4, <1>7, <1>10
<1> QED BY <1>7, <1>9, <1>11, <1>12

(* Memory as route_init leaves it.                                         *)
LEMMA BlankSound ==
  LET s == [l \in Lists |-> <<>>]
  IN  Sound(Blank, s) /\ RoutesOf(Blank, s) = <<>>
<1> DEFINE s == [l \in Lists |-> <<>>]
<1>1. Zero \in Cell
  BY Sizes DEF Zero, Cell, NULL
<1>2. DOMAIN Block = Lists
  BY TwoPools
<1>3. Blank \in Memory
  BY <1>1, <1>2 DEF Blank, Memory
<1>4. /\ s \in [Lists -> Seq(Element)]
      /\ \A l \in Lists : s[l] = <<>> /\ Len(s[l]) = 0
  OBVIOUS
<1>5. /\ \A e \in Element : Blank.next[e] = NULL
      /\ \A l \in Lists : Blank.head[l] = NULL
      /\ Blank.used = {}
  BY <1>2 DEF Blank
<1> HIDE DEF s
<1>6. Laid(Blank.next, s)
  BY <1>4, <1>5 DEF Laid
<1>7. Linked(Blank, s)
  BY <1>3, <1>4, <1>5, <1>6 DEF Linked, After
<1>8. \A l \in Lists : Members(s[l]) = {}
  BY <1>4 DEF Members
<1>9. Pooled(Blank, s)
  BY <1>5, <1>7, <1>8 DEF Pooled, Held
<1>10. RoutesOf(Blank, s) = <<>>
  <2>1. Len(s["route"]) = 0
    BY <1>4 DEF Lists
  <2>2. <<>> \in Seq(RouteTuple(Addr, Seqno)) /\ Len(<<>>) = 0
    OBVIOUS
  <2>3. \A k \in 1 .. Len(s["route"]) : <<>>[k] = AsTuple(Blank.cell[s["route"][k]])
    BY <2>1
  <2> QED BY <2>1, <2>2, <2>3, RoutesAre
<1> QED BY <1>9, <1>10 DEF Sound, s

-----------------------------------------------------------------------------
(* RouteSet computes on its sequence what the proofs above say of Routes.  *)
LEMMA SameLookup ==
  ASSUME NEW rs, NEW d
  PROVE  /\ Abstract!route_lookup(rs, d) = route_lookup(rs, d)
         /\ Abstract!HasRoute(rs, d) = HasRoute(rs, d)
         /\ Abstract!NextHop(rs, d) = NextHop(rs, d)
BY DEF Abstract!route_lookup, route_lookup, Abstract!HasRoute, HasRoute,
       Abstract!NextHop, NextHop, Abstract!Candidates, Candidates, Abstract!Better, Better

LEMMA SameAdd ==
  ASSUME NEW rs, NEW d, NEW nexthop, NEW cost, NEW seqno
  PROVE  Abstract!route_add(rs, d, nexthop, cost, seqno) = route_add(rs, d, nexthop, cost, seqno)
<1>1. Abstract!Replaced(rs, d, nexthop) = Replaced(rs, d, nexthop)
  BY SameLookup DEF Abstract!Replaced, Replaced
<1>2. ASSUME NEW i, NEW e
      PROVE  Abstract!PushReusing(rs, i, NUM_RS_ENTRIES, e) = PushReusing(rs, i, NUM_RS_ENTRIES, e)
  BY DEF Abstract!PushReusing, PushReusing, Abstract!Vacate, Vacate,
         Abstract!RemoveAt, RemoveAt, Abstract!Front, Front, Abstract!Cons, Cons
<1> QED BY <1>1, <1>2 DEF Abstract!route_add, route_add

LEMMA SameAge ==
  ASSUME NEW rs
  PROVE  Abstract!AgeRoutes(rs) = AgeRoutes(rs)
BY DEF Abstract!AgeRoutes, AgeRoutes, Abstract!Expiring, Expiring,
       Abstract!Older, Older, Abstract!Min, Min

LEMMA SameRefreshRemove ==
  ASSUME NEW rs, NEW i
  PROVE  /\ Abstract!route_refresh(rs, i) = route_refresh(rs, i)
         /\ Abstract!route_remove(rs, i) = route_remove(rs, i)
BY DEF Abstract!route_refresh, route_refresh, Abstract!route_remove, route_remove,
       Abstract!RemoveAt, RemoveAt

(* A tick finds no blacklisted neighbour where there is none.              *)
LEMMA NoBlacklist == Abstract!AgeBlacklist(<<>>) = <<>>
<1>1. DOMAIN <<>> = {}
  OBVIOUS
<1>2. Abstract!Lapsing(<<>>) = {}
  BY <1>1 DEF Abstract!Lapsing
<1>3. Abstract!AgeBlacklist(<<>>) = [i \in DOMAIN <<>> |-> Abstract!Shorter(<<>>, i)]
  BY <1>2 DEF Abstract!AgeBlacklist
<1> DEFINE aged == [i \in 1 .. 0 |-> Abstract!Shorter(<<>>, i)]
<1>4. aged = <<>>
  BY EmptySeq
<1>5. DOMAIN <<>> = 1 .. 0
  OBVIOUS
<1> QED BY <1>3, <1>4, <1>5

(* Why a pending entry w may be gone after a step.                         *)
Cause(w) ==
  \/ Periodic /\ cell[w[1]].mid = 1
  \/ Free(Now, "pending") = {} /\ w[1] = LastOf(Now, "pending")
  \/ Reinit

(* What each action does, in one place: memory stays sound, the Routing    *)
(* Set makes a step of RouteSet or none, and no pending entry goes without *)
(* cause - unless the lists come to share an element.                      *)
LEMMA EveryStep ==
  ASSUME NEW s, Sound(Now, s), Next, Intact'
  PROVE  /\ \E z : Sound(Now', z)
         /\ Routes' = Routes \/ Abstract!Next
         /\ \A w \in Waiting : w \in Waiting' \/ Cause(w)
<1> DEFINE Goal == /\ \E z : Sound(Now', z)
                   /\ Routes' = Routes \/ Abstract!Next
                   /\ \A w \in Waiting : w \in Waiting' \/ Cause(w)
<1>1. ASSUME NEW dest \in Addr, NEW nexthop \in Addr, NEW cost \in Cost, NEW seqno \in Seqno,
             RouteAdd(dest, nexthop, cost, seqno)
      PROVE  Goal
  <2>1. /\ \E z : Sound(Now', z)
        /\ Routes' = route_add(Routes, dest, nexthop, cost, seqno) /\ Waiting' = Waiting
    BY <1>1, RouteAddStep
  <2>2. Abstract!RouteAdd(dest, nexthop, cost, seqno)
    BY <2>1, SameAdd DEF Abstract!RouteAdd
  <2>3. Abstract!Next
    BY <2>2 DEF Abstract!Next
  <2> QED BY <2>1, <2>3
<1>2. ASSUME NEW dest \in Addr, RouteRefresh(dest)
      PROVE  Goal
  <2>1. /\ \E z : Sound(Now', z)
        /\ Routes' = route_refresh(Routes, route_lookup(Routes, dest)) /\ Waiting' = Waiting
    BY <1>2, RouteRefreshStep
  <2>2. Abstract!RouteRefresh(dest)
    BY <2>1, SameLookup, SameRefreshRemove DEF Abstract!RouteRefresh
  <2>3. Abstract!Next
    BY <2>2 DEF Abstract!Next
  <2> QED BY <2>1, <2>3
<1>3. ASSUME NEW dest \in Addr, RouteRemove(dest)
      PROVE  Goal
  <2>1. /\ \E z : Sound(Now', z)
        /\ Routes' = route_remove(Routes, route_lookup(Routes, dest)) /\ Waiting' = Waiting
    BY <1>3, RouteRemoveStep
  <2>2. Abstract!RouteRemove(dest)
    BY <2>1, SameLookup, SameRefreshRemove DEF Abstract!RouteRemove
  <2>3. Abstract!Next
    BY <2>2 DEF Abstract!Next
  <2> QED BY <2>1, <2>3
<1>4. ASSUME NEW nexthop \in Addr, NEW dest \in Addr, NEW id \in RREQ_ID, NEW timeout \in AckTimeout,
             PendingAdd(nexthop, dest, id, timeout)
      PROVE  Goal
  <2>1. route_pending_list_lookup(nexthop, dest, id) = NULL
    BY <1>4, PendingAddTangles
  <2> QED BY <1>4, <2>1, PendingAddStep DEF Cause
<1>5. ASSUME NEW from \in Addr, NEW orig \in Addr, NEW seq_num \in RREQ_ID,
             PendingRemove(from, orig, seq_num)
      PROVE  Goal
  BY <1>5, PendingRemoveStep
<1>6. CASE Periodic
  <2>1. /\ \E z : Sound(Now', z) /\ Routes' = AgeRoutes(Routes)
        /\ \A w \in Waiting : w \in Waiting' \/ cell[w[1]].mid = 1
    BY <1>6, PeriodicStep
  <2>2. Abstract!Periodic
    BY <2>1, SameAge, NoBlacklist DEF Abstract!Periodic
  <2>3. Abstract!Next
    BY <2>2 DEF Abstract!Next
  <2> QED BY <1>6, <2>1, <2>3 DEF Cause
<1>7. CASE Reinit
  <2> DEFINE z == [l \in Lists |-> <<>>]
  <2>1. Sound(Blank, z) /\ RoutesOf(Blank, z) = <<>>
    BY BlankSound
  <2> HIDE DEF z
  <2>2. Linked(Blank, z) /\ Blank \in Memory
    BY <2>1, SoundLists
  <2>3. Now' = Blank
    BY <1>7, <2>2, Becoming DEF Reinit
  <2>4. Routes' = <<>>
    BY <2>1, <2>2, <2>3, SeenNext
  <2>5. Abstract!Reinit
    BY <2>4 DEF Abstract!Reinit
  <2>6. Abstract!Next
    BY <2>5 DEF Abstract!Next
  <2> QED BY <1>7, <2>1, <2>3, <2>6 DEF Cause
<1> HIDE DEF Goal
<1>8. CASE \E dest, nexthop \in Addr, cost \in Cost, seqno \in Seqno :
             RouteAdd(dest, nexthop, cost, seqno)
  <2>1. Goal
    BY <1>1, <1>8, Zenon
  <2> QED BY <2>1 DEF Goal
<1>9. CASE \E dest \in Addr : RouteRefresh(dest) \/ RouteRemove(dest)
  <2>1. Goal
    BY <1>2, <1>3, <1>9, Zenon
  <2> QED BY <2>1 DEF Goal
<1>10. CASE \E nexthop, dest \in Addr, id \in RREQ_ID, timeout \in AckTimeout :
              PendingAdd(nexthop, dest, id, timeout)
  <2>1. Goal
    BY <1>4, <1>10, Zenon
  <2> QED BY <2>1 DEF Goal
<1>11. CASE \E from, orig \in Addr, seq_num \in RREQ_ID : PendingRemove(from, orig, seq_num)
  <2>1. Goal
    BY <1>5, <1>11, Zenon
  <2> QED BY <2>1 DEF Goal
<1> QED BY <1>6, <1>7, <1>8, <1>9, <1>10, <1>11, Zenon DEF Next

LEMMA PoolsStart ==
  ASSUME Init
  PROVE  PoolInv /\ Routes = <<>>
<1> DEFINE z == [l \in Lists |-> <<>>]
<1>1. Sound(Blank, z) /\ RoutesOf(Blank, z) = <<>>
  BY BlankSound
<1> HIDE DEF z
<1>2. Now = Blank
  BY DEF Init, Now, Blank
<1> QED BY <1>1, <1>2, SoundLists, Seen DEF PoolInv

LEMMA PoolsKept ==
  ASSUME PoolInv, [Next]_memory
  PROVE  PoolInv'
<1> SUFFICES ASSUME Intact'
             PROVE  (\E s : Sound(Now, s))'
  BY DEF PoolInv
<1>1. CASE Next
  <2>1. PICK s : Sound(Now, s)
    BY <1>1 DEF PoolInv, Next
  <2> QED BY <1>1, <2>1, EveryStep
<1>2. CASE UNCHANGED memory
  <2>1. Now' = Now /\ Intact' = Intact
    BY <1>2 DEF memory, Now, Intact
  <2> QED BY <2>1 DEF PoolInv
<1> QED BY <1>1, <1>2

(* Memory that is intact is sound.                                         *)
LEMMA PoolInvariant == Spec => []PoolInv
<1>1. Init => PoolInv
  BY PoolsStart
<1>2. PoolInv /\ [Next]_memory => PoolInv'
  BY PoolsKept
<1> QED BY <1>1, <1>2, PTL DEF Spec

(* No element is lost: one that memb_alloc has given away is in the list   *)
(* of its pool, whatever was added, removed, aged and evicted.             *)
THEOREM NoElementLeaks == Spec => []NothingLeaks
<1>1. PoolInv => NothingLeaks
  <2> SUFFICES ASSUME PoolInv, Intact, NEW l \in DOMAIN Block
               PROVE  InList(Now, l) = used \cap Block[l]
    BY DEF NothingLeaks
  <2>1. PICK s : Sound(Now, s)
    BY DEF PoolInv
  <2>2. l \in Lists
    BY TwoPools
  <2>3. Pooled(Now, s) /\ Linked(Now, s)
    BY <2>1, SoundLists
  <2>4. InList(Now, l) = Members(s[l]) /\ Members(s[l]) = Now.used \cap Block[l]
    BY <2>2, <2>3, LinkedLists, PooledLists
  <2> QED BY <2>4 DEF Now
<1> QED BY <1>1, PoolInvariant, PTL

(* The linked lists implement the sequence of RouteSet.                    *)
THEOREM PoolsImplementRouteSet == Spec => ImplementsRouteSet
<1>1. Init => Abstract!route_init
  BY PoolsStart DEF Abstract!route_init
<1>2. PoolInv /\ [Next]_memory =>
        [Intact' => UNCHANGED Routes \/ Abstract!Next]_memory
  <2> SUFFICES ASSUME PoolInv, Next, Intact'
               PROVE  UNCHANGED Routes \/ Abstract!Next
    OBVIOUS
  <2>1. PICK s : Sound(Now, s)
    BY DEF PoolInv, Next
  <2> QED BY <2>1, EveryStep
<1> QED BY <1>1, <1>2, PoolInvariant, PTL DEF Spec, ImplementsRouteSet

(* A pending entry goes only by its own acknowledgement, when its time is  *)
(* up, by eviction from a full pool or at a restart.                       *)
THEOREM PendingEntriesWait == Spec => PendingGoesForCause
<1> DEFINE Step == \A w \in Waiting : Intact' /\ w \notin Waiting' =>
                     \/ PendingRemove(w[2], w[3], w[4])
                     \/ Periodic /\ cell[w[1]].mid = 1
                     \/ Free(Now, "pending") = {} /\ w[1] = LastOf(Now, "pending")
                     \/ Reinit
<1>1. PoolInv /\ [Next]_memory => [Step]_memory
  <2> SUFFICES ASSUME PoolInv, Next, Intact', NEW w \in Waiting, w \notin Waiting'
               PROVE  Cause(w)
    BY DEF Cause
  <2>1. PICK s : Sound(Now, s)
    BY DEF PoolInv, Next
  <2> QED BY <2>1, EveryStep
<1> QED BY <1>1, PoolInvariant, PTL DEF Spec, PendingGoesForCause
=============================================================================
