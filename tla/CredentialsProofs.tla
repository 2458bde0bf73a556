------------------------- MODULE CredentialsProofs --------------------------
(***************************************************************************)
(* Proofs about Credentials and the resolver in it, for any documents,     *)
(* credentials, kids, relationships and size of the status list.           *)
(*                                                                         *)
(* The first half is about parse_did_document alone: what its loops        *)
(* compute, and that a self-contained document does not depend on the      *)
(* order of the relationships.  The second half is the invariant of the    *)
(* system.                                                                 *)
(***************************************************************************)
EXTENDS Credentials, Integers, FiniteSetTheorems, SequenceTheorems, WellFoundedInduction, TLAPS

\* A set of numbers that is not empty has a least element.
LEMMA Least ==
  ASSUME NEW T, T \subseteq Nat, T # {}
  PROVE  \E x \in T : \A y \in T : x <= y
<1>1. \E x \in T : \A y \in T : ~(<<y, x>> \in OpToRel(<, Nat))
  BY NatLessThanWellFounded, WFMin, Zenon
<1>2. PICK x \in T : \A y \in T : ~(<<y, x>> \in OpToRel(<, Nat))
  BY <1>1
<1>3. ASSUME NEW y \in T PROVE x <= y
  <2>1. ~(<<y, x>> \in {ss \in Nat \X Nat : ss[1] < ss[2]})
    BY <1>2 DEF OpToRel
  <2> QED
    BY <2>1
<1> QED
  BY <1>3

\* A set that has 0 and, with each number below n, the next one, has all
\* numbers up to n.
LEMMA Upwards ==
  ASSUME NEW n \in Nat, NEW T, 0 \in T, \A j \in 1..n : j - 1 \in T => j \in T
  PROVE  0..n \subseteq T
<1> SUFFICES ASSUME ~(0..n \subseteq T) PROVE FALSE
  OBVIOUS
<1> DEFINE U == (0..n) \ T
<1>1. U \subseteq Nat /\ U # {}
  OBVIOUS
<1>2. PICK x \in U : \A y \in U : x <= y
  BY <1>1, Least
<1>3. x \in 1..n /\ x - 1 \in 0..n /\ ~(x <= x - 1)
  BY <1>2
<1>4. x - 1 \in T
  BY <1>2, <1>3
<1> QED
  BY <1>2, <1>3, <1>4

\* The n steps of a loop over D, and a run of it.
Steps(D, n) == [1..n -> [D -> D]]

IsRun(g, D, n, base, f) ==
  g \in [0..n -> D] /\ g[0] = base /\ \A j \in 1..n : g[j] = f[j][g[j - 1]]

\* A loop whose steps stay in D runs.
LEMMA Iteration ==
  ASSUME NEW n \in Nat, NEW D, NEW base \in D, NEW f \in Steps(D, n)
  PROVE  \E g : IsRun(g, D, n, base, f)
<1> DEFINE T == {k \in 0..n : \E g : IsRun(g, D, k, base, f)}
<1>1. 0 \in T
  <2> DEFINE g == [x \in 0..0 |-> base]
  <2>1. IsRun(g, D, 0, base, f) /\ 0 \in 0..n
    BY DEF IsRun
  <2> HIDE DEF g
  <2> QED
    BY <2>1
<1>2. ASSUME NEW k \in 1..n, k - 1 \in T PROVE k \in T
  <2>1. PICK h : IsRun(h, D, k - 1, base, f)
    BY <1>2
  <2>2. f[k] \in [D -> D] /\ h[k - 1] \in D
    BY <2>1 DEF Steps, IsRun
  <2> DEFINE g == [x \in 0..k |-> IF x = k THEN f[k][h[k - 1]] ELSE h[x]]
  <2>3. g \in [0..k -> D] /\ g[k] = f[k][h[k - 1]] /\ \A x \in 0..(k - 1) : g[x] = h[x]
    BY <2>1, <2>2 DEF IsRun
  <2> HIDE DEF g
  <2>4. ASSUME NEW j \in 1..k PROVE g[j] = f[j][g[j - 1]]
    <3>1. CASE j = k
      BY <2>3, <3>1
    <3>2. CASE j # k
      <4>1. j \in 1..(k - 1) /\ j \in 0..(k - 1) /\ j - 1 \in 0..(k - 1)
        BY <3>2
      <4> QED
        BY <2>1, <2>3, <4>1 DEF IsRun
    <3> QED
      BY <3>1, <3>2
  <2>5. g[0] = base /\ k \in 0..n
    BY <2>1, <2>3 DEF IsRun
  <2>6. IsRun(g, D, k, base, f)
    BY <2>3, <2>4, <2>5 DEF IsRun
  <2> QED
    BY <2>5, <2>6
<1> HIDE DEF T
<1>3. 0..n \subseteq T
  BY <1>1, <1>2, Upwards
<1>4. n \in T
  BY <1>3
<1> QED
  BY <1>4 DEF T

-----------------------------------------------------------------------------
(* Documents                                                               *)

Methods(raw) == Range(raw.methods) \cup UNION {Range(raw.rels[rel]) : rel \in Relationships}

Names(raw) == Kids \cup {m.id : m \in Methods(raw)}

\* What parse_did_document may have made of a raw document so far.
Open(raw) ==
  [ok : {TRUE}, id : {raw.id}, methods : Seq(Methods(raw)),
   allowed : [Relationships -> SUBSET Names(raw)]]

Docs(raw) == {Failed} \cup Open(raw)

\* A document is a failure, or has the fields of Open.
LEMMA DocFacts ==
  ASSUME NEW raw, NEW doc \in Docs(raw)
  PROVE  /\ doc.ok \in BOOLEAN
         /\ ~doc.ok => doc = Failed
         /\ doc.ok => /\ doc \in Open(raw) /\ doc.id = raw.id /\ doc.methods \in Seq(Methods(raw))
                      /\ doc.allowed \in [Relationships -> SUBSET Names(raw)]
<1>1. CASE doc = Failed
  BY <1>1 DEF Failed
<1>2. CASE doc \in Open(raw)
  BY <1>2 DEF Open
<1> QED
  BY <1>1, <1>2 DEF Docs

\* One item, in words.
LEMMA AddItemFacts ==
  ASSUME NEW raw, NEW doc \in Docs(raw), NEW rel \in Relationships,
         NEW item \in Methods(raw)
  PROVE  /\ AddItem(doc, rel, item) \in Docs(raw)
         /\ AddItem(doc, rel, item).ok <=>
              doc.ok /\ IF item \in Kids THEN item \in Ids(doc.methods) ELSE WellFormed(item)
         /\ AddItem(doc, rel, item).ok =>
              /\ AddItem(doc, rel, item).methods =
                   IF item \in Kids THEN doc.methods ELSE AddEmbedded(doc.methods, item)
              /\ AddItem(doc, rel, item).allowed =
                   [doc.allowed EXCEPT ![rel] = @ \cup {IF item \in Kids THEN item ELSE item.id}]
<1> DEFINE r == AddItem(doc, rel, item)
<1>0. Failed \in Docs(raw) /\ ~Failed.ok
  BY DEF Docs, Failed
<1>1. CASE ~doc.ok
  <2>1. r = Failed
    BY <1>1 DEF AddItem
  <2> QED
    BY <1>0, <1>1, <2>1
<1>2. CASE doc.ok
  <2>1. /\ doc.methods \in Seq(Methods(raw)) /\ doc.allowed \in [Relationships -> SUBSET Names(raw)]
        /\ doc \in Open(raw)
    BY <1>2, DocFacts
  <2>2. CASE item \in Kids /\ item \in Ids(doc.methods)
    <3> DEFINE al == [doc.allowed EXCEPT ![rel] = @ \cup {item}]
    <3>1. r = [doc EXCEPT !.allowed = al]
      BY <1>2, <2>2 DEF AddItem
    <3>2. al \in [Relationships -> SUBSET Names(raw)]
      BY <2>1, <2>2 DEF Names
    <3> HIDE DEF al
    <3>3. r \in Open(raw) /\ r.ok /\ r.methods = doc.methods /\ r.allowed = al
      <4> HIDE DEF r
      <4> QED
        BY <2>1, <3>1, <3>2 DEF Open
    <3> QED
      BY <1>2, <2>2, <3>3 DEF Docs, al
  <2>3. CASE item \notin Kids /\ WellFormed(item)
    <3> DEFINE al == [doc.allowed EXCEPT ![rel] = @ \cup {item.id}]
               ms == AddEmbedded(doc.methods, item)
    <3>1. r = [doc EXCEPT !.methods = ms, !.allowed = al]
      BY <1>2, <2>3 DEF AddItem
    <3>2. al \in [Relationships -> SUBSET Names(raw)]
      BY <2>1, <2>3 DEF Names
    <3>3. ms \in Seq(Methods(raw))
      BY <2>1 DEF AddEmbedded
    <3> HIDE DEF al, ms
    <3>4. r \in Open(raw) /\ r.ok /\ r.methods = ms /\ r.allowed = al
      <4> HIDE DEF r
      <4> QED
        BY <2>1, <3>1, <3>2, <3>3 DEF Open
    <3> QED
      BY <1>2, <2>3, <3>4 DEF Docs, al, ms
  <2>4. CASE ~IF item \in Kids THEN item \in Ids(doc.methods) ELSE WellFormed(item)
    <3>1. r = Failed
      BY <1>2, <2>4 DEF AddItem
    <3> QED
      BY <1>0, <1>2, <2>4, <3>1
  <2> QED
    BY <2>2, <2>3, <2>4
<1> QED
  BY <1>1, <1>2, DocFacts

\* The loop over the items of a relationship.
LEMMA RelatedUnfolds ==
  ASSUME NEW raw, IsRaw(raw), NEW rel \in Relationships, NEW doc \in Docs(raw)
  PROVE  LET items == raw.rels[rel] IN
         \E after \in [0..Len(items) -> Docs(raw)] :
           /\ after[0] = doc /\ after[Len(items)] = Related(raw, doc, rel)
           /\ \A i \in 1..Len(items) : after[i] = AddItem(after[i - 1], rel, items[i])
<1> DEFINE items == raw.rels[rel]
           n == Len(items)
           body(g) == [i \in 0..n |-> IF i = 0 THEN doc ELSE AddItem(g[i - 1], rel, items[i])]
           f == [i \in 1..n |-> [d \in Docs(raw) |-> AddItem(d, rel, items[i])]]
           after == CHOOSE g : g = body(g)
<1>1. n \in Nat /\ \A i \in 1..n : items[i] \in Methods(raw)
  <2>1. items \in Seq(Range(items))
    BY DEF IsRaw
  <2>2. Range(items) \subseteq Methods(raw)
    BY DEF Methods
  <2> HIDE DEF items
  <2> QED
    BY <2>1, <2>2
<1>2. Related(raw, doc, rel) = after[n]
  BY DEF Related
<1> HIDE DEF items, n, after
<1>3. f \in Steps(Docs(raw), n) /\
      \A d \in Docs(raw), i \in 1..n : f[i][d] = AddItem(d, rel, items[i])
  BY <1>1, AddItemFacts DEF Steps
<1> HIDE DEF f
<1>4. PICK g \in [0..n -> Docs(raw)] : g[0] = doc /\ \A i \in 1..n : g[i] = f[i][g[i - 1]]
  <2>1. \E g : IsRun(g, Docs(raw), n, doc, f)
    BY <1>1, <1>3, Iteration
  <2> QED
    BY <2>1 DEF IsRun
<1>5. g = body(g)
  <2>1. ASSUME NEW i \in 0..n PROVE g[i] = IF i = 0 THEN doc ELSE AddItem(g[i - 1], rel, items[i])
    <3>1. CASE i = 0
      BY <1>4, <3>1
    <3>2. CASE i # 0
      <4>1. i \in 1..n /\ i - 1 \in 0..n /\ g[i - 1] \in Docs(raw)
        BY <1>1, <3>2
      <4> QED
        BY <1>3, <1>4, <3>2, <4>1
    <3> QED
      BY <3>1, <3>2
  <2> QED
    BY <2>1
<1>6. after = body(after)
  <2> HIDE DEF body
  <2>1. \E h : h = body(h)
    BY <1>5
  <2> QED
    BY <2>1 DEF after
<1>7. \A i \in 0..n : after[i] = IF i = 0 THEN doc ELSE AddItem(after[i - 1], rel, items[i])
  BY <1>6
<1> DEFINE T == {i \in 0..n : after[i] = g[i]}
<1>8. 0 \in T
  BY <1>1, <1>4, <1>7
<1>9. ASSUME NEW i \in 1..n, i - 1 \in T PROVE i \in T
  <2>1. i \in 0..n /\ i # 0 /\ i - 1 \in 0..n /\ g[i - 1] \in Docs(raw)
    BY <1>1
  <2> QED
    BY <1>3, <1>4, <1>7, <1>9, <2>1
<1> HIDE DEF T
<1>10. 0..n \subseteq T
  BY <1>1, <1>8, <1>9, Upwards
<1>11. n \in 0..n /\ after[n] = g[n]
  BY <1>1, <1>10 DEF T
<1>12. \A i \in 1..n : g[i] = AddItem(g[i - 1], rel, items[i])
  <2> TAKE i \in 1..n
  <2>1. i - 1 \in 0..n /\ g[i - 1] \in Docs(raw)
    BY <1>1
  <2> QED
    BY <1>3, <1>4, <2>1
<1> QED
  BY <1>2, <1>4, <1>11, <1>12 DEF n, items

\* A relationship makes a document of a document.
LEMMA RelatedType ==
  ASSUME NEW raw, IsRaw(raw), NEW rel \in Relationships, NEW doc \in Docs(raw)
  PROVE  Related(raw, doc, rel) \in Docs(raw)
<1> DEFINE n == Len(raw.rels[rel])
<1>1. PICK g \in [0..n -> Docs(raw)] : g[n] = Related(raw, doc, rel)
  BY RelatedUnfolds
<1>2. n \in 0..n
  BY DEF IsRaw
<1> QED
  BY <1>1, <1>2

\* The orders: every relationship has one place.
LEMMA OrderFacts ==
  ASSUME NEW o \in Orders
  PROVE  /\ Len(o) \in Nat /\ \A k \in 1..Len(o) : o[k] \in Relationships
         /\ \A j, k \in 1..Len(o) : o[j] = o[k] => j = k
         /\ \A rel \in Relationships : \E k \in 1..Len(o) : o[k] = rel
<1> DEFINE n == Cardinality(Relationships)
<1>1. n \in Nat /\ IsFiniteSet(Relationships)
  BY FS_CardinalityType, DocumentsAssumption
<1>2. o \in [1..n -> Relationships] /\ \A i, j \in 1..n : i # j => o[i] # o[j]
  BY DEF Orders, SetToSeqs
<1> HIDE DEF n
<1>3. o \in Seq(Relationships) /\ Len(o) = n
  BY <1>1, <1>2
<1>4. o \in Injection(1..n, Relationships)
  BY <1>2 DEF Injection, IsInjective
<1>5. o \in Surjection(1..n, Relationships)
  <2>1. IsFiniteSet(1..n) /\ Cardinality(1..n) = n
    <3>1. 1 \in Int /\ n \in Int /\ (1 > n => n = 0) /\ n - 1 + 1 = n
      BY <1>1
    <3> QED
      BY <3>1, FS_Interval
  <2> QED
    BY <1>1, <1>4, <2>1, FS_Injection DEF n
<1>6. \A rel \in Relationships : \E k \in 1..n : o[k] = rel
  BY <1>5 DEF Surjection
<1> QED
  BY <1>1, <1>2, <1>3, <1>6

ListedIsFine(raw) ==
  raw.id # Missing /\ raw.methods # <<>> /\ \A i \in DOMAIN raw.methods : WellFormed(raw.methods[i])

\* The document that the loops start with.
LEMMA ListedFacts ==
  ASSUME NEW raw, IsRaw(raw)
  PROVE  /\ Listed(raw) \in Docs(raw) /\ Listed(raw).ok /\ Listed(raw).methods = raw.methods
         /\ \A rel \in Relationships : Listed(raw).allowed[rel] = {}
<1>1. raw.methods \in Seq(Methods(raw))
  BY DEF IsRaw, Methods
<1>2. [rel \in Relationships |-> {}] \in [Relationships -> SUBSET Names(raw)]
  OBVIOUS
<1> QED
  BY <1>1, <1>2 DEF Listed, Docs, Open

\* The loop over the relationships.
LEMMA ParseUnfolds ==
  ASSUME NEW raw, IsRaw(raw), NEW o \in Orders
  PROVE  /\ ~ListedIsFine(raw) => Parse(raw, o) = Failed
         /\ ListedIsFine(raw) =>
              \E after \in [0..Len(o) -> Docs(raw)] :
                /\ after[0] = Listed(raw) /\ after[Len(o)] = Parse(raw, o)
                /\ \A k \in 1..Len(o) : after[k] = Related(raw, after[k - 1], o[k])
<1> DEFINE n == Len(o)
           body(g) == [k \in 0..n |-> IF k = 0 THEN Listed(raw) ELSE Related(raw, g[k - 1], o[k])]
           f == [k \in 1..n |-> [d \in Docs(raw) |-> Related(raw, d, o[k])]]
           after == CHOOSE g : g = body(g)
<1>1. n \in Nat /\ \A k \in 1..n : o[k] \in Relationships
  BY OrderFacts
<1>2. Parse(raw, o) = IF ListedIsFine(raw) THEN after[n] ELSE Failed
  BY DEF Parse, ListedIsFine
<1> HIDE DEF n, after
<1>3. f \in Steps(Docs(raw), n) /\
      \A d \in Docs(raw), k \in 1..n : f[k][d] = Related(raw, d, o[k])
  <2>1. \A d \in Docs(raw), k \in 1..n : Related(raw, d, o[k]) \in Docs(raw)
    <3> TAKE d \in Docs(raw), k \in 1..n
    <3>1. o[k] \in Relationships
      BY <1>1
    <3> QED
      BY <3>1, RelatedType
  <2> QED
    BY <2>1 DEF Steps
<1> HIDE DEF f
<1>4. PICK g \in [0..n -> Docs(raw)] : g[0] = Listed(raw) /\ \A k \in 1..n : g[k] = f[k][g[k - 1]]
  <2>1. \E g : IsRun(g, Docs(raw), n, Listed(raw), f)
    BY <1>1, <1>3, Iteration, ListedFacts
  <2> QED
    BY <2>1 DEF IsRun
<1>5. g = body(g)
  <2>1. ASSUME NEW k \in 0..n PROVE g[k] = IF k = 0 THEN Listed(raw) ELSE Related(raw, g[k - 1], o[k])
    <3>1. CASE k = 0
      BY <1>4, <3>1
    <3>2. CASE k # 0
      <4>1. k \in 1..n /\ k - 1 \in 0..n /\ g[k - 1] \in Docs(raw)
        BY <1>1, <3>2
      <4> QED
        BY <1>3, <1>4, <3>2, <4>1
    <3> QED
      BY <3>1, <3>2
  <2> QED
    BY <2>1
<1>6. after = body(after)
  <2> HIDE DEF body
  <2>1. \E h : h = body(h)
    BY <1>5
  <2> QED
    BY <2>1 DEF after
<1>7. \A k \in 0..n : after[k] = IF k = 0 THEN Listed(raw) ELSE Related(raw, after[k - 1], o[k])
  BY <1>6
<1> DEFINE T == {k \in 0..n : after[k] = g[k]}
<1>8. 0 \in T
  BY <1>1, <1>4, <1>7
<1>9. ASSUME NEW k \in 1..n, k - 1 \in T PROVE k \in T
  <2>1. k \in 0..n /\ k # 0 /\ k - 1 \in 0..n /\ g[k - 1] \in Docs(raw)
    BY <1>1
  <2> QED
    BY <1>3, <1>4, <1>7, <1>9, <2>1
<1> HIDE DEF T
<1>10. 0..n \subseteq T
  BY <1>1, <1>8, <1>9, Upwards
<1>11. n \in 0..n /\ after[n] = g[n]
  BY <1>1, <1>10 DEF T
<1>12. \A k \in 1..n : g[k] = Related(raw, g[k - 1], o[k])
  <2> TAKE k \in 1..n
  <2>1. k - 1 \in 0..n /\ g[k - 1] \in Docs(raw)
    BY <1>1
  <2> QED
    BY <1>3, <1>4, <2>1
<1> QED
  BY <1>2, <1>4, <1>11, <1>12 DEF n

\* A document that was parsed has the id of the raw one.
LEMMA ParseKeepsId ==
  ASSUME NEW raw, IsRaw(raw), NEW o \in Orders
  PROVE  Parse(raw, o) \in Docs(raw) /\ (Parse(raw, o).ok => Parse(raw, o).id = raw.id)
<1>1. CASE ListedIsFine(raw)
  <2>1. PICK after \in [0..Len(o) -> Docs(raw)] : after[Len(o)] = Parse(raw, o)
    BY <1>1, ParseUnfolds
  <2>2. Len(o) \in 0..Len(o)
    BY OrderFacts
  <2> QED
    BY <2>1, <2>2, DocFacts
<1>2. CASE ~ListedIsFine(raw)
  BY <1>2, ParseUnfolds DEF Docs, Failed
<1> QED
  BY <1>1, <1>2

\* find_method: the first method with the id.
LEMMA FirstMethod ==
  ASSUME NEW doc, NEW M, doc.methods \in Seq(M), NEW kid, HasMethod(doc, kid)
  PROVE  \E i \in 1..Len(doc.methods) :
           /\ FindMethod(doc, kid) = doc.methods[i] /\ doc.methods[i].id = kid
           /\ \A j \in 1..(i - 1) : doc.methods[j].id # kid
<1> DEFINE ms == doc.methods
           T == {i \in DOMAIN ms : ms[i].id = kid}
           first == CHOOSE i \in DOMAIN ms : ms[i].id = kid /\ \A j \in 1..(i - 1) : ms[j].id # kid
<1>0. Len(ms) \in Nat /\ DOMAIN ms = 1..Len(ms)
  OBVIOUS
<1>1. T \subseteq Nat /\ T # {}
  BY <1>0 DEF HasMethod, Ids
<1>2. PICK i \in T : \A j \in T : i <= j
  BY <1>1, Least
<1>3. \A j \in 1..(i - 1) : ms[j].id # kid
  BY <1>0, <1>2
<1>4. first \in DOMAIN ms /\ ms[first].id = kid /\ \A j \in 1..(first - 1) : ms[j].id # kid
  BY <1>2, <1>3
<1>5. FindMethod(doc, kid) = ms[first]
  BY DEF FindMethod
<1> HIDE DEF first
<1> QED
  BY <1>0, <1>4, <1>5

-----------------------------------------------------------------------------
(* What is parsed does not depend on the order of the relationships        *)

NameOf(item) == IF item \in Kids THEN item ELSE item.id

\* The list of methods after those of E were met: the listed ones, then some
\* of E whose id is not listed, so that there is one for every id.
Grown(raw, ms, E) ==
  /\ ms \in Seq(Methods(raw)) /\ Len(raw.methods) <= Len(ms)
  /\ \A i \in 1..Len(raw.methods) : ms[i] = raw.methods[i]
  /\ \A i \in 1..Len(ms) : i <= Len(raw.methods) \/ (ms[i] \in E /\ ms[i].id \notin Ids(raw.methods))
  /\ Ids(ms) = Ids(raw.methods) \cup {m.id : m \in E}

\* A document that was read up to the embedded methods of E, with the names
\* allowed so far.
ReadTo(raw, doc, E, allowed) ==
  /\ doc \in Docs(raw)
  /\ doc.ok <=> \A m \in E : WellFormed(m)
  /\ doc.ok => Grown(raw, doc.methods, E) /\ \A rel \in Relationships : doc.allowed[rel] = allowed[rel]

\* An embedded method is appended, or is known under its id.
LEMMA GrowsByOne ==
  ASSUME NEW raw, IsRaw(raw), NEW ms, NEW E, Grown(raw, ms, E), NEW m \in Methods(raw)
  PROVE  Grown(raw, AddEmbedded(ms, m), E \cup {m})
<1> DEFINE n == Len(raw.methods)
<1>0. /\ ms \in Seq(Methods(raw)) /\ n \in Nat /\ n <= Len(ms)
      /\ \A i \in 1..n : ms[i] = raw.methods[i]
      /\ \A i \in 1..Len(ms) : i <= n \/ (ms[i] \in E /\ ms[i].id \notin Ids(raw.methods))
      /\ Ids(ms) = Ids(raw.methods) \cup {x.id : x \in E}
  BY DEF Grown, IsRaw
<1>1. CASE m.id \in Ids(ms)
  <2>1. AddEmbedded(ms, m) = ms
    BY <1>1 DEF AddEmbedded
  <2> HIDE DEF n
  <2> QED
    BY <1>0, <1>1, <2>1 DEF Grown, n
<1>2. CASE m.id \notin Ids(ms)
  <2> DEFINE q == Append(ms, m)
  <2>1. AddEmbedded(ms, m) = q
    BY <1>2 DEF AddEmbedded
  <2>2. /\ q \in Seq(Methods(raw)) /\ Len(q) = Len(ms) + 1 /\ q[Len(ms) + 1] = m
        /\ \A i \in 1..Len(ms) : q[i] = ms[i]
    BY <1>0
  <2>3. Ids(q) = Ids(ms) \cup {m.id}
    <3>1. \A i \in 1..Len(q) : i \in 1..Len(ms) \/ i = Len(ms) + 1
      BY <1>0, <2>2
    <3>2. 1..Len(ms) \subseteq 1..Len(q) /\ Len(ms) + 1 \in 1..Len(q)
      BY <1>0, <2>2
    <3>3. DOMAIN q = 1..Len(q) /\ DOMAIN ms = 1..Len(ms)
      BY <1>0, <2>2
    <3> HIDE DEF q
    <3> QED
      BY <2>2, <3>1, <3>2, <3>3 DEF Ids
  <2> HIDE DEF q, n
  <2>4. \A i \in 1..n : q[i] = raw.methods[i]
    BY <1>0, <2>2
  <2>5. \A i \in 1..Len(q) : i <= n \/ (q[i] \in E \cup {m} /\ q[i].id \notin Ids(raw.methods))
    <3> TAKE i \in 1..Len(q)
    <3>1. CASE i \in 1..Len(ms)
      BY <1>0, <2>2, <3>1
    <3>2. CASE i = Len(ms) + 1
      BY <1>0, <1>2, <2>2, <3>2
    <3> QED
      BY <1>0, <2>2, <3>1, <3>2
  <2>6. n <= Len(q)
    BY <1>0, <2>2
  <2> QED
    BY <1>0, <2>1, <2>2, <2>3, <2>4, <2>5, <2>6 DEF Grown, n
<1> QED
  BY <1>1, <1>2

\* One item: a reference to what is known, or an embedded method.
LEMMA ReadsItem ==
  ASSUME NEW raw, IsRaw(raw), NEW doc, NEW E, NEW allowed, ReadTo(raw, doc, E, allowed),
         NEW rel \in Relationships, NEW item \in Methods(raw),
         item \in Kids => item \in Ids(raw.methods) \/ \E m \in E : m.id = item
  PROVE  ReadTo(raw, AddItem(doc, rel, item), E \cup ({item} \ Kids),
                [r \in Relationships |-> IF r = rel THEN allowed[r] \cup {NameOf(item)} ELSE allowed[r]])
<1> DEFINE new == AddItem(doc, rel, item)
<1>0. /\ doc \in Docs(raw) /\ (doc.ok <=> \A m \in E : WellFormed(m))
      /\ doc.ok => Grown(raw, doc.methods, E) /\ \A r \in Relationships : doc.allowed[r] = allowed[r]
  BY DEF ReadTo
<1>1. /\ new \in Docs(raw)
      /\ new.ok <=> doc.ok /\ IF item \in Kids THEN item \in Ids(doc.methods) ELSE WellFormed(item)
      /\ new.ok =>
           /\ new.methods = IF item \in Kids THEN doc.methods ELSE AddEmbedded(doc.methods, item)
           /\ new.allowed = [doc.allowed EXCEPT ![rel] = @ \cup {NameOf(item)}]
  BY <1>0, AddItemFacts DEF NameOf
<1> HIDE DEF new
<1>2. new.ok <=> \A m \in E \cup ({item} \ Kids) : WellFormed(m)
  <2>1. CASE item \in Kids
    <3>1. doc.ok => item \in Ids(doc.methods)
      BY <1>0, <2>1 DEF Grown
    <3> QED
      BY <1>0, <1>1, <2>1, <3>1
  <2>2. CASE item \notin Kids
    BY <1>0, <1>1, <2>2
  <2> QED
    BY <2>1, <2>2
<1>3. new.ok => Grown(raw, new.methods, E \cup ({item} \ Kids))
  <2>1. CASE item \in Kids
    <3>1. E \cup ({item} \ Kids) = E
      BY <2>1
    <3> QED
      BY <1>0, <1>1, <2>1, <3>1
  <2>2. CASE item \notin Kids
    <3>1. E \cup ({item} \ Kids) = E \cup {item}
      BY <2>2
    <3> QED
      BY <1>0, <1>1, <2>2, <3>1, GrowsByOne
  <2> QED
    BY <2>1, <2>2
<1>4. new.ok => \A r \in Relationships :
        new.allowed[r] = IF r = rel THEN allowed[r] \cup {NameOf(item)} ELSE allowed[r]
  <2> SUFFICES ASSUME new.ok, NEW r \in Relationships
               PROVE  new.allowed[r] = IF r = rel THEN allowed[r] \cup {NameOf(item)} ELSE allowed[r]
    OBVIOUS
  <2>1. DOMAIN doc.allowed = Relationships /\ doc.allowed[r] = allowed[r]
    BY <1>0, <1>1, DocFacts
  <2> QED
    BY <1>1, <2>1
<1> QED
  BY <1>1, <1>2, <1>3, <1>4 DEF ReadTo, new

\* The names that a relationship gives.
NamesIn(raw, rel) == {NameOf(raw.rels[rel][i]) : i \in DOMAIN raw.rels[rel]}

\* A relationship: its embedded methods, and its names.
LEMMA ReadsRelationship ==
  ASSUME NEW raw, IsRaw(raw), SelfContained(raw),
         NEW doc, NEW E, NEW allowed, ReadTo(raw, doc, E, allowed), NEW rel \in Relationships
  PROVE  ReadTo(raw, Related(raw, doc, rel), E \cup Embedded(raw, rel),
                [r \in Relationships |-> IF r = rel THEN allowed[r] \cup NamesIn(raw, rel) ELSE allowed[r]])
<1> DEFINE items == raw.rels[rel]
           n == Len(items)
           met(i) == E \cup ({items[j] : j \in 1..i} \ Kids)
           names(i) == [r \in Relationships |->
                          IF r = rel THEN allowed[r] \cup {NameOf(items[j]) : j \in 1..i} ELSE allowed[r]]
<1>0. /\ items \in Seq(Range(items)) /\ n \in Nat /\ DOMAIN items = 1..n
      /\ \A i \in 1..n : items[i] \in Methods(raw)
  <2>1. items \in Seq(Range(items))
    BY DEF IsRaw
  <2>2. Range(items) \subseteq Methods(raw)
    BY DEF Methods
  <2> HIDE DEF items
  <2> QED
    BY <2>1, <2>2
<1>1. PICK after \in [0..n -> Docs(raw)] :
        /\ after[0] = doc /\ after[n] = Related(raw, doc, rel)
        /\ \A i \in 1..n : after[i] = AddItem(after[i - 1], rel, items[i])
  BY RelatedUnfolds DEF ReadTo
<1>2. \A i \in 1..n : items[i] \in Kids =>
        items[i] \in Ids(raw.methods) \/ \E j \in 1..(i - 1) : items[j] \notin Kids /\ items[j].id = items[i]
  BY <1>0 DEF SelfContained
<1>3. Embedded(raw, rel) = {items[j] : j \in 1..n} \ Kids /\ NamesIn(raw, rel) = {NameOf(items[j]) : j \in 1..n}
  BY <1>0 DEF Embedded, NamesIn
<1> DEFINE T == {i \in 0..n : ReadTo(raw, after[i], met(i), names(i))}
<1> HIDE DEF items, n
<1>4. 0 \in T
  <2>1. met(0) = E /\ \A r \in Relationships : names(0)[r] = allowed[r]
    <3>1. 1..0 = {}
      OBVIOUS
    <3>2. {items[j] : j \in 1..0} = {} /\ {NameOf(items[j]) : j \in 1..0} = {}
      BY <3>1, Zenon
    <3> QED
      BY <3>2
  <2> HIDE DEF met, names
  <2> QED
    BY <1>0, <1>1, <2>1 DEF ReadTo
<1>5. ASSUME NEW i \in 1..n, i - 1 \in T PROVE i \in T
  <2>1. /\ i - 1 \in Nat /\ i \in Nat /\ 1..i = 1..(i - 1) \cup {i} /\ 1..(i - 1) \subseteq 1..n
        /\ i \in 0..n
    BY <1>0
  <2>2. met(i) = met(i - 1) \cup ({items[i]} \ Kids)
    BY <2>1
  <2>3. \A r \in Relationships :
          names(i)[r] = IF r = rel THEN names(i - 1)[r] \cup {NameOf(items[i])} ELSE names(i - 1)[r]
    BY <2>1
  <2>4. items[i] \in Kids => items[i] \in Ids(raw.methods) \/ \E m \in met(i - 1) : m.id = items[i]
    BY <1>2, <2>1
  <2>5. ReadTo(raw, after[i - 1], met(i - 1), names(i - 1)) /\ items[i] \in Methods(raw)
    BY <1>0, <1>5
  <2> DEFINE al == [r \in Relationships |->
                      IF r = rel THEN names(i - 1)[r] \cup {NameOf(items[i])} ELSE names(i - 1)[r]]
  <2>6. \A r \in Relationships : names(i)[r] = al[r]
    BY <2>3
  <2> HIDE DEF met, names
  <2>7. ReadTo(raw, AddItem(after[i - 1], rel, items[i]), met(i - 1) \cup ({items[i]} \ Kids), al)
    BY <2>4, <2>5, ReadsItem
  <2> HIDE DEF al
  <2>8. ReadTo(raw, after[i], met(i), names(i))
    BY <1>1, <2>2, <2>6, <2>7 DEF ReadTo
  <2> QED
    BY <2>1, <2>8
<1> HIDE DEF T
<1>6. 0..n \subseteq T
  BY <1>0, <1>4, <1>5, Upwards
<1>7. n \in T
  BY <1>0, <1>6
<1>8. ReadTo(raw, Related(raw, doc, rel), met(n), names(n))
  BY <1>1, <1>7 DEF T
<1> QED
  BY <1>3, <1>8

AllEmbedded(raw) == UNION {Embedded(raw, rel) : rel \in Relationships}

\* A whole document, in any order.
LEMMA ReadsDocument ==
  ASSUME NEW raw, IsRaw(raw), SelfContained(raw), ListedIsFine(raw), NEW o \in Orders
  PROVE  ReadTo(raw, Parse(raw, o), AllEmbedded(raw), [rel \in Relationships |-> NamesIn(raw, rel)])
<1> DEFINE n == Len(o)
           met(k) == UNION {Embedded(raw, o[j]) : j \in 1..k}
           names(k) == [r \in Relationships |->
                          IF \E j \in 1..k : o[j] = r THEN NamesIn(raw, r) ELSE {}]
<1>0. /\ n \in Nat /\ \A k \in 1..n : o[k] \in Relationships
      /\ \A j, k \in 1..n : o[j] = o[k] => j = k
      /\ \A rel \in Relationships : \E k \in 1..n : o[k] = rel
  BY OrderFacts
<1>1. PICK after \in [0..n -> Docs(raw)] :
        /\ after[0] = Listed(raw) /\ after[n] = Parse(raw, o)
        /\ \A k \in 1..n : after[k] = Related(raw, after[k - 1], o[k])
  BY ParseUnfolds
<1> DEFINE T == {k \in 0..n : ReadTo(raw, after[k], met(k), names(k))}
<1> HIDE DEF n
<1>2. 0 \in T
  <2>1. met(0) = {} /\ \A r \in Relationships : names(0)[r] = {}
    OBVIOUS
  <2>2. Grown(raw, raw.methods, {})
    <3>1. raw.methods \in Seq(Methods(raw))
      BY DEF IsRaw, Methods
    <3> QED
      BY <3>1 DEF Grown
  <2> HIDE DEF met, names
  <2>3. ReadTo(raw, Listed(raw), met(0), names(0))
    BY <2>1, <2>2, ListedFacts DEF ReadTo
  <2> QED
    BY <1>0, <1>1, <2>3
<1>3. ASSUME NEW k \in 1..n, k - 1 \in T PROVE k \in T
  <2>1. /\ k - 1 \in Nat /\ k \in Nat /\ 1..k = 1..(k - 1) \cup {k} /\ k \notin 1..(k - 1)
        /\ 1..(k - 1) \subseteq 1..n /\ k \in 0..n /\ o[k] \in Relationships
    BY <1>0
  <2>2. met(k) = met(k - 1) \cup Embedded(raw, o[k])
    BY <2>1
  <2> DEFINE al == [r \in Relationships |->
                      IF r = o[k] THEN names(k - 1)[r] \cup NamesIn(raw, o[k]) ELSE names(k - 1)[r]]
  <2>3. \A r \in Relationships : names(k)[r] = al[r]
    <3> TAKE r \in Relationships
    <3>1. CASE r = o[k]
      <4>1. ~\E j \in 1..(k - 1) : o[j] = r
        BY <1>0, <2>1, <3>1
      <4> QED
        BY <2>1, <3>1, <4>1
    <3>2. CASE r # o[k]
      <4>1. (\E j \in 1..k : o[j] = r) <=> (\E j \in 1..(k - 1) : o[j] = r)
        BY <2>1, <3>2
      <4> QED
        BY <3>2, <4>1
    <3> QED
      BY <3>1, <3>2
  <2>4. ReadTo(raw, after[k - 1], met(k - 1), names(k - 1))
    BY <1>3
  <2> HIDE DEF met, names
  <2>5. ReadTo(raw, Related(raw, after[k - 1], o[k]), met(k - 1) \cup Embedded(raw, o[k]), al)
    BY <2>1, <2>4, ReadsRelationship
  <2> HIDE DEF al
  <2>6. ReadTo(raw, after[k], met(k), names(k))
    BY <1>1, <2>2, <2>3, <2>5 DEF ReadTo
  <2> QED
    BY <2>1, <2>6
<1> HIDE DEF T
<1>4. 0..n \subseteq T
  BY <1>0, <1>2, <1>3, Upwards
<1>5. n \in T
  BY <1>0, <1>4
<1>6. ReadTo(raw, Parse(raw, o), met(n), names(n))
  BY <1>1, <1>5 DEF T
<1>7. met(n) = AllEmbedded(raw)
  BY <1>0 DEF AllEmbedded
<1>8. \A r \in Relationships : names(n)[r] = [rel \in Relationships |-> NamesIn(raw, rel)][r]
  BY <1>0
<1> HIDE DEF met, names
<1> QED
  BY <1>6, <1>7, <1>8 DEF ReadTo

\* Embedded methods of one id that is not listed are the same.
OnePerId(raw, E) ==
  \A m1, m2 \in E : m1.id = m2.id => m1 = m2 \/ m1.id \in Ids(raw.methods)

\* Two lists that have grown by the same methods find the same method.
LEMMA FindsTheSame ==
  ASSUME NEW raw, IsRaw(raw), NEW E, NEW a, NEW b, Grown(raw, a.methods, E), Grown(raw, b.methods, E),
         OnePerId(raw, E), NEW kid
  PROVE  /\ HasMethod(a, kid) <=> HasMethod(b, kid)
         /\ HasMethod(a, kid) => FindMethod(a, kid) = FindMethod(b, kid)
<1> DEFINE n == Len(raw.methods)
<1>0. n \in Nat /\ DOMAIN raw.methods = 1..n
  BY DEF IsRaw
<1>1. HasMethod(a, kid) <=> HasMethod(b, kid)
  BY DEF HasMethod, Grown
<1>2. ASSUME HasMethod(a, kid) PROVE FindMethod(a, kid) = FindMethod(b, kid)
  <2>1. PICK i \in 1..Len(a.methods) :
          /\ FindMethod(a, kid) = a.methods[i] /\ a.methods[i].id = kid
          /\ \A j \in 1..(i - 1) : a.methods[j].id # kid
    BY <1>2, FirstMethod DEF Grown
  <2>2. PICK k \in 1..Len(b.methods) :
          /\ FindMethod(b, kid) = b.methods[k] /\ b.methods[k].id = kid
          /\ \A j \in 1..(k - 1) : b.methods[j].id # kid
    BY <1>1, <1>2, FirstMethod DEF Grown
  <2>3. /\ Len(a.methods) \in Nat /\ Len(b.methods) \in Nat
        /\ n <= Len(a.methods) /\ n <= Len(b.methods)
        /\ \A x \in 1..n : a.methods[x] = raw.methods[x] /\ b.methods[x] = raw.methods[x]
        /\ i <= n \/ (a.methods[i] \in E /\ kid \notin Ids(raw.methods))
        /\ k <= n \/ (b.methods[k] \in E /\ kid \notin Ids(raw.methods))
    BY <2>1, <2>2 DEF Grown
  <2> HIDE DEF n
  <2>4. CASE kid \in Ids(raw.methods)
    <3>1. i \in 1..n /\ k \in 1..n
      BY <1>0, <2>3, <2>4
    <3>2. ~(i < k) /\ ~(k < i)
      BY <1>0, <2>1, <2>2, <2>3, <3>1
    <3>3. i = k
      BY <3>1, <3>2, <1>0
    <3> QED
      BY <2>1, <2>2, <2>3, <3>1, <3>3
  <2>5. CASE kid \notin Ids(raw.methods)
    <3>1. ~(i <= n) /\ ~(k <= n)
      <4>1. \A x \in 1..n : raw.methods[x].id # kid
        BY <1>0, <2>5 DEF Ids
      <4> QED
        BY <1>0, <2>1, <2>2, <2>3, <4>1
    <3> QED
      BY <2>1, <2>2, <2>3, <2>5, <3>1 DEF OnePerId
  <2> QED
    BY <2>4, <2>5
<1> QED
  BY <1>1, <1>2

\* parse_did_document: a self-contained document means the same whatever the
\* order of the relationships is.
THEOREM OrderIsIrrelevant ==
  ASSUME NEW raw, IsRaw(raw), SelfContained(raw), NEW o1 \in Orders, NEW o2 \in Orders
  PROVE  /\ Parse(raw, o1).ok = Parse(raw, o2).ok
         /\ Parse(raw, o1).ok => Meaning(Parse(raw, o1)) = Meaning(Parse(raw, o2))
<1>1. CASE ~ListedIsFine(raw)
  <2>1. Parse(raw, o1) = Failed /\ Parse(raw, o2) = Failed
    BY <1>1, ParseUnfolds
  <2> QED
    BY <2>1
<1>2. CASE ListedIsFine(raw)
  <2> DEFINE a == Parse(raw, o1)
             b == Parse(raw, o2)
             E == AllEmbedded(raw)
             al == [rel \in Relationships |-> NamesIn(raw, rel)]
  <2>1. ReadTo(raw, a, E, al) /\ ReadTo(raw, b, E, al)
    BY <1>2, ReadsDocument
  <2>2. OnePerId(raw, E)
    BY DEF OnePerId, AllEmbedded, SelfContained
  <2> HIDE DEF a, b, E, al
  <2>3. a.ok \in BOOLEAN /\ b.ok \in BOOLEAN /\ a.ok = b.ok
    BY <2>1, DocFacts DEF ReadTo
  <2>4. ASSUME a.ok PROVE Meaning(a) = Meaning(b)
    <3>1. /\ Grown(raw, a.methods, E) /\ Grown(raw, b.methods, E)
          /\ \A rel \in Relationships : a.allowed[rel] = b.allowed[rel]
      BY <2>1, <2>3, <2>4 DEF ReadTo
    <3>2. ASSUME NEW kid \in Kids
          PROVE  /\ KeyFor(a, kid) = KeyFor(b, kid)
                 /\ \A rel \in Relationships : KeyForUse(a, kid, rel) = KeyForUse(b, kid, rel)
      <4>1. /\ HasMethod(a, kid) <=> HasMethod(b, kid)
            /\ HasMethod(a, kid) => FindMethod(a, kid) = FindMethod(b, kid)
        BY <2>2, <3>1, FindsTheSame
      <4>2. KeyFor(a, kid) = KeyFor(b, kid)
        BY <2>3, <4>1 DEF KeyFor
      <4> QED
        BY <2>3, <3>1, <4>1, <4>2 DEF KeyForUse, AllowedFor
    <3> QED
      BY <3>2 DEF Meaning
  <2> QED
    BY <2>3, <2>4 DEF a, b
<1> QED
  BY <1>1, <1>2

-----------------------------------------------------------------------------
(* The keys of the verifier                                                *)

DidTyped ==
  /\ \A did \in Dids : published[did] \in Documents[did] \cup {NoDoc}
  /\ DOMAIN published = Dids /\ published = [did \in Dids |-> published[did]]
  /\ order \in Orders
  /\ DOMAIN cache = Dids /\ cache = [did \in Dids |-> cache[did]]

\* The keys that a document gives to kids were published since the verifier
\* started.
KeysOf(doc) == {<<kid, KeyFor(doc, kid)>> : kid \in {k \in Kids : KeyFor(doc, k) # NoKey}}

\* What is cached is a document for its DID, and says nothing that was not
\* published since the verifier started; nor does what is published.
CacheInv ==
  /\ \A did \in Dids : cache[did] # NoDoc =>
       cache[did].ok /\ cache[did].id = did /\ KeysOf(cache[did]) \subseteq since
  /\ \A did \in Dids : KeysIn(did, published[did]) \subseteq since
  /\ \A pair \in since : pair[1] \in Kids

DidInv == DidTyped /\ CacheInv

\* The keys of a published document are for kids.
LEMMA KeysInPairs ==
  ASSUME NEW did, NEW raw, NEW pair \in KeysIn(did, raw)
  PROVE  pair[1] \in Kids
BY DEF KeysIn

\* What a fetch gives is one of the ways to read the published document.
LEMMA FetchedKeys ==
  ASSUME NEW did \in Dids, DidInv, Fetched(did).ok
  PROVE  Fetched(did).id = did /\ KeysOf(Fetched(did)) \subseteq since
<1>1. /\ published[did] # NoDoc /\ published[did].id = did
      /\ Fetched(did) = Parse(published[did], order)
  BY DEF Fetched, Failed
<1>2. IsRaw(published[did]) /\ order \in Orders
  BY <1>1, ResolutionAssumption DEF DidInv, DidTyped
<1>3. Fetched(did).id = did
  BY <1>1, <1>2, ParseKeepsId
<1>4. \A kid \in Kids : KeyFor(Fetched(did), kid) # NoKey =>
        <<kid, KeyFor(Fetched(did), kid)>> \in KeysIn(did, published[did])
  BY <1>1, <1>2 DEF KeysIn
<1>5. KeysOf(Fetched(did)) \subseteq KeysIn(did, published[did])
  BY <1>4 DEF KeysOf
<1> QED
  BY <1>3, <1>5 DEF DidInv, CacheInv

\* A did:key document has the key that its identifier spells.
LEMMA DidKeyKeys ==
  ASSUME NEW did \in Dids, NEW kid \in Kids, KeyFor(DidKeyDocument(did), kid) # NoKey
  PROVE  KeyFor(DidKeyDocument(did), kid) = KeyOf[kid]
<1> DEFINE own == {k \in DOMAIN KeyOf : DidOf[k] = did}
           method(k) == [id |-> k, type |-> "Ed25519VerificationKey2020", controller |-> did,
                         formats |-> {"publicKeyMultibase"}, key |-> KeyOf[k]]
           S == {method(k) : k \in own}
           doc == DidKeyDocument(did)
<1>1. doc.ok
  BY DEF KeyFor
<1>2. doc.methods = SetToSeq(S)
  <2>1. own # {}
    BY <1>1 DEF DidKeyDocument, Failed
  <2> QED
    BY <2>1 DEF DidKeyDocument
<1>3. IsFiniteSet(S)
  <2>1. IsFiniteSet(own)
    BY DocumentsAssumption, FS_Subset
  <2> DEFINE m == [k \in own |-> method(k)]
  <2>2. m \in Surjection(own, S)
    BY DEF Surjection
  <2> HIDE DEF own, S, m
  <2> QED
    BY <2>1, <2>2, FS_Surjection
<1>4. doc.methods \in Seq(S) /\ \A i \in DOMAIN doc.methods : doc.methods[i] \in S
  <2> DEFINE n == Cardinality(S)
             q == SetToSeq(S)
  <2>1. ExistsBijection(1..n, S)
    BY <1>3, FS_CardinalityType
  <2>2. \E f \in [1..n -> S] : IsInjective(f)
    BY <2>1 DEF ExistsBijection, Bijection, Injection, IsInjective
  <2>3. q \in [1..n -> S]
    <3> HIDE DEF S
    <3> QED
      BY <2>2 DEF SetToSeq
  <2>4. n \in Nat
    BY <1>3, FS_CardinalityType
  <2> HIDE DEF q, S, n
  <2>5. q \in Seq(S) /\ \A i \in DOMAIN q : q[i] \in S
    BY <2>3, <2>4
  <2> QED
    BY <1>2, <2>5 DEF q
<1>5. \A i \in DOMAIN doc.methods : doc.methods[i].id = kid => doc.methods[i].key = KeyOf[kid]
  <2> HIDE DEF doc
  <2> QED
    BY <1>4
<1>6. HasMethod(doc, kid) /\ KeyFor(doc, kid) = FindMethod(doc, kid).key
  BY DEF KeyFor
<1>7. \E i \in DOMAIN doc.methods : doc.methods[i] = FindMethod(doc, kid) /\ doc.methods[i].id = kid
  <2> HIDE DEF doc, S
  <2> QED
    BY <1>4, <1>6, FirstMethod
<1> QED
  BY <1>5, <1>6, <1>7

-----------------------------------------------------------------------------
(* The invariant                                                           *)

Bits(bits) == \A index \in bits : InRange(index)

StatusTyped ==
  /\ clock \in 0..MaxTime /\ run \in Nat
  /\ issued \subseteq Requests
  /\ list.at \in Nat \cup {None} /\ Bits(list.bits)
  /\ \A s \in signed : s.at \in Nat /\ s.run \in Nat /\ Bits(s.bits)
  /\ \A r \in revocations : r.at \in Nat /\ r.run \in Nat
  /\ held \in signed \cup {None}

\* Nothing is dated in the future or belongs to a later run.
PastInv ==
  /\ list.at # None => list.at <= clock
  /\ \A s \in signed : s.at <= clock /\ s.run <= run
  /\ \A r \in revocations : r.at <= clock /\ r.run <= run

\* The bits of the list are the revocations of this run, and none of them is
\* later than a date that is pinned.
ListInv ==
  /\ \A index : index \in list.bits <=> \E r \in revocations : r.index = index /\ r.run = run
  /\ list.at # None => \A r \in revocations : r.run = run => r.at <= list.at

\* A signed list has the revocations of its run up to its date.
SignedInv ==
  \A s \in signed :
    /\ \A r \in revocations : r.run = s.run /\ r.at < s.at => r.index \in s.bits
    /\ \A index \in s.bits : \E r \in revocations : r.index = index /\ r.run = s.run /\ r.at <= s.at

\* What was accepted was good then, and later steps do not change that.
AcceptedInv ==
  last # None =>
    /\ last.cred \in issued /\ last.list \in signed \cup {None}
    /\ AcceptedKeyWasPublished /\ RevokedBeforeDateIsRefused

Inv == DidInv /\ StatusTyped /\ PastInv /\ ListInv /\ SignedInv /\ AcceptedInv

\* Steps that leave the issuer's list, its signed forms and the clock alone.
LEMMA StatusUntouched ==
  ASSUME Inv, UNCHANGED <<clock, statusVars>>, issued \subseteq issued', issued' \subseteq Requests,
         held' \in signed \cup {None}
  PROVE  (StatusTyped /\ PastInv /\ ListInv /\ SignedInv)'
<1> USE DEF Inv, statusVars
<1>1. StatusTyped'
  BY DEF StatusTyped, Bits
<1>2. PastInv'
  BY DEF PastInv
<1>3. ListInv'
  BY DEF ListInv
<1>4. SignedInv'
  BY DEF SignedInv
<1> QED
  BY <1>1, <1>2, <1>3, <1>4

\* Steps of others keep what the verifier accepted: documents, credentials
\* and lists are only added, and a revocation is dated now.
LEMMA AcceptedStays ==
  ASSUME Inv, UNCHANGED last, since \subseteq since', issued \subseteq issued', signed \subseteq signed',
         \A r \in revocations' : r \in revocations \/ r.at = clock
  PROVE  AcceptedInv'
<1> SUFFICES ASSUME last # None PROVE AcceptedInv'
  BY DEF AcceptedInv
<1>1. last.cred \in issued /\ last.list \in signed \cup {None} /\ AcceptedKeyWasPublished
      /\ RevokedBeforeDateIsRefused
  BY DEF Inv, AcceptedInv
<1>2. AcceptedKeyWasPublished'
  BY <1>1 DEF AcceptedKeyWasPublished
<1>3. RevokedBeforeDateIsRefused'
  <2>1. last.list # None => last.list.at <= clock /\ clock \in Nat /\ last.list.at \in Nat
    BY <1>1, CredentialsAssumption DEF Inv, PastInv, StatusTyped
  <2>2. last.list # None => \A r \in revocations' : r \in revocations \/ r.at >= last.list.at
    BY <2>1
  <2> QED
    BY <1>1, <2>2 DEF RevokedBeforeDateIsRefused
<1> QED
  BY <1>1, <1>2, <1>3 DEF AcceptedInv

\* Steps that do not resolve or publish.
LEMMA DidUntouched ==
  ASSUME DidInv, UNCHANGED didVars
  PROVE  DidInv'
BY DEF DidInv, DidTyped, CacheInv, didVars

\* The issuer publishes a document.
LEMMA PublishKeepsInv ==
  ASSUME Inv, PublishDocument
  PROVE  Inv'
<1>1. PICK did \in Dids : \E raw \in Documents[did] : Publish(did, raw)
  BY DEF PublishDocument
<1>2. PICK raw \in Documents[did] : Publish(did, raw)
  BY <1>1
<1>3. /\ published' = [published EXCEPT ![did] = raw] /\ since' = since \cup KeysIn(did, raw)
      /\ UNCHANGED <<order, cache>>
  BY <1>2 DEF Publish
<1>4. DidTyped'
  BY <1>3 DEF Inv, DidInv, DidTyped
<1>5. CacheInv'
  <2>1. \A d \in Dids : published'[d] = IF d = did THEN raw ELSE published[d]
    BY <1>3 DEF Inv, DidInv, DidTyped
  <2>2. \A d \in Dids : KeysIn(d, published'[d]) \subseteq since'
    BY <1>3, <2>1 DEF Inv, DidInv, CacheInv
  <2>3. \A pair \in since' : pair[1] \in Kids
    BY <1>3, KeysInPairs DEF Inv, DidInv, CacheInv
  <2> QED
    BY <1>3, <2>2, <2>3 DEF Inv, DidInv, CacheInv
<1>6. (StatusTyped /\ PastInv /\ ListInv /\ SignedInv)'
  BY StatusUntouched DEF PublishDocument, Inv, StatusTyped
<1>7. AcceptedInv'
  BY <1>3, AcceptedStays DEF PublishDocument, statusVars
<1> QED
  BY <1>4, <1>5, <1>6, <1>7 DEF Inv, DidInv

\* The steps of the issuer with its status list, and the clock.
LEMMA IssuerKeepsInv ==
  ASSUME Inv, \/ Tick \/ Issue \/ Sign \/ IssuerRestart \/ Load
              \/ \E index \in Indices : RevokeIndex(index)
  PROVE  Inv'
<1> USE CredentialsAssumption
<1>0. DidInv'
  BY DidUntouched DEF Inv, Tick, Issue, Sign, IssuerRestart, Load, RevokeIndex
<1>1. CASE Tick
  <2>1. /\ clock' = clock + 1 /\ clock' \in 0..MaxTime /\ clock \in Nat
        /\ UNCHANGED <<didVars, issued, run, list, signed, revocations, held, last>>
    BY <1>1 DEF Tick, statusVars, Inv, StatusTyped
  <2>2. StatusTyped'
    BY <2>1 DEF Inv, StatusTyped, Bits
  <2>3. PastInv'
    <3>1. \A x \in Nat : x <= clock => x <= clock'
      BY <2>1
    <3> QED
      BY <2>1, <3>1 DEF Inv, PastInv, StatusTyped
  <2>4. ListInv' /\ SignedInv'
    BY <2>1 DEF Inv, ListInv, SignedInv
  <2>5. AcceptedInv'
    BY <2>1, AcceptedStays DEF didVars
  <2> QED
    BY <1>0, <2>2, <2>3, <2>4, <2>5 DEF Inv
<1>2. CASE Issue
  <2>1. (StatusTyped /\ PastInv /\ ListInv /\ SignedInv)'
    BY <1>2, StatusUntouched DEF Issue, Inv, StatusTyped
  <2>2. AcceptedInv'
    BY <1>2, AcceptedStays DEF Issue, statusVars, didVars
  <2> QED
    BY <1>0, <2>1, <2>2 DEF Inv
<1>3. CASE Load
  <2>1. (StatusTyped /\ PastInv /\ ListInv /\ SignedInv)'
    BY <1>3, StatusUntouched DEF Load, Inv, StatusTyped
  <2>2. AcceptedInv'
    BY <1>3, AcceptedStays DEF Load, statusVars, didVars
  <2> QED
    BY <1>0, <2>1, <2>2 DEF Inv
<1>4. CASE Sign
  <2> DEFINE at == IF list.at = None THEN clock ELSE list.at
             s == [bits |-> list.bits, at |-> at, run |-> run]
  <2>1. /\ list' = [list EXCEPT !.at = at] /\ signed' = signed \cup {s}
        /\ UNCHANGED <<didVars, clock, issued, run, revocations, held, last>>
    BY <1>4 DEF Sign
  <2>2. at \in Nat /\ at <= clock /\ clock \in Nat
    BY DEF Inv, StatusTyped, PastInv
  <2>3. \A r \in revocations : r.run = run => r.at <= at
    BY DEF Inv, ListInv, PastInv
  <2>4. list'.bits = list.bits /\ list'.at = at
    BY <2>1 DEF Inv, ListInv
  <2>5. s.bits = list.bits /\ s.at = at /\ s.run = run
    OBVIOUS
  <2> HIDE DEF at, s
  <2>6. StatusTyped'
    BY <2>1, <2>2, <2>4, <2>5 DEF Inv, StatusTyped, Bits
  <2>7. PastInv'
    BY <2>1, <2>2, <2>4, <2>5 DEF Inv, PastInv, StatusTyped
  <2>8. ListInv'
    BY <2>1, <2>3, <2>4 DEF Inv, ListInv
  <2>9. SignedInv'
    <3>1. \A r \in revocations : r.run = run => r.index \in list.bits
      BY DEF Inv, ListInv
    <3>2. \A index \in s.bits : \E r \in revocations : r.index = index /\ r.run = s.run /\ r.at <= s.at
      BY <2>3, <2>5 DEF Inv, ListInv
    <3> QED
      BY <2>1, <2>5, <3>1, <3>2 DEF Inv, SignedInv
  <2>10. AcceptedInv'
    BY <2>1, AcceptedStays DEF didVars
  <2> QED
    BY <1>0, <2>6, <2>7, <2>8, <2>9, <2>10 DEF Inv
<1>5. CASE IssuerRestart
  <2>1. /\ run' = run + 1 /\ run \in Nat /\ list' = [bits |-> {}, at |-> None]
        /\ UNCHANGED <<didVars, clock, issued, signed, revocations, held, last>>
    BY <1>5 DEF IssuerRestart, NewList, Inv, StatusTyped
  <2>2. list'.bits = {} /\ list'.at = None
    BY <2>1
  <2>3. StatusTyped'
    BY <2>1, <2>2 DEF Inv, StatusTyped, Bits
  <2>4. PastInv'
    <3>1. \A x \in Nat : x <= run => x <= run'
      BY <2>1
    <3> QED
      BY <2>1, <2>2, <3>1 DEF Inv, PastInv, StatusTyped
  <2>5. ListInv'
    <3>1. \A r \in revocations : r.run # run'
      BY <2>1 DEF Inv, PastInv, StatusTyped
    <3> QED
      BY <2>1, <2>2, <3>1 DEF ListInv
  <2>6. SignedInv'
    BY <2>1 DEF Inv, SignedInv
  <2>7. AcceptedInv'
    BY <2>1, AcceptedStays DEF didVars
  <2> QED
    BY <1>0, <2>3, <2>4, <2>5, <2>6, <2>7 DEF Inv
<1>6. ASSUME NEW index \in Indices, RevokeIndex(index) PROVE Inv'
  <2> DEFINE r == [index |-> index, run |-> run, at |-> clock]
  <2>1. /\ InRange(index) /\ list' = [bits |-> list.bits \cup {index}, at |-> None]
        /\ revocations' = FirstRevocation(index)
        /\ UNCHANGED <<didVars, clock, issued, run, signed, held, last>>
    BY <1>6 DEF RevokeIndex
  <2>2. list'.bits = list.bits \cup {index} /\ list'.at = None
    BY <2>1
  <2>3. r.index = index /\ r.run = run /\ r.at = clock /\ clock \in Nat /\ run \in Nat
    BY DEF Inv, StatusTyped
  <2>4. \/ /\ revocations' = revocations
           /\ \E q \in revocations : q.index = index /\ q.run = run
        \/ revocations' = revocations \cup {r}
    BY <2>1 DEF FirstRevocation
  <2> HIDE DEF r
  <2>5. StatusTyped'
    BY <2>1, <2>2, <2>3, <2>4 DEF Inv, StatusTyped, Bits
  <2>6. PastInv'
    BY <2>1, <2>2, <2>3, <2>4 DEF Inv, PastInv
  <2>7. ListInv'
    BY <2>1, <2>2, <2>3, <2>4 DEF Inv, ListInv
  <2>8. SignedInv'
    <3>1. \A s \in signed : ~(clock < s.at)
      BY <2>3 DEF Inv, PastInv, StatusTyped
    <3> QED
      BY <2>1, <2>3, <2>4, <3>1 DEF Inv, SignedInv
  <2>9. AcceptedInv'
    BY <2>1, <2>3, <2>4, AcceptedStays DEF didVars
  <2> QED
    BY <1>0, <2>5, <2>6, <2>7, <2>8, <2>9 DEF Inv
<1> QED
  BY <1>1, <1>2, <1>3, <1>4, <1>5, <1>6

\* A process that starts again knows nothing.
LEMMA RestartKeepsInv ==
  ASSUME Inv, VerifierRestart
  PROVE  Inv'
<1>1. /\ order' \in Orders /\ cache' = EmptyCache /\ since' = KeysPublished
      /\ UNCHANGED published /\ held' = None /\ last' = None
      /\ UNCHANGED <<clock, issued, statusVars>>
  BY DEF VerifierRestart, RestartResolver
<1>2. DidTyped'
  BY <1>1 DEF Inv, DidInv, DidTyped, EmptyCache
<1>3. CacheInv'
  <2>1. \A did \in Dids : cache'[did] = NoDoc
    BY <1>1 DEF EmptyCache
  <2>2. \A did \in Dids : KeysIn(did, published'[did]) \subseteq since'
    BY <1>1 DEF KeysPublished
  <2>3. \A pair \in since' : pair[1] \in Kids
    BY <1>1, KeysInPairs DEF KeysPublished
  <2> QED
    BY <2>1, <2>2, <2>3 DEF CacheInv
<1>4. (StatusTyped /\ PastInv /\ ListInv /\ SignedInv)'
  BY <1>1, StatusUntouched DEF Inv, StatusTyped
<1>5. AcceptedInv'
  BY <1>1 DEF AcceptedInv
<1> QED
  BY <1>2, <1>3, <1>4, <1>5 DEF Inv, DidInv

\* What resolve_document returns for did:web and did:sifr, from the cache or
\* the network, was published since the verifier started.
LEMMA DocumentKeys ==
  ASSUME DidInv, NEW did \in Dids, MethodOf[did] \in {"web", "sifr"}, DocumentOf(did).ok
  PROVE  DocumentOf(did).id = did /\ KeysOf(DocumentOf(did)) \subseteq since
<1>1. DocumentOf(did) = IF cache[did] # NoDoc THEN cache[did] ELSE Fetched(did)
  BY DEF DocumentOf
<1>2. CASE cache[did] # NoDoc
  BY <1>1, <1>2 DEF DidInv, CacheInv
<1>3. CASE cache[did] = NoDoc
  BY <1>1, <1>3, FetchedKeys
<1> QED
  BY <1>2, <1>3

\* resolve_document caches only what was published since the verifier
\* started.
LEMMA ResolveKeepsInv ==
  ASSUME DidInv, NEW did \in Dids, ResolveDocument(did)
  PROVE  DidInv'
<1> DEFINE doc == DocumentOf(did)
<1>1. /\ UNCHANGED <<published, order, since>>
      /\ cache' = IF MethodOf[did] \in {"web", "sifr"} /\ doc.ok
                  THEN [cache EXCEPT ![did] = doc] ELSE cache
  BY DEF ResolveDocument
<1>2. CASE MethodOf[did] \in {"web", "sifr"} /\ doc.ok
  <2>1. doc.id = did /\ KeysOf(doc) \subseteq since
    BY <1>2, DocumentKeys
  <2>2. cache' = [cache EXCEPT ![did] = doc]
    BY <1>1, <1>2
  <2> HIDE DEF doc
  <2>3. DidTyped'
    BY <1>1, <2>2 DEF DidInv, DidTyped
  <2>4. \A d \in Dids : cache'[d] = IF d = did THEN doc ELSE cache[d]
    BY <2>2 DEF DidInv, DidTyped
  <2>5. CacheInv'
    <3>1. \A d \in Dids : cache'[d] # NoDoc =>
             cache'[d].ok /\ cache'[d].id = d /\ KeysOf(cache'[d]) \subseteq since
      BY <1>2, <2>1, <2>4 DEF DidInv, CacheInv
    <3> QED
      BY <1>1, <3>1 DEF DidInv, CacheInv
  <2> QED
    BY <2>3, <2>5 DEF DidInv
<1>3. CASE ~(MethodOf[did] \in {"web", "sifr"} /\ doc.ok)
  BY <1>1, <1>3 DEF DidInv, DidTyped, CacheInv
<1> QED
  BY <1>2, <1>3

\* A credential is accepted.
LEMMA AcceptedNow ==
  ASSUME Inv, NEW c \in issued, Verify(c), Verifies(c)
  PROVE  AcceptedInv'
<1>1. /\ last'.cred = c /\ last'.list = held
      /\ UNCHANGED <<clock, issued, statusVars, held>> /\ since' = since
  BY DEF Verify, ResolveDocument
<1>2. /\ c.kid \in Kids /\ c.issuer \in Dids /\ c.key # NoKey
  BY CredentialsAssumption DEF Inv, StatusTyped
<1>3. DidOf[c.kid] = c.issuer /\ KeyFor(DocumentOf(c.issuer), c.kid) = c.key /\ PassesStatus(c)
  BY DEF Verifies, SignedByIssuer, ResolvedKey
<1>4. IF MethodOf[c.issuer] = "key" THEN KeyOf[c.kid] = c.key ELSE <<c.kid, c.key>> \in since
  <2> DEFINE did == c.issuer
  <2>1. DocumentOf(did).ok
    BY <1>2, <1>3 DEF KeyFor
  <2>2. CASE MethodOf[did] = "key"
    <3>1. DocumentOf(did) = DidKeyDocument(did)
      BY <2>2 DEF DocumentOf
    <3> QED
      BY <1>2, <1>3, <2>2, <3>1, DidKeyKeys
  <2>3. CASE MethodOf[did] = "none"
    BY <2>1, <2>3 DEF DocumentOf, Failed
  <2>4. CASE MethodOf[did] \in {"web", "sifr"}
    <3>1. KeysOf(DocumentOf(did)) \subseteq since
      BY <1>2, <2>1, <2>4, DocumentKeys DEF Inv
    <3>2. <<c.kid, c.key>> \in KeysOf(DocumentOf(did))
      BY <1>2, <1>3 DEF KeysOf
    <3> QED
      BY <2>4, <3>1, <3>2
  <2> QED
    BY <1>2, <2>2, <2>3, <2>4, ResolutionAssumption
<1>5. AcceptedKeyWasPublished'
  BY <1>1, <1>3, <1>4 DEF AcceptedKeyWasPublished
<1>6. RevokedBeforeDateIsRefused'
  <2> SUFFICES ASSUME held # None, c.index # NoStatus
               PROVE  /\ InRange(c.index)
                      /\ \A r \in revocations : r.index = c.index /\ r.run = held.run => r.at >= held.at
    BY <1>1 DEF RevokedBeforeDateIsRefused, InRange, statusVars
  <2>1. InRange(c.index) /\ c.index \notin held.bits
    BY <1>3 DEF PassesStatus
  <2>2. held \in signed /\ held.at \in Nat /\ \A r \in revocations : r.at \in Nat
    BY DEF Inv, StatusTyped
  <2>3. \A r \in revocations : r.run = held.run /\ r.at < held.at => r.index \in held.bits
    BY <2>2 DEF Inv, SignedInv
  <2> QED
    BY <2>1, <2>2, <2>3
<1>7. c \in issued' /\ held \in signed' \cup {None}
  BY <1>1 DEF Inv, StatusTyped, statusVars
<1> QED
  BY <1>1, <1>5, <1>6, <1>7 DEF AcceptedInv

\* verify_credential, whatever it decides.
LEMMA VerifyKeepsInv ==
  ASSUME Inv, NEW c \in issued, Verify(c)
  PROVE  Inv'
<1>1. /\ ResolveDocument(DidOf[c.kid]) /\ UNCHANGED <<clock, issued, statusVars, held>>
  BY DEF Verify
<1>2. DidOf[c.kid] \in Dids
  BY CredentialsAssumption, ResolutionAssumption DEF Inv, StatusTyped
<1>3. DidInv'
  BY <1>1, <1>2, ResolveKeepsInv DEF Inv
<1>4. (StatusTyped /\ PastInv /\ ListInv /\ SignedInv)'
  BY <1>1, StatusUntouched DEF Inv, StatusTyped
<1>5. CASE Verifies(c)
  BY <1>3, <1>4, <1>5, AcceptedNow DEF Inv
<1>6. CASE ~Verifies(c)
  <2>1. UNCHANGED last /\ since' = since
    BY <1>6 DEF Verify, ResolveDocument
  <2>2. AcceptedInv'
    BY <1>1, <2>1, AcceptedStays DEF statusVars
  <2> QED
    BY <1>3, <1>4, <2>2 DEF Inv
<1> QED
  BY <1>5, <1>6

\* The invariant holds in every state of every behaviour.
THEOREM InvHolds == Spec => []Inv
<1>1. Init => Inv
  <2> SUFFICES ASSUME Init PROVE Inv
    OBVIOUS
  <2>1. DidInv
    <3>1. \A did \in Dids : KeysIn(did, published[did]) = {}
      BY DEF Init, DidInit, KeysIn
    <3> QED
      BY <3>1 DEF Init, DidInit, EmptyCache, DidInv, DidTyped, CacheInv
  <2>2. StatusTyped /\ PastInv /\ ListInv /\ SignedInv
    BY CredentialsAssumption
    DEF Init, NewList, StatusTyped, Bits, PastInv, ListInv, SignedInv
  <2> QED
    BY <2>1, <2>2 DEF Init, AcceptedInv, Inv
<1>2. Inv /\ [Next]_vars => Inv'
  <2> SUFFICES ASSUME Inv, [Next]_vars PROVE Inv'
    OBVIOUS
  <2>1. CASE UNCHANGED vars
    <3>1. DidInv'
      BY <2>1, DidUntouched DEF vars, Inv
    <3>2. (StatusTyped /\ PastInv /\ ListInv /\ SignedInv)'
      BY <2>1, StatusUntouched DEF vars, Inv, StatusTyped
    <3>3. AcceptedInv'
      BY <2>1, AcceptedStays DEF vars, statusVars, didVars
    <3> QED
      BY <3>1, <3>2, <3>3 DEF Inv
  <2>2. CASE \/ Tick \/ Issue \/ Sign \/ IssuerRestart \/ Load
             \/ \E index \in Indices : RevokeIndex(index)
    BY <2>2, IssuerKeepsInv
  <2>3. CASE PublishDocument
    BY <2>3, PublishKeepsInv
  <2>4. CASE VerifierRestart
    BY <2>4, RestartKeepsInv
  <2>5. CASE \E c \in issued : Verify(c)
    BY <2>5, VerifyKeepsInv
  <2> QED
    BY <2>1, <2>2, <2>3, <2>4, <2>5 DEF Next
<1> QED
  BY <1>1, <1>2, PTL DEF Spec

\* Type correctness of the verifier, its resolver and the issuer.
THEOREM TypeCorrect == Spec => []TypeOK
<1>1. Inv => TypeOK
  <2> SUFFICES ASSUME Inv PROVE TypeOK
    OBVIOUS
  <2>1. DidTypeOK
    BY DEF Inv, DidInv, DidTyped, CacheInv, DidTypeOK
  <2> QED
    BY <2>1 DEF Inv, StatusTyped, Bits, AcceptedInv, TypeOK
<1> QED
  BY <1>1, InvHolds, PTL

\* A credential is accepted only with a key of its issuer that was published
\* since the verifier started, or that the did:key spells.
THEOREM AcceptedKeyWasPublishedHolds == Spec => []AcceptedKeyWasPublished
<1>1. Inv => AcceptedKeyWasPublished
  BY DEF Inv, AcceptedInv, AcceptedKeyWasPublished
<1> QED
  BY <1>1, InvHolds, PTL

\* A signed list has all revocations of its run before its date, and none
\* after it.
THEOREM DateTellsContentHolds == Spec => []DateTellsContent
<1>1. Inv => DateTellsContent
  BY DEF Inv, SignedInv, DateTellsContent
<1> QED
  BY <1>1, InvHolds, PTL

\* verify_credential refuses what its list, by its date, should know.
THEOREM RevokedBeforeDateIsRefusedHolds == Spec => []RevokedBeforeDateIsRefused
<1>1. Inv => RevokedBeforeDateIsRefused
  BY DEF Inv, AcceptedInv, RevokedBeforeDateIsRefused
<1> QED
  BY <1>1, InvHolds, PTL

\* The hash seed of a process does not decide what a document says.
THEOREM SeedIrrelevantHolds == Spec => []SeedIrrelevant
<1>1. Inv => SeedIrrelevant
  <2> SUFFICES ASSUME Inv, NEW did \in Dids, published[did] # NoDoc, SelfContained(published[did]),
                      NEW o1 \in Orders, NEW o2 \in Orders
               PROVE  LET a == Parse(published[did], o1) b == Parse(published[did], o2) IN
                        a.ok = b.ok /\ (a.ok => Meaning(a) = Meaning(b))
    BY DEF SeedIrrelevant
  <2>1. IsRaw(published[did])
    BY ResolutionAssumption DEF Inv, DidInv, DidTyped
  <2> QED
    BY <2>1, OrderIsIrrelevant
<1> QED
  BY <1>1, InvHolds, PTL
=============================================================================
