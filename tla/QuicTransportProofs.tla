------------------------- MODULE QuicTransportProofs ------------------------
(***************************************************************************)
(* Proofs about QuicTransport for any connections, scripts, losses and     *)
(* sizes in which the bytes arrive.                                        *)
(*                                                                         *)
(* The first half is about frames: what is left of a byte stream is a      *)
(* sequence of whole frames at every place where a frame was taken off it, *)
(* whatever the pieces were.  The second half is the invariant that ties   *)
(* the buffers, the wire and the inboxes to what was sent, and the         *)
(* refinement of LocalTransport.                                           *)
(***************************************************************************)
EXTENDS QuicTransport, Integers, SequenceTheorems, WellFoundedInduction, TLAPS

\* A set of numbers that is not empty has a least element.
LEMMA Least ==
  ASSUME NEW T, T \subseteq Nat, T # {}
  PROVE  \E x \in T : \A y \in T : x <= y
<1>1. \E x \in T : \A y \in T : ~(<<y, x>> \in OpToRel(<, Nat))
  BY NatLessThanWellFounded, WFMin, Zenon
<1>2. PICK x \in T : \A y \in T : ~(<<y, x>> \in OpToRel(<, Nat))
  BY <1>1
<1>3. ASSUME NEW y \in T PROVE x <= y
  <2>1. ~(<<y, x>> \in {ss \in Nat \X Nat : ss[1] < ss[2]})
    BY <1>2 DEF OpToRel
  <2> QED
    BY <2>1
<1> QED
  BY <1>3

\* A set that has 0 and, with each number below n, the next one, has all
\* numbers up to n.
LEMMA Upwards ==
  ASSUME NEW n \in Nat, NEW T, 0 \in T, \A j \in 1..n : j - 1 \in T => j \in T
  PROVE  0..n \subseteq T
<1> SUFFICES ASSUME ~(0..n \subseteq T) PROVE FALSE
  OBVIOUS
<1> DEFINE U == (0..n) \ T
<1>1. U \subseteq Nat /\ U # {}
  OBVIOUS
<1>2. PICK x \in U : \A y \in U : x <= y
  BY <1>1, Least
<1>3. x \in 1..n /\ x - 1 \in 0..n /\ ~(x <= x - 1)
  BY <1>2
<1>4. x - 1 \in T
  BY <1>2, <1>3
<1> QED
  BY <1>2, <1>3, <1>4

\* The n steps of a loop over D, and a run of it.
Steps(D, n) == [1..n -> [D -> D]]

IsRun(g, D, n, base, f) ==
  g \in [0..n -> D] /\ g[0] = base /\ \A j \in 1..n : g[j] = f[j][g[j - 1]]

\* A loop whose steps stay in D runs.
LEMMA Iteration ==
  ASSUME NEW n \in Nat, NEW D, NEW base \in D, NEW f \in Steps(D, n)
  PROVE  \E g : IsRun(g, D, n, base, f)
<1> DEFINE T == {k \in 0..n : \E g : IsRun(g, D, k, base, f)}
<1>1. 0 \in T
  <2> DEFINE g == [x \in 0..0 |-> base]
  <2>1. IsRun(g, D, 0, base, f) /\ 0 \in 0..n
    BY DEF IsRun
  <2> HIDE DEF g
  <2> QED
    BY <2>1
<1>2. ASSUME NEW k \in 1..n, k - 1 \in T PROVE k \in T
  <2>1. PICK h : IsRun(h, D, k - 1, base, f)
    BY <1>2
  <2>2. f[k] \in [D -> D] /\ h[k - 1] \in D
    BY <2>1 DEF Steps, IsRun
  <2> DEFINE g == [x \in 0..k |-> IF x = k THEN f[k][h[k - 1]] ELSE h[x]]
  <2>3. g \in [0..k -> D] /\ g[k] = f[k][h[k - 1]] /\ \A x \in 0..(k - 1) : g[x] = h[x]
    BY <2>1, <2>2 DEF IsRun
  <2> HIDE DEF g
  <2>4. ASSUME NEW j \in 1..k PROVE g[j] = f[j][g[j - 1]]
    <3>1. CASE j = k
      BY <2>3, <3>1
    <3>2. CASE j # k
      <4>1. j \in 1..(k - 1) /\ j \in 0..(k - 1) /\ j - 1 \in 0..(k - 1)
        BY <3>2
      <4> QED
        BY <2>1, <2>3, <4>1 DEF IsRun
    <3> QED
      BY <3>1, <3>2
  <2>5. g[0] = base /\ k \in 0..n
    BY <2>1, <2>3 DEF IsRun
  <2>6. IsRun(g, D, k, base, f)
    BY <2>3, <2>4, <2>5 DEF IsRun
  <2> QED
    BY <2>5, <2>6
<1> HIDE DEF T
<1>3. 0..n \subseteq T
  BY <1>1, <1>2, Upwards
<1>4. n \in T
  BY <1>3
<1> QED
  BY <1>4 DEF T

-----------------------------------------------------------------------------
(* Frames                                                                  *)

Bytes == Seq(Nat)

\* What int.from_bytes reads is what to_bytes wrote.
LEMMA HeaderLength ==
  ASSUME NEW n \in Nat
  PROVE  Header(n) \in Seq(Nat) /\ Len(Header(n)) = 4 /\ Length(Header(n)) = n
<1> DEFINE a == n \div 256
           b == n \div 65536
           c == n \div 16777216
<1>1. a \in Nat /\ n % 256 \in Nat /\ n = 256 * a + (n % 256)
  BY Z3
<1>2. b \in Nat /\ a % 256 \in Nat /\ a = 256 * b + (a % 256)
  BY Z3
<1>3. c \in Nat /\ b % 256 \in Nat /\ b = 256 * c + (b % 256)
  BY Z3
<1>4. Header(n) = <<c, b % 256, a % 256, n % 256>>
  BY SMT DEF Header
<1> HIDE DEF a, b, c
<1> QED
  BY <1>1, <1>2, <1>3, <1>4, Z3 DEF Length

\* The bodies that can be sent.
Body == {b \in Bytes : FitsHeader(Len(b))}

\* Behind the first x bytes of w there is the frame of b.
FrameAt(w, x, b) ==
  /\ x + 4 + Len(b) <= Len(w)
  /\ \A k \in 1..4 : w[x + k] = Header(Len(b))[k]
  /\ \A k \in 1..Len(b) : w[x + 4 + k] = b[k]

\* w is the frames of the messages of m behind the p-th: cut has the places
\* where they end.
Cuts(w, m, p, cut) ==
  /\ cut \in [p..Len(m) -> Nat] /\ cut[p] = 0 /\ cut[Len(m)] = Len(w)
  /\ \A i \in (p + 1)..Len(m) :
       cut[i] = cut[i - 1] + 4 + Len(m[i]) /\ FrameAt(w, cut[i - 1], m[i])

IsStream(w, m, p) == p \in 0..Len(m) /\ \E cut : Cuts(w, m, p, cut)

\* No bytes are the frames of no messages.
LEMMA EmptyStream ==
  ASSUME NEW m \in Seq(Body)
  PROVE  IsStream(<<>>, m, Len(m))
<1> DEFINE cut == [i \in Len(m)..Len(m) |-> 0]
<1>1. Len(m) \in Nat
  OBVIOUS
<1>2. Cuts(<<>>, m, Len(m), cut)
  BY <1>1 DEF Cuts
<1> QED
  BY <1>1, <1>2 DEF IsStream

\* A frame that is found at another place of another string.
LEMMA FrameMoves ==
  ASSUME NEW w, NEW x \in Nat, NEW v, NEW y \in Nat, NEW b, Len(b) \in Nat, FrameAt(w, x, b),
         y + 4 + Len(b) <= Len(v), \A k \in 1..(4 + Len(b)) : v[y + k] = w[x + k]
  PROVE  FrameAt(v, y, b)
<1>1. \A k \in 1..Len(b) : 4 + k \in 1..(4 + Len(b)) /\ y + 4 + k = y + (4 + k) /\ x + 4 + k = x + (4 + k)
  OBVIOUS
<1>2. \A k \in 1..Len(b) : v[y + 4 + k] = b[k]
  BY <1>1 DEF FrameAt
<1>3. \A k \in 1..4 : k \in 1..(4 + Len(b))
  OBVIOUS
<1>4. \A k \in 1..4 : v[y + k] = Header(Len(b))[k]
  BY <1>3 DEF FrameAt
<1> QED
  BY <1>2, <1>4 DEF FrameAt

\* The bytes of a frame: its length in four of them, then the body.
LEMMA FrameFacts ==
  ASSUME NEW b \in Body
  PROVE  /\ Frame(b) \in Bytes /\ Len(Frame(b)) = 4 + Len(b) /\ Len(b) \in Nat
         /\ \A k \in 1..4 : Frame(b)[k] = Header(Len(b))[k]
         /\ \A k \in 1..Len(b) : Frame(b)[4 + k] = b[k]
<1> DEFINE h == Header(Len(b))
<1>1. b \in Seq(Nat) /\ Len(b) \in Nat
  BY DEF Body, Bytes
<1>2. h \in Seq(Nat) /\ Len(h) = 4
  BY <1>1, HeaderLength
<1> HIDE DEF h
<1>3. /\ h \o b \in Seq(Nat) /\ Len(h \o b) = 4 + Len(b)
      /\ \A i \in 1..(4 + Len(b)) : (h \o b)[i] = IF i <= 4 THEN h[i] ELSE b[i - 4]
  <2>1. /\ h \o b \in Seq(Nat) /\ Len(h \o b) = Len(h) + Len(b)
        /\ \A i \in 1..(Len(h) + Len(b)) : (h \o b)[i] = IF i <= Len(h) THEN h[i] ELSE b[i - Len(h)]
    BY <1>1, <1>2, ConcatProperties, Zenon
  <2> QED
    BY <1>2, <2>1
<1>4. Frame(b) = h \o b
  BY DEF Frame, h
<1>5. \A k \in 1..Len(b) : 4 + k \in 1..(4 + Len(b)) /\ ~(4 + k <= 4) /\ (4 + k) - 4 = k
  BY <1>1
<1>6. \A i \in 1..4 : i \in 1..(4 + Len(b)) /\ i <= 4
  BY <1>1
<1>7. \A k \in 1..4 : (h \o b)[k] = h[k]
  BY <1>3, <1>6
<1>8. \A k \in 1..Len(b) : (h \o b)[4 + k] = b[k]
  BY <1>3, <1>5
<1>9. \A k \in 1..4 : Frame(b)[k] = Header(Len(b))[k]
  BY <1>4, <1>7 DEF h
<1> QED
  BY <1>1, <1>3, <1>4, <1>8, <1>9 DEF Bytes

\* A message is sent: its frame is put behind the others.
LEMMA StreamGrows ==
  ASSUME NEW w \in Bytes, NEW m \in Seq(Body), NEW b \in Body, NEW p, IsStream(w, m, p)
  PROVE  IsStream(w \o Frame(b), Append(m, b), p)
<1> DEFINE v == w \o Frame(b)
           q == Append(m, b)
           n == Len(m)
<1>1. PICK cut : Cuts(w, m, p, cut)
  BY DEF IsStream
<1>2. /\ p \in 0..n /\ n \in Nat /\ cut \in [p..n -> Nat] /\ cut[p] = 0 /\ cut[n] = Len(w)
      /\ \A i \in (p + 1)..n : cut[i] = cut[i - 1] + 4 + Len(m[i]) /\ FrameAt(w, cut[i - 1], m[i])
  BY <1>1 DEF Cuts, IsStream
<1>3. /\ q \in Seq(Body) /\ Len(q) = n + 1 /\ q[n + 1] = b /\ \A i \in 1..n : q[i] = m[i]
  OBVIOUS
<1>4. /\ v \in Bytes /\ Len(v) = Len(w) + Len(Frame(b)) /\ Len(w) \in Nat
      /\ \A i \in 1..(Len(w) + Len(Frame(b))) : v[i] = IF i <= Len(w) THEN w[i] ELSE Frame(b)[i - Len(w)]
  <2>1. w \in Seq(Nat) /\ Frame(b) \in Seq(Nat)
    BY FrameFacts DEF Bytes
  <2> QED
    BY <2>1, ConcatProperties DEF Bytes
<1> DEFINE new == [i \in p..(n + 1) |-> IF i = n + 1 THEN Len(w) + 4 + Len(b) ELSE cut[i]]
<1>5. /\ new \in [p..(n + 1) -> Nat] /\ new[n + 1] = Len(w) + 4 + Len(b)
      /\ \A i \in p..n : new[i] = cut[i]
  BY <1>2, <1>4, FrameFacts
<1>0. Len(Frame(b)) = 4 + Len(b) /\ Len(b) \in Nat
  BY FrameFacts
<1> HIDE DEF v, q, n, new
<1>6. ASSUME NEW i \in (p + 1)..n
      PROVE  new[i] = new[i - 1] + 4 + Len(q[i]) /\ FrameAt(v, new[i - 1], q[i])
  <2>1. i \in 1..n /\ i \in p..n /\ i - 1 \in p..n /\ cut[i - 1] \in Nat
    BY <1>2
  <2>2. q[i] = m[i] /\ m[i] \in Body /\ Len(m[i]) \in Nat
    BY <1>3, <2>1, SMTT(30) DEF n, Body, Bytes
  <2>3. FrameAt(w, cut[i - 1], m[i]) /\ cut[i] = cut[i - 1] + 4 + Len(m[i])
    BY <1>2
  <2> DEFINE c == cut[i - 1]
             l == Len(m[i])
  <2>4. c + 4 + l <= Len(w) /\ c \in Nat /\ l \in Nat
    BY <2>1, <2>2, <2>3 DEF FrameAt
  <2>5. FrameAt(w, c, m[i]) /\ l = Len(m[i])
    BY <2>3
  <2> HIDE DEF c, l
  <2>6. \A k \in 1..(4 + l) : v[c + k] = w[c + k]
    <3> TAKE k \in 1..(4 + l)
    <3>1. c + k \in 1..(Len(w) + Len(Frame(b))) /\ c + k <= Len(w)
      BY <1>0, <1>4, <2>4
    <3> QED
      BY <1>4, <3>1
  <2>7. FrameAt(v, c, m[i])
    <3>1. c + 4 + Len(m[i]) <= Len(v) /\ Len(m[i]) \in Nat /\ c \in Nat
      <4>1. \A x, y, z \in Nat : x <= y => x <= y + 4 + z
        OBVIOUS
      <4>2. Len(v) = Len(w) + 4 + Len(b) /\ Len(w) \in Nat /\ c + 4 + l \in Nat
        BY <1>0, <1>4, <2>4
      <4>3. c + 4 + l <= Len(v)
        BY <1>0, <2>4, <4>1, <4>2
      <4> QED
        BY <2>4, <2>5, <4>3, Zenon
    <3>2. \A k \in 1..(4 + Len(m[i])) : v[c + k] = w[c + k]
      BY <2>5, <2>6
    <3> QED
      BY <2>5, <3>1, <3>2, FrameMoves
  <2> QED
    BY <1>5, <2>1, <2>2, <2>3, <2>7 DEF c
<1>7. new[n + 1] = new[n] + 4 + Len(q[n + 1]) /\ FrameAt(v, new[n], q[n + 1])
  <2>1. new[n] = Len(w) /\ q[n + 1] = b /\ Len(b) \in Nat
    BY <1>2, <1>3, <1>5, FrameFacts, SMTT(30)
  <2>2. \A k \in 1..(4 + Len(b)) : v[Len(w) + k] = Frame(b)[k]
    <3> TAKE k \in 1..(4 + Len(b))
    <3>1. Len(w) + k \in 1..(Len(w) + Len(Frame(b))) /\ ~(Len(w) + k <= Len(w)) /\ (Len(w) + k) - Len(w) = k
      BY <1>4, <2>1, FrameFacts
    <3> QED
      BY <1>4, <3>1
  <2>3. FrameAt(v, Len(w), b)
    <3>1. \A k \in 1..Len(b) : 4 + k \in 1..(4 + Len(b)) /\ Len(w) + 4 + k = Len(w) + (4 + k)
      BY <1>4, <2>1
    <3>2. \A k \in 1..4 : k \in 1..(4 + Len(b))
      BY <2>1
    <3>3. Len(w) + 4 + Len(b) <= Len(v)
      BY <1>4, <2>1, FrameFacts
    <3>4. \A k \in 1..Len(b) : v[Len(w) + 4 + k] = b[k]
      BY <2>2, <3>1, FrameFacts
    <3>5. \A k \in 1..4 : v[Len(w) + k] = Header(Len(b))[k]
      BY <2>2, <3>2, FrameFacts
    <3> QED
      BY <3>3, <3>4, <3>5 DEF FrameAt
  <2> QED
    BY <1>5, <2>1, <2>3
<1>8. \A i \in (p + 1)..(n + 1) : i \in (p + 1)..n \/ (i = n + 1 /\ i - 1 = n)
  BY <1>2
<1>9. Cuts(v, q, p, new)
  <2>1. new[p] = 0 /\ new[n + 1] = Len(v)
    BY <1>0, <1>2, <1>4, <1>5
  <2> QED
    BY <1>3, <1>5, <1>6, <1>7, <1>8, <2>1 DEF Cuts
<1> QED
  BY <1>2, <1>3, <1>9 DEF IsStream, v, q

\* A complete frame at the front of the bytes at hand is the next message, and
\* what is behind it is the stream from there.
LEMMA FirstFrame ==
  ASSUME NEW a \in Bytes, NEW z \in Bytes, NEW m \in Seq(Body), NEW p,
         IsStream(a \o z, m, p), Complete(a)
  PROVE  /\ p + 1 \in 1..Len(m) /\ FirstBody(a) = m[p + 1]
         /\ AfterFirst(a) \in Bytes /\ Len(AfterFirst(a)) + 4 <= Len(a)
         /\ IsStream(AfterFirst(a) \o z, m, p + 1)
<1> DEFINE w == a \o z
           n == Len(m)
           rest == AfterFirst(a)
           v == rest \o z
<1>1. PICK cut : Cuts(w, m, p, cut)
  BY DEF IsStream
<1>2. /\ p \in 0..n /\ n \in Nat /\ cut \in [p..n -> Nat] /\ cut[p] = 0 /\ cut[n] = Len(w)
      /\ \A i \in (p + 1)..n : cut[i] = cut[i - 1] + 4 + Len(m[i]) /\ FrameAt(w, cut[i - 1], m[i])
  BY <1>1 DEF Cuts, IsStream
<1>3. /\ w \in Bytes /\ Len(w) = Len(a) + Len(z) /\ Len(a) \in Nat /\ Len(z) \in Nat
      /\ \A i \in 1..(Len(a) + Len(z)) : w[i] = IF i <= Len(a) THEN a[i] ELSE z[i - Len(a)]
  BY ConcatProperties DEF Bytes
<1>4. Len(a) >= 4 /\ Len(a) >= 4 + Length(a)
  BY DEF Complete
<1> HIDE DEF w, n
<1>5. p + 1 \in 1..n /\ p + 1 \in (p + 1)..n
  <2>1. p # n
    BY <1>2, <1>3, <1>4
  <2> QED
    BY <1>2, <2>1
<1> DEFINE b == m[p + 1]
           L == Len(b)
<1>6. b \in Body /\ b \in Seq(Nat) /\ L \in Nat
  BY <1>5 DEF n, Body, Bytes
<1>7. cut[p + 1] = 4 + L /\ FrameAt(w, 0, b)
  <2>1. (p + 1) - 1 = p
    BY <1>2
  <2> QED
    BY <1>2, <1>5, <1>6, <2>1
<1> HIDE DEF L, b
<1>8. Length(a) = L
  <2>1. \A k \in 1..4 : a[k] = Header(L)[k]
    <3>1. \A k \in 1..4 : w[k] = Header(L)[k]
      BY <1>7 DEF FrameAt, L
    <3>2. \A k \in 1..4 : w[k] = a[k]
      BY <1>3, <1>4
    <3> QED
      BY <3>1, <3>2
  <2>2. Length(a) = Length(Header(L))
    BY <2>1 DEF Length
  <2> QED
    BY <1>6, <2>2, HeaderLength
<1>9. FirstBody(a) = b
  <2>1. /\ FirstBody(a) \in Seq(Nat) /\ Len(FirstBody(a)) = L
        /\ \A k \in 1..L : FirstBody(a)[k] = a[4 + k]
    <3>1. \A i \in 5..(4 + L) : a[i] \in Nat
      <4>1. \A i \in 5..(4 + L) : i \in 1..Len(a)
        BY <1>3, <1>4, <1>6, <1>8
      <4> QED
        BY <4>1 DEF Bytes
    <3>2. /\ SubSeq(a, 5, 4 + L) \in Seq(Nat)
          /\ Len(SubSeq(a, 5, 4 + L)) = IF 5 <= 4 + L THEN (4 + L) - 5 + 1 ELSE 0
          /\ \A k \in 1..((4 + L) - 5 + 1) : SubSeq(a, 5, 4 + L)[k] = a[5 + k - 1]
      <4>1. 5 \in Int /\ 4 + L \in Int
        BY <1>6
      <4> QED
        BY <3>1, <4>1, SubSeqProperties
    <3>3. (4 + L) - 5 + 1 = L /\ (L # 0 => 5 <= 4 + L) /\ \A k \in 1..L : 5 + k - 1 = 4 + k
      BY <1>6
    <3> QED
      BY <1>6, <1>8, <3>2, <3>3 DEF FirstBody
  <2>2. \A k \in 1..L : w[4 + k] = b[k] /\ w[4 + k] = a[4 + k]
    <3> TAKE k \in 1..L
    <3>1. 4 + k \in 1..(Len(a) + Len(z)) /\ 4 + k <= Len(a) /\ 0 + 4 + k = 4 + k
      BY <1>3, <1>4, <1>6, <1>8
    <3> QED
      BY <1>3, <1>7, <3>1 DEF FrameAt, L
  <2> QED
    BY <1>6, <2>1, <2>2, SeqEqual DEF L
<1>10. /\ rest \in Seq(Nat) /\ Len(rest) = Len(a) - (4 + L)
       /\ \A k \in 1..Len(rest) : rest[k] = a[k + 4 + L]
  <2>1. \A i \in (5 + L)..Len(a) : a[i] \in Nat
    <3>1. \A i \in (5 + L)..Len(a) : i \in 1..Len(a)
      BY <1>3, <1>6
    <3> QED
      BY <3>1 DEF Bytes
  <2>2. /\ SubSeq(a, 5 + L, Len(a)) \in Seq(Nat)
        /\ Len(SubSeq(a, 5 + L, Len(a))) = IF 5 + L <= Len(a) THEN Len(a) - (5 + L) + 1 ELSE 0
        /\ \A k \in 1..(Len(a) - (5 + L) + 1) : SubSeq(a, 5 + L, Len(a))[k] = a[5 + L + k - 1]
    <3>1. 5 + L \in Int /\ Len(a) \in Int
      BY <1>3, <1>6
    <3> QED
      BY <2>1, <3>1, SubSeqProperties
  <2>3. Len(a) - (5 + L) + 1 = Len(a) - (4 + L) /\ (~(5 + L <= Len(a)) => Len(a) - (4 + L) = 0)
        /\ \A k \in 1..(Len(a) - (4 + L)) : 5 + L + k - 1 = k + 4 + L
    BY <1>3, <1>4, <1>6, <1>8
  <2>4. rest = SubSeq(a, 5 + L, Len(a))
    BY <1>8 DEF AfterFirst
  <2> HIDE DEF rest
  <2> QED
    BY <2>2, <2>3, <2>4
<1> HIDE DEF rest
<1>11. /\ v \in Bytes /\ Len(v) = Len(w) - (4 + L)
       /\ \A x \in 1..Len(v) : v[x] = w[x + 4 + L]
  <2>1. /\ v \in Seq(Nat) /\ Len(v) = Len(rest) + Len(z)
        /\ \A i \in 1..(Len(rest) + Len(z)) : v[i] = IF i <= Len(rest) THEN rest[i] ELSE z[i - Len(rest)]
    BY <1>10, ConcatProperties DEF Bytes
  <2> HIDE DEF v
  <2>2. ASSUME NEW x \in 1..Len(v) PROVE v[x] = w[x + 4 + L]
    <3>1. x + 4 + L \in 1..(Len(a) + Len(z)) /\ (x <= Len(rest) <=> x + 4 + L <= Len(a))
          /\ (x + 4 + L) - Len(a) = x - Len(rest) /\ x \in 1..(Len(rest) + Len(z))
      BY <1>3, <1>4, <1>6, <1>8, <1>10, <2>1
    <3>2. x <= Len(rest) => x \in 1..Len(rest)
      BY <1>10
    <3> QED
      BY <1>3, <1>10, <2>1, <3>1, <3>2
  <2> QED
    BY <1>3, <1>6, <1>10, <2>1, <2>2 DEF Bytes
<1> HIDE DEF v
<1>12. \A i \in (p + 1)..n : cut[i] \in Nat /\ cut[i] >= 4 + L
  <2> DEFINE U == {j \in 0..(n - (p + 1)) : cut[p + 1 + j] >= 4 + L}
  <2>1. n - (p + 1) \in Nat /\ \A j \in 0..(n - (p + 1)) : p + 1 + j \in p..n /\ cut[p + 1 + j] \in Nat
    BY <1>2, <1>5
  <2>2. 0 \in U
    BY <1>2, <1>6, <1>7, <2>1
  <2>3. ASSUME NEW j \in 1..(n - (p + 1)), j - 1 \in U PROVE j \in U
    <3>1. p + 1 + j \in (p + 1)..n /\ (p + 1 + j) - 1 = p + 1 + (j - 1) /\ j \in 0..(n - (p + 1))
          /\ p + 1 + j \in 1..n /\ j - 1 \in 0..(n - (p + 1))
      BY <1>2, <1>5
    <3>2. Len(m[p + 1 + j]) \in Nat
      BY <3>1 DEF n, Body, Bytes
    <3>3. cut[p + 1 + j] = cut[p + 1 + (j - 1)] + 4 + Len(m[p + 1 + j])
      BY <1>2, <3>1
    <3>4. cut[p + 1 + (j - 1)] >= 4 + L /\ cut[p + 1 + (j - 1)] \in Nat
      BY <2>1, <2>3, <3>1
    <3> QED
      BY <1>6, <3>1, <3>2, <3>3, <3>4, SMTT(30)
  <2> HIDE DEF U
  <2>4. 0..(n - (p + 1)) \subseteq U
    BY <2>1, <2>2, <2>3, Upwards
  <2> TAKE i \in (p + 1)..n
  <2>5. i - (p + 1) \in 0..(n - (p + 1)) /\ p + 1 + (i - (p + 1)) = i
    BY <1>2, <1>5
  <2> QED
    BY <2>1, <2>4, <2>5 DEF U
<1> DEFINE new == [i \in (p + 1)..n |-> cut[i] - (4 + L)]
<1>13. new \in [(p + 1)..n -> Nat] /\ \A i \in (p + 1)..n : new[i] = cut[i] - (4 + L)
  BY <1>6, <1>12
<1> HIDE DEF new
<1>14. ASSUME NEW i \in (p + 2)..n
       PROVE  new[i] = new[i - 1] + 4 + Len(m[i]) /\ FrameAt(v, new[i - 1], m[i])
  <2>1. /\ i \in (p + 1)..n /\ i - 1 \in (p + 1)..n /\ i \in 1..n
    BY <1>2
  <2>2. Len(m[i]) \in Nat
    BY <2>1 DEF n, Body, Bytes
  <2>3. cut[i] = cut[i - 1] + 4 + Len(m[i]) /\ FrameAt(w, cut[i - 1], m[i])
    BY <1>2, <2>1
  <2> DEFINE c == cut[i - 1]
             d == new[i - 1]
             l == Len(m[i])
  <2>4. d = c - (4 + L) /\ c \in Nat /\ d \in Nat /\ l \in Nat
    BY <1>12, <1>13, <2>1, <2>2
  <2>5. c + 4 + l <= Len(w) /\ FrameAt(w, c, m[i]) /\ l = Len(m[i])
    BY <2>3 DEF FrameAt
  <2>6. new[i] = (c + 4 + l) - (4 + L)
    BY <1>13, <2>1, <2>3
  <2> HIDE DEF c, d, l
  <2>7. d + 4 + l <= Len(v) /\ Len(v) \in Nat
    <3>1. Len(v) = Len(w) - (4 + L) /\ Len(w) \in Nat /\ c + 4 + l <= Len(w)
      BY <1>3, <1>11, <2>5
    <3>2. Len(v) \in Nat
      BY <1>11 DEF Bytes
    <3> QED
      BY <1>6, <2>4, <3>1, <3>2
  <2>8. \A k \in 1..(4 + l) : v[d + k] = w[c + k]
    <3> TAKE k \in 1..(4 + l)
    <3>1. d + k \in 1..Len(v) /\ (d + k) + 4 + L = c + k
      BY <1>6, <2>4, <2>7
    <3> QED
      BY <1>11, <3>1
  <2>9. FrameAt(v, d, m[i])
    <3>1. d + 4 + Len(m[i]) <= Len(v) /\ Len(m[i]) \in Nat
      BY <2>4, <2>5, <2>7
    <3>2. \A k \in 1..(4 + Len(m[i])) : v[d + k] = w[c + k]
      BY <2>5, <2>8
    <3>3. FrameAt(w, c, m[i]) /\ c \in Nat /\ d \in Nat
      BY <2>4, <2>5
    <3> QED
      BY <3>1, <3>2, <3>3, FrameMoves, Zenon
  <2>10. new[i] = d + 4 + l
    BY <1>6, <2>4, <2>6
  <2> QED
    BY <2>9, <2>10 DEF d, l
<1>15. Cuts(v, m, p + 1, new)
  <2>1. new[p + 1] = 0 /\ new[n] = Len(v)
    BY <1>2, <1>3, <1>5, <1>6, <1>7, <1>11, <1>13
  <2>2. p + 1 + 1 = p + 2
    BY <1>2
  <2> QED
    BY <1>13, <1>14, <2>1, <2>2 DEF Cuts, n
<1>16. IsStream(v, m, p + 1)
  <2>1. p + 1 \in 0..Len(m)
    BY <1>2, <1>5 DEF n
  <2> QED
    BY <1>15, <2>1 DEF IsStream
<1>17. Len(rest) + 4 <= Len(a) /\ rest \in Bytes
  BY <1>3, <1>4, <1>6, <1>8, <1>10 DEF Bytes
<1> QED
  BY <1>5, <1>9, <1>16, <1>17 DEF n, v, rest, b

\* What the loop has made of the bytes so far.
Got == [bodies : Seq(Bytes), rest : Bytes]

\* One round of the loop takes the first frame off, or nothing.
LEMMA RoundType ==
  ASSUME NEW got \in Got
  PROVE  /\ Round(got) \in Got
         /\ Complete(got.rest) =>
              Round(got).bodies = Append(got.bodies, FirstBody(got.rest)) /\ Round(got).rest = AfterFirst(got.rest)
         /\ ~Complete(got.rest) => Round(got) = got
<1> DEFINE a == got.rest
           L == Length(a)
<1>1. a \in Seq(Nat) /\ Len(a) \in Nat /\ got.bodies \in Seq(Bytes)
  BY DEF Got, Bytes
<1> HIDE DEF a
<1>2. ASSUME Complete(a)
      PROVE  FirstBody(a) \in Bytes /\ AfterFirst(a) \in Bytes
  <2>1. Len(a) >= 4 /\ Len(a) >= 4 + L
    BY <1>2 DEF Complete
  <2>2. L \in Nat
    <3>1. a[1] \in Nat /\ a[2] \in Nat /\ a[3] \in Nat /\ a[4] \in Nat
      BY <1>1, <2>1
    <3> QED
      BY <3>1 DEF Length
  <2> HIDE DEF L
  <2>3. \A i \in 5..(4 + L) : a[i] \in Nat
    <3>1. \A i \in 5..(4 + L) : i \in 1..Len(a)
      BY <1>1, <2>1, <2>2
    <3> QED
      BY <1>1, <3>1
  <2>4. \A i \in (5 + L)..Len(a) : a[i] \in Nat
    <3>1. \A i \in (5 + L)..Len(a) : i \in 1..Len(a)
      BY <1>1, <2>1, <2>2
    <3> QED
      BY <1>1, <3>1
  <2>5. 4 + L \in Int /\ 5 + L \in Int /\ Len(a) \in Int
    BY <1>1, <2>2
  <2>6. SubSeq(a, 5, 4 + L) \in Seq(Nat) /\ SubSeq(a, 5 + L, Len(a)) \in Seq(Nat)
    BY <2>3, <2>4, <2>5, SubSeqProperties
  <2> QED
    BY <2>6 DEF FirstBody, AfterFirst, Bytes, L
<1>3. CASE Complete(a)
  <2> DEFINE r == [bodies |-> Append(got.bodies, FirstBody(a)), rest |-> AfterFirst(a)]
  <2>1. Round(got) = r
    BY <1>3 DEF Round, a
  <2>2. Append(got.bodies, FirstBody(a)) \in Seq(Bytes)
    BY <1>1, <1>2, <1>3
  <2>3. r \in Got
    BY <1>2, <1>3, <2>2 DEF Got
  <2> QED
    BY <1>3, <2>1, <2>3 DEF a
<1>4. CASE ~Complete(a)
  BY <1>4 DEF Round, a
<1> QED
  BY <1>3, <1>4 DEF a

\* The rounds of the loop.
LEMMA UnframeUnfolds ==
  ASSUME NEW a \in Bytes
  PROVE  /\ Len(a) \div 4 \in Nat /\ 4 * (Len(a) \div 4) + 4 > Len(a)
         /\ \E after \in [0..(Len(a) \div 4) -> Got] :
              /\ after[0] = Unread(a) /\ after[Len(a) \div 4] = Unframe(a)
              /\ \A i \in 1..(Len(a) \div 4) : after[i] = Round(after[i - 1])
<1> DEFINE n == Len(a) \div 4
           body(g) == [i \in 0..n |-> IF i = 0 THEN Unread(a) ELSE Round(g[i - 1])]
           f == [i \in 1..n |-> [d \in Got |-> Round(d)]]
           after == CHOOSE g : g = body(g)
<1>1. n \in Nat /\ 4 * n + 4 > Len(a)
  <2>1. Len(a) \in Nat
    BY DEF Bytes
  <2> QED
    BY <2>1
<1>2. Unframe(a) = after[n]
  BY DEF Unframe
<1> HIDE DEF n, after
<1>3. f \in Steps(Got, n) /\ \A d \in Got, i \in 1..n : f[i][d] = Round(d)
  BY RoundType DEF Steps
<1> HIDE DEF f
<1>0. Unread(a) \in Got
  BY DEF Unread, Got
<1>4. PICK g \in [0..n -> Got] : g[0] = Unread(a) /\ \A i \in 1..n : g[i] = f[i][g[i - 1]]
  <2>1. \E g : IsRun(g, Got, n, Unread(a), f)
    BY <1>0, <1>1, <1>3, Iteration
  <2> QED
    BY <2>1 DEF IsRun
<1>5. g = body(g)
  <2>1. ASSUME NEW i \in 0..n PROVE g[i] = IF i = 0 THEN Unread(a) ELSE Round(g[i - 1])
    <3>1. CASE i = 0
      BY <1>4, <3>1
    <3>2. CASE i # 0
      <4>1. i \in 1..n /\ i - 1 \in 0..n /\ g[i - 1] \in Got
        BY <1>1, <3>2
      <4> QED
        BY <1>3, <1>4, <3>2, <4>1
    <3> QED
      BY <3>1, <3>2
  <2> QED
    BY <2>1
<1>6. after = body(after)
  <2> HIDE DEF body
  <2>1. \E h : h = body(h)
    BY <1>5
  <2> QED
    BY <2>1 DEF after
<1>7. \A i \in 0..n : after[i] = IF i = 0 THEN Unread(a) ELSE Round(after[i - 1])
  BY <1>6
<1> DEFINE T == {i \in 0..n : after[i] = g[i]}
<1>8. 0 \in T
  BY <1>1, <1>4, <1>7
<1>9. ASSUME NEW i \in 1..n, i - 1 \in T PROVE i \in T
  <2>1. i \in 0..n /\ i # 0 /\ i - 1 \in 0..n /\ g[i - 1] \in Got
    BY <1>1
  <2> QED
    BY <1>3, <1>4, <1>7, <1>9, <2>1
<1> HIDE DEF T
<1>10. 0..n \subseteq T
  BY <1>1, <1>8, <1>9, Upwards
<1>11. n \in 0..n /\ after[n] = g[n]
  BY <1>1, <1>10 DEF T
<1>12. \A i \in 1..n : g[i] = Round(g[i - 1])
  <2> TAKE i \in 1..n
  <2>1. i - 1 \in 0..n /\ g[i - 1] \in Got
    BY <1>1
  <2> QED
    BY <1>3, <1>4, <2>1
<1> QED
  BY <1>1, <1>2, <1>4, <1>11, <1>12 DEF n

\* What the loop took off the stream are the next messages, in turn.
Taken(got, z, m, p) ==
  /\ p + Len(got.bodies) \in 0..Len(m)
  /\ \A i \in 1..Len(got.bodies) : got.bodies[i] = m[p + i]
  /\ IsStream(got.rest \o z, m, p + Len(got.bodies))

\* The loop of quic_event_received takes all complete frames off the stream.
LEMMA Unframes ==
  ASSUME NEW a \in Bytes, NEW z \in Bytes, NEW m \in Seq(Body), NEW p, IsStream(a \o z, m, p)
  PROVE  /\ Unframe(a) \in Got /\ Taken(Unframe(a), z, m, p) /\ ~Complete(Unframe(a).rest)
<1> DEFINE n == Len(a) \div 4
<1>1. /\ n \in Nat /\ 4 * n + 4 > Len(a) /\ Len(a) \in Nat
      /\ \E after \in [0..n -> Got] :
           /\ after[0] = Unread(a) /\ after[n] = Unframe(a)
           /\ \A i \in 1..n : after[i] = Round(after[i - 1])
  <2>1. Len(a) \in Nat
    BY DEF Bytes
  <2> QED
    BY <2>1, UnframeUnfolds
<1> HIDE DEF n
<1>2. PICK after \in [0..n -> Got] :
        /\ after[0] = Unread(a) /\ after[n] = Unframe(a)
        /\ \A i \in 1..n : after[i] = Round(after[i - 1])
  BY <1>1
<1>3. p \in Nat /\ p \in 0..Len(m)
  BY DEF IsStream
<1> DEFINE T == {i \in 0..n : /\ Taken(after[i], z, m, p)
                              /\ Complete(after[i].rest) => Len(after[i].rest) + 4 * i <= Len(a)}
<1>4. 0 \in T
  <2>1. after[0].bodies = <<>> /\ after[0].rest = a
    BY <1>2 DEF Unread
  <2>2. Taken(after[0], z, m, p)
    BY <1>3, <2>1 DEF Taken
  <2>3. Len(after[0].rest) + 4 * 0 <= Len(a)
    BY <1>1, <2>1
  <2> QED
    BY <1>1, <2>2, <2>3
<1>5. ASSUME NEW i \in 1..n, i - 1 \in T PROVE i \in T
  <2> DEFINE old == after[i - 1]
             new == after[i]
             k == Len(old.bodies)
  <2>1. i \in 0..n /\ i - 1 \in 0..n /\ old \in Got /\ new = Round(old)
    BY <1>1, <1>2
  <2>2. Taken(old, z, m, p) /\ (Complete(old.rest) => Len(old.rest) + 4 * (i - 1) <= Len(a))
    BY <1>5
  <2>3. old.bodies \in Seq(Bytes) /\ old.rest \in Bytes /\ k \in Nat
    BY <2>1 DEF Got
  <2> HIDE DEF old, new, k
  <2>4. CASE Complete(old.rest)
    <3>1. new.bodies = Append(old.bodies, FirstBody(old.rest)) /\ new.rest = AfterFirst(old.rest)
      BY <2>1, <2>4, RoundType
    <3>2. /\ p + k + 1 \in 1..Len(m) /\ FirstBody(old.rest) = m[p + k + 1]
          /\ Len(new.rest) + 4 <= Len(old.rest) /\ new.rest \in Bytes
          /\ IsStream(new.rest \o z, m, p + k + 1)
      <4>1. IsStream(old.rest \o z, m, p + k)
        BY <2>2 DEF Taken, k
      <4> QED
        BY <2>3, <2>4, <3>1, <4>1, FirstFrame
    <3>3. Len(new.bodies) = k + 1 /\ \A j \in 1..(k + 1) : new.bodies[j] = m[p + j]
      <4>1. FirstBody(old.rest) \in Bytes
        <5>1. m[p + k + 1] \in Body
          BY <3>2
        <5> QED
          BY <3>2, <5>1 DEF Body
      <4>2. /\ Len(new.bodies) = k + 1 /\ new.bodies[k + 1] = FirstBody(old.rest)
            /\ \A j \in 1..k : new.bodies[j] = old.bodies[j]
        BY <2>3, <3>1, <4>1, AppendProperties DEF k
      <4>3. \A j \in 1..k : old.bodies[j] = m[p + j]
        BY <2>2 DEF Taken, k
      <4>4. \A j \in 1..(k + 1) : j \in 1..k \/ j = k + 1
        BY <2>3
      <4>5. p + k + 1 = p + (k + 1)
        BY <1>3, <2>3
      <4> QED
        BY <3>2, <4>2, <4>3, <4>4, <4>5
    <3>4. Taken(new, z, m, p)
      <4>1. p + (k + 1) = p + k + 1 /\ p + k + 1 \in 0..Len(m)
        BY <1>3, <2>3, <3>2
      <4> QED
        BY <3>2, <3>3, <4>1 DEF Taken
    <3>5. Len(new.rest) + 4 * i <= Len(a)
      <4>1. Len(new.rest) \in Nat /\ Len(old.rest) \in Nat
        BY <2>3, <3>2 DEF Bytes
      <4>2. Len(new.rest) + 4 <= Len(old.rest) /\ Len(old.rest) + 4 * (i - 1) <= Len(a)
        BY <2>2, <2>4, <3>2
      <4>3. \A x, y, t \in Nat : x + 4 <= y /\ y + 4 * (i - 1) <= t => x + 4 * i <= t
        BY <1>1
      <4> QED
        BY <1>1, <4>1, <4>2, <4>3
    <3> QED
      BY <2>1, <3>4, <3>5 DEF new
  <2>5. CASE ~Complete(old.rest)
    <3>1. new = old
      BY <2>1, <2>5, RoundType
    <3> QED
      BY <2>1, <2>2, <2>5, <3>1 DEF new
  <2> QED
    BY <2>4, <2>5
<1> HIDE DEF T
<1>6. 0..n \subseteq T
  BY <1>1, <1>4, <1>5, Upwards
<1>7. n \in T /\ after[n] \in Got
  BY <1>1, <1>2, <1>6
<1>8. Taken(after[n], z, m, p) /\ (Complete(after[n].rest) => Len(after[n].rest) + 4 * n <= Len(a))
  BY <1>7 DEF T
<1>9. ~Complete(after[n].rest)
  <2> SUFFICES ASSUME Complete(after[n].rest) PROVE FALSE
    OBVIOUS
  <2>1. Len(after[n].rest) >= 4 /\ Len(after[n].rest) \in Nat
    BY <1>7 DEF Complete, Got, Bytes
  <2>2. Len(after[n].rest) + 4 * n <= Len(a)
    BY <1>8
  <2>3. \A x, t \in Nat : x >= 4 /\ x + 4 * n <= t => ~(4 * n + 4 > t)
    BY <1>1
  <2> QED
    BY <1>1, <2>1, <2>2, <2>3
<1> QED
  BY <1>2, <1>7, <1>8, <1>9

-----------------------------------------------------------------------------
(* An inbox and its stream                                                 *)

\* One direction of a connection: of the messages m the first d have been
\* received, the next ones are in the inbox q, and w is the stream of the
\* rest.  None is the last thing in an inbox, once the connection is over;
\* from then on nothing is taken off the stream.
Fits(m, d, q, w, over) ==
  /\ d <= Len(m)
  /\ \A i \in 1..Len(q) : q[i] # <<>> => d + i <= Len(m) /\ q[i] = <<m[d + i]>>
  /\ \A i \in 1..Len(q) : q[i] = <<>> => i = Len(q) /\ over
  /\ ~over => IsStream(w, m, d + Len(q))

\* send adds a message, and its frame.
LEMMA FitsSend ==
  ASSUME NEW m \in Seq(Body), NEW d \in Nat, NEW q \in Seq(Seq(Bytes)), NEW w \in Bytes,
         NEW over, Fits(m, d, q, w, over), NEW b \in Body
  PROVE  Fits(Append(m, b), d, q, w \o Frame(b), over)
<1> DEFINE n == Append(m, b)
<1>1. Len(m) \in Nat /\ Len(n) = Len(m) + 1 /\ \A i \in 1..Len(m) : n[i] = m[i]
  OBVIOUS
<1>2. ~over => IsStream(w \o Frame(b), n, d + Len(q))
  BY StreamGrows DEF Fits
<1> HIDE DEF n
<1>3. \A i \in 1..Len(q) : q[i] # <<>> => d + i <= Len(n) /\ q[i] = <<n[d + i]>>
  <2> SUFFICES ASSUME NEW i \in 1..Len(q), q[i] # <<>>
               PROVE  d + i <= Len(n) /\ q[i] = <<n[d + i]>>
    OBVIOUS
  <2>1. d + i <= Len(m) /\ q[i] = <<m[d + i]>>
    BY DEF Fits
  <2>2. d + i \in 1..Len(m) /\ d + i <= Len(n)
    BY <1>1, <2>1
  <2> QED
    BY <1>1, <2>1, <2>2
<1>4. d <= Len(n)
  BY <1>1 DEF Fits
<1> QED
  BY <1>2, <1>3, <1>4 DEF Fits, n

\* More of the stream is read, in whatever piece.
LEMMA FitsDeliver ==
  ASSUME NEW m \in Seq(Body), NEW d \in Nat, NEW q \in Seq(Seq(Bytes)),
         NEW a \in Bytes, NEW z \in Bytes, Fits(m, d, q, a \o z, FALSE)
  PROVE  LET got == Unframe(a)
             r == q \o [i \in DOMAIN got.bodies |-> <<got.bodies[i]>>]
         IN  /\ got \in Got /\ ~Complete(got.rest) /\ r \in Seq(Seq(Bytes))
             /\ Fits(m, d, r, got.rest \o z, FALSE)
<1> DEFINE got == Unframe(a)
           k == Len(got.bodies)
           e == [i \in DOMAIN got.bodies |-> <<got.bodies[i]>>]
           r == q \o e
           p == d + Len(q)
<1>1. IsStream(a \o z, m, p)
  BY DEF Fits
<1> HIDE DEF p
<1>2. got \in Got /\ ~Complete(got.rest) /\ Taken(got, z, m, p)
  BY <1>1, Unframes
<1> HIDE DEF got
<1>3. got.bodies \in Seq(Bytes) /\ k \in Nat /\ Len(q) \in Nat /\ p = d + Len(q)
  BY <1>2 DEF Got, p
<1>4. e \in Seq(Seq(Bytes)) /\ Len(e) = k /\ \A i \in 1..k : e[i] = <<got.bodies[i]>>
  <2>1. DOMAIN got.bodies = 1..k
    BY <1>3
  <2>2. \A i \in 1..k : <<got.bodies[i]>> \in Seq(Bytes)
    BY <1>3
  <2>3. e = [i \in 1..k |-> <<got.bodies[i]>>]
    BY <2>1
  <2> HIDE DEF e, k
  <2> QED
    BY <1>3, <2>2, <2>3
<1> HIDE DEF e, k
<1>5. /\ r \in Seq(Seq(Bytes)) /\ Len(r) = Len(q) + k
      /\ \A i \in 1..(Len(q) + k) : r[i] = IF i <= Len(q) THEN q[i] ELSE e[i - Len(q)]
  BY <1>4, ConcatProperties
<1> HIDE DEF r
<1>6. p + k <= Len(m) /\ (\A i \in 1..k : got.bodies[i] = m[p + i]) /\ IsStream(got.rest \o z, m, p + k)
  BY <1>2 DEF Taken, k
<1>7. ASSUME NEW i \in 1..Len(r) PROVE r[i] # <<>> /\ d + i <= Len(m) /\ r[i] = <<m[d + i]>>
  <2>1. CASE i <= Len(q)
    <3>1. i \in 1..Len(q) /\ r[i] = q[i]
      BY <1>3, <1>5, <2>1
    <3> QED
      BY <3>1 DEF Fits
  <2>2. CASE ~(i <= Len(q))
    <3> DEFINE j == i - Len(q)
    <3>1. j \in 1..k /\ d + i = p + j /\ r[i] = e[j]
      BY <1>3, <1>5, <2>2
    <3> HIDE DEF j
    <3>2. e[j] = <<m[p + j]>>
      BY <1>4, <1>6, <3>1
    <3>3. p + j <= Len(m)
      BY <1>3, <1>6, <3>1
    <3> QED
      BY <3>1, <3>2, <3>3
  <2> QED
    BY <2>1, <2>2
<1>8. d + Len(r) = p + k
  BY <1>3, <1>5
<1>9. Fits(m, d, r, got.rest \o z, FALSE)
  BY <1>6, <1>7, <1>8 DEF Fits
<1> QED
  BY <1>2, <1>5, <1>9 DEF got, r, e

\* ConnectionTerminated puts None behind the frames.
LEMMA FitsEnd ==
  ASSUME NEW m, NEW d \in Nat, NEW q \in Seq(Seq(Bytes)), NEW w, Fits(m, d, q, w, FALSE)
  PROVE  Fits(m, d, Append(q, <<>>), w, TRUE)
<1> DEFINE r == Append(q, <<>>)
<1>1. Len(q) \in Nat /\ Len(r) = Len(q) + 1 /\ r[Len(q) + 1] = <<>> /\ \A i \in 1..Len(q) : r[i] = q[i]
  OBVIOUS
<1> HIDE DEF r
<1>2. \A i \in 1..Len(r) : i \in 1..Len(q) \/ i = Len(r)
  BY <1>1
<1> QED
  BY <1>1, <1>2 DEF Fits, r

\* recv returns the next message.
LEMMA FitsRecv ==
  ASSUME NEW m \in Seq(Body), NEW d \in Nat, NEW q \in Seq(Seq(Bytes)), NEW w, NEW over \in BOOLEAN,
         Fits(m, d, q, w, over), q # <<>>, Head(q) # <<>>
  PROVE  /\ d + 1 \in 1..Len(m) /\ Head(q)[1] = m[d + 1]
         /\ Tail(q) \in Seq(Seq(Bytes)) /\ Fits(m, d + 1, Tail(q), w, over)
<1> DEFINE r == Tail(q)
<1>1. /\ Len(q) \in Nat \ {0} /\ Head(q) = q[1]
      /\ r \in Seq(Seq(Bytes)) /\ Len(r) = Len(q) - 1 /\ \A i \in 1..Len(r) : r[i] = q[i + 1]
  BY HeadTailProperties, EmptySeq
<1> HIDE DEF r
<1>2. d + 1 <= Len(m) /\ q[1] = <<m[d + 1]>>
  BY <1>1 DEF Fits
<1>3. Len(m) \in Nat
  OBVIOUS
<1>4. \A i \in 1..Len(r) : /\ i + 1 \in 1..Len(q) /\ d + (i + 1) = d + 1 + i
                           /\ i + 1 = Len(q) => i = Len(r)
  BY <1>1
<1>5. d + 1 + Len(r) = d + Len(q)
  BY <1>1
<1>6. Fits(m, d + 1, r, w, over)
  <2>1. \A i \in 1..Len(r) : r[i] # <<>> => d + 1 + i <= Len(m) /\ r[i] = <<m[d + 1 + i]>>
    BY <1>1, <1>4, ZenonT(60) DEF Fits
  <2>2. \A i \in 1..Len(r) : r[i] = <<>> => i = Len(r) /\ over
    BY <1>1, <1>4, ZenonT(60) DEF Fits
  <2> QED
    BY <1>2, <1>5, <2>1, <2>2 DEF Fits
<1> QED
  BY <1>1, <1>2, <1>3, <1>6 DEF r

\* recv raises, and takes None out of the inbox.
LEMMA FitsRaise ==
  ASSUME NEW m, NEW d \in Nat, NEW q \in Seq(Seq(Bytes)), NEW w, NEW over \in BOOLEAN,
         Fits(m, d, q, w, over), q # <<>>, Head(q) = <<>>
  PROVE  Tail(q) \in Seq(Seq(Bytes)) /\ Fits(m, d, Tail(q), w, over)
<1>1. /\ Len(q) \in Nat \ {0} /\ Head(q) = q[1]
      /\ Tail(q) \in Seq(Seq(Bytes)) /\ Len(Tail(q)) = Len(q) - 1
  BY HeadTailProperties, EmptySeq
<1>2. 1 = Len(q) /\ over
  <2>1. 1 \in 1..Len(q) /\ q[1] = <<>>
    BY <1>1
  <2> QED
    BY <2>1 DEF Fits
<1>3. Len(Tail(q)) = 0
  <2>1. 1 = Len(q) /\ Len(Tail(q)) = Len(q) - 1
    BY <1>1, <1>2
  <2> QED
    BY <2>1
<1>4. \A i \in 1..Len(Tail(q)) : FALSE
  <2>1. \A i \in 1..0 : FALSE
    OBVIOUS
  <2> QED
    BY <1>3, <2>1, Zenon
<1> QED
  BY <1>1, <1>2, <1>4 DEF Fits

-----------------------------------------------------------------------------
(* The invariant                                                           *)

Each(S) == [Conns -> [Sides -> S]]

NetTyped ==
  /\ wire \in Each(Bytes) /\ buffer \in Each(Bytes)
  /\ inbox \in Each(Seq(Seq(Bytes)))
  /\ sent \in Each(Seq(Body)) /\ received \in Each(Seq(Bytes))
  /\ ended \in [Conns -> SUBSET Sides]

\* In each direction of a connection the stream and the inbox fit what was
\* sent.
StreamInv ==
  \A c \in Conns, s \in Sides :
    /\ Fits(sent[c][Peer(s)], Len(received[c][s]), inbox[c][s], buffer[c][s] \o wire[c][s], s \in ended[c])
    /\ ~Complete(buffer[c][s])

NetInv == NetTyped /\ StreamInv

AppInv ==
  /\ app \in Each({"off", "on", "done", "failed"})
  /\ closed \in [Conns -> SUBSET {"client", "lost"}]
  /\ \A c \in Conns : Len(sent[c].client) <= Len(Script[c])

AcceptInv ==
  /\ handshake \in [Conns -> {"none", "made", "client", "done"}]
  /\ arrivals \in Seq(Conns) /\ newClients \in Seq(Conns) /\ IsSuffix(newClients, arrivals)
  /\ waiting \in Conns \cup {NoConn} /\ served \subseteq Conns

Inv == NetInv /\ AppInv /\ AcceptInv

\* The two ends of a connection.
LEMMA PeerFacts ==
  /\ Peer("client") = "server" /\ Peer("server") = "client"
  /\ \A s \in Sides : Peer(s) \in Sides /\ Peer(s) # s /\ Peer(Peer(s)) = s
BY DEF Peer, Sides

\* A table with an entry for each end of each connection.
LEMMA EachFacts ==
  ASSUME NEW S, NEW f \in Each(S), NEW c \in Conns, NEW s \in Sides
  PROVE  f[c][s] \in S
BY DEF Each

\* The end of a sequence, position by position.
LEMMA SuffixFacts ==
  ASSUME NEW S, NEW s \in Seq(S), NEW t \in Seq(S)
  PROVE  IsSuffix(s, t) <=>
           Len(s) <= Len(t) /\ \A i \in 1..Len(s) : s[i] = t[Len(t) - Len(s) + i]
<1> DEFINE a == Reverse(s)
           b == Reverse(t)
           n == Len(s)
           k == Len(t)
<1>1. /\ n \in Nat /\ a \in Seq(S) /\ Len(a) = n /\ \A i \in 1..n : a[i] = s[n - i + 1]
  <2>1. a = [i \in 1..n |-> s[n - i + 1]] /\ n \in Nat
    BY DEF Reverse
  <2>2. \A i \in 1..n : s[n - i + 1] \in S
    BY <2>1
  <2> HIDE DEF a
  <2> QED
    BY <2>1, <2>2
<1>2. /\ k \in Nat /\ b \in Seq(S) /\ Len(b) = k /\ \A i \in 1..k : b[i] = t[k - i + 1]
  <2>1. b = [i \in 1..k |-> t[k - i + 1]] /\ k \in Nat
    BY DEF Reverse
  <2>2. \A i \in 1..k : t[k - i + 1] \in S
    BY <2>1
  <2> HIDE DEF b
  <2> QED
    BY <2>1, <2>2
<1> HIDE DEF a, b
<1>3. IsSuffix(s, t) <=> Len(a) <= Len(b) /\ SubSeq(a, 1, Len(a)) = SubSeq(b, 1, Len(a))
  BY DEF IsSuffix, IsPrefix, a, b
<1>4. SubSeq(a, 1, n) = a
  BY <1>1, SubSeqFull
<1>5. CASE ~(n <= k)
  BY <1>1, <1>2, <1>3, <1>5
<1>6. CASE n <= k
  <2> DEFINE p == SubSeq(b, 1, n)
  <2>1. p \in Seq(S) /\ Len(p) = n /\ \A i \in 1..n : p[i] = b[i]
    BY <1>1, <1>2, <1>6
  <2> HIDE DEF p
  <2>2. a = p <=> \A i \in 1..n : a[i] = p[i]
    BY <1>1, <2>1, SeqEqual
  <2>3. (\A i \in 1..n : a[i] = p[i]) <=> \A i \in 1..n : s[n - i + 1] = t[k - i + 1]
    <3>1. \A i \in 1..n : i \in 1..k
      BY <1>1, <1>2, <1>6
    <3>2. \A i \in 1..n : a[i] = s[n - i + 1] /\ p[i] = t[k - i + 1]
      BY <1>1, <1>2, <2>1, <3>1
    <3> QED
      BY <3>2
  <2>4. (\A i \in 1..n : s[n - i + 1] = t[k - i + 1]) <=> \A i \in 1..n : s[i] = t[k - n + i]
    <3>1. ASSUME \A i \in 1..n : s[n - i + 1] = t[k - i + 1], NEW i \in 1..n PROVE s[i] = t[k - n + i]
      <4>1. n - i + 1 \in 1..n /\ n - (n - i + 1) + 1 = i /\ k - (n - i + 1) + 1 = k - n + i
        BY <1>1, <1>2
      <4> QED
        BY <3>1, <4>1
    <3>2. ASSUME \A i \in 1..n : s[i] = t[k - n + i], NEW i \in 1..n PROVE s[n - i + 1] = t[k - i + 1]
      <4>1. n - i + 1 \in 1..n /\ k - n + (n - i + 1) = k - i + 1
        BY <1>1, <1>2
      <4> QED
        BY <3>2, <4>1
    <3> QED
      BY <3>1, <3>2
  <2> QED
    BY <1>1, <1>2, <1>3, <1>4, <1>6, <2>2, <2>3, <2>4 DEF p
<1> QED
  BY <1>5, <1>6

\* Steps that leave the network alone keep its invariant.
LEMMA NetUntouched ==
  ASSUME NetInv, UNCHANGED <<wire, buffer, inbox, ended, sent, received>>
  PROVE  NetInv'
BY DEF NetInv, NetTyped, StreamInv

\* send: the other direction is not touched.
LEMMA SendKeepsNet ==
  ASSUME NetInv, NEW c \in Conns, NEW s \in Sides, NEW b \in Body, Send(c, s, b),
         UNCHANGED <<buffer, inbox, ended, received>>
  PROVE  NetInv'
<1> DEFINE m == sent[c][s]
           w == wire[c][Peer(s)]
<1>1. m \in Seq(Body) /\ w \in Bytes /\ Peer(s) \in Sides /\ Peer(Peer(s)) = s
  BY PeerFacts, EachFacts DEF NetInv, NetTyped
<1>2. Append(m, b) \in Seq(Body) /\ w \o Frame(b) \in Bytes
  <2>1. w \in Seq(Nat) /\ Frame(b) \in Seq(Nat)
    BY <1>1, FrameFacts DEF Bytes
  <2> QED
    BY <1>1, <2>1, ConcatProperties DEF Bytes
<1>3. sent' = [sent EXCEPT ![c][s] = Append(m, b)] /\ wire' = [wire EXCEPT ![c][Peer(s)] = w \o Frame(b)]
  BY DEF Send
<1>4. /\ sent' \in Each(Seq(Body)) /\ wire' \in Each(Bytes)
      /\ \A x \in Conns, t \in Sides :
           /\ sent'[x][t] = IF x = c /\ t = s THEN Append(m, b) ELSE sent[x][t]
           /\ wire'[x][t] = IF x = c /\ t = Peer(s) THEN w \o Frame(b) ELSE wire[x][t]
  <2>1. sent \in Each(Seq(Body)) /\ wire \in Each(Bytes)
    BY DEF NetInv, NetTyped
  <2> HIDE DEF m, w
  <2>2. /\ sent' \in Each(Seq(Body))
        /\ \A x \in Conns, t \in Sides : sent'[x][t] = IF x = c /\ t = s THEN Append(m, b) ELSE sent[x][t]
    <3> DEFINE v == Append(m, b)
    <3>1. v \in Seq(Body) /\ sent' = [sent EXCEPT ![c][s] = v]
      BY <1>2, <1>3
    <3> HIDE DEF v
    <3>2. sent' \in Each(Seq(Body)) /\ \A x \in Conns, t \in Sides :
             sent'[x][t] = IF x = c /\ t = s THEN v ELSE sent[x][t]
      BY <2>1, <3>1 DEF Each
    <3> QED
      BY <3>2 DEF v
  <2>3. /\ wire' \in Each(Bytes)
        /\ \A x \in Conns, t \in Sides :
             wire'[x][t] = IF x = c /\ t = Peer(s) THEN w \o Frame(b) ELSE wire[x][t]
    <3> DEFINE v == w \o Frame(b)
    <3>1. v \in Bytes /\ wire' = [wire EXCEPT ![c][Peer(s)] = v]
      BY <1>2, <1>3
    <3> HIDE DEF v
    <3>2. wire' \in Each(Bytes) /\ \A x \in Conns, t \in Sides :
             wire'[x][t] = IF x = c /\ t = Peer(s) THEN v ELSE wire[x][t]
      BY <1>1, <2>1, <3>1 DEF Each
    <3> QED
      BY <3>2 DEF v
  <2> QED
    BY <2>2, <2>3
<1>5. NetTyped'
  BY <1>4 DEF NetInv, NetTyped
<1>6. ASSUME NEW x \in Conns, NEW t \in Sides
      PROVE  /\ Fits(sent'[x][Peer(t)], Len(received[x][t]), inbox[x][t], buffer[x][t] \o wire'[x][t], t \in ended[x])
             /\ ~Complete(buffer[x][t])
  <2>0. /\ Fits(sent[x][Peer(t)], Len(received[x][t]), inbox[x][t], buffer[x][t] \o wire[x][t], t \in ended[x])
        /\ ~Complete(buffer[x][t])
    BY DEF NetInv, StreamInv
  <2>1. CASE x = c /\ t = Peer(s)
    <3> DEFINE a == buffer[x][t]
    <3>1. a \in Seq(Nat) /\ w \in Seq(Nat) /\ Frame(b) \in Seq(Nat)
      BY <1>1, FrameFacts, EachFacts DEF NetInv, NetTyped, Bytes
    <3>2. a \o (w \o Frame(b)) = (a \o w) \o Frame(b) /\ a \o w \in Bytes
      <4> HIDE DEF a, w
      <4>1. a \o (w \o Frame(b)) = (a \o w) \o Frame(b)
        BY <3>1, ConcatAssociative, SMTT(30)
      <4>2. a \o w \in Seq(Nat)
        BY <3>1, ConcatProperties
      <4> QED
        BY <4>1, <4>2 DEF Bytes
    <3>3. Len(received[x][t]) \in Nat /\ inbox[x][t] \in Seq(Seq(Bytes))
      <4>1. received[x][t] \in Seq(Bytes) /\ inbox[x][t] \in Seq(Seq(Bytes))
        BY EachFacts DEF NetInv, NetTyped
      <4> QED
        BY <4>1
    <3>4. Fits(m, Len(received[x][t]), inbox[x][t], a \o w, t \in ended[x])
      BY <1>1, <2>0, <2>1
    <3>5. Fits(Append(m, b), Len(received[x][t]), inbox[x][t], (a \o w) \o Frame(b), t \in ended[x])
      <4>1. (t \in ended[x]) \in BOOLEAN
        OBVIOUS
      <4> HIDE DEF a, m, w
      <4> QED
        BY <1>1, <3>2, <3>3, <3>4, <4>1, FitsSend
    <3>6. sent'[x][Peer(t)] = Append(m, b) /\ wire'[x][t] = w \o Frame(b)
      BY <1>1, <1>4, <2>1
    <3> HIDE DEF m, w, a
    <3> QED
      BY <2>0, <3>2, <3>5, <3>6 DEF a
  <2>2. CASE ~(x = c /\ t = Peer(s))
    <3>1. Peer(t) \in Sides /\ (Peer(t) = s => t = Peer(s))
      BY PeerFacts
    <3>2. sent'[x][Peer(t)] = sent[x][Peer(t)] /\ wire'[x][t] = wire[x][t]
      BY <1>4, <2>2, <3>1
    <3> QED
      BY <2>0, <3>2
  <2> QED
    BY <2>1, <2>2
<1> QED
  BY <1>5, <1>6 DEF NetInv, StreamInv

\* What one direction has, apart from what was sent.
Here(c, s) == <<wire[c][s], buffer[c][s], inbox[c][s], received[c][s], s \in ended[c]>>

\* A step at one end of one direction.
LEMMA OneDirection ==
  ASSUME NetInv, NEW c \in Conns, NEW s \in Sides, NetTyped', sent' = sent,
         \A x \in Conns, t \in Sides : (x # c \/ t # s) => Here(x, t)' = Here(x, t),
         Fits(sent[c][Peer(s)], Len(received'[c][s]), inbox'[c][s], buffer'[c][s] \o wire'[c][s], s \in ended'[c]),
         ~Complete(buffer'[c][s])
  PROVE  NetInv'
<1>1. ASSUME NEW x \in Conns, NEW t \in Sides
      PROVE  /\ Fits(sent'[x][Peer(t)], Len(received'[x][t]), inbox'[x][t], buffer'[x][t] \o wire'[x][t],
                     t \in ended'[x])
             /\ ~Complete(buffer'[x][t])
  <2>1. CASE x = c /\ t = s
    BY <2>1
  <2>2. CASE x # c \/ t # s
    <3>1. /\ wire'[x][t] = wire[x][t] /\ buffer'[x][t] = buffer[x][t] /\ inbox'[x][t] = inbox[x][t]
          /\ received'[x][t] = received[x][t] /\ (t \in ended'[x]) = (t \in ended[x])
      BY <2>2 DEF Here
    <3>2. /\ Fits(sent[x][Peer(t)], Len(received[x][t]), inbox[x][t], buffer[x][t] \o wire[x][t], t \in ended[x])
          /\ ~Complete(buffer[x][t])
      BY DEF NetInv, StreamInv
    <3> QED
      BY <3>1, <3>2
  <2> QED
    BY <2>1, <2>2
<1> QED
  BY <1>1 DEF NetInv, StreamInv

\* What the invariant says of one end of one connection.
LEMMA HereFacts ==
  ASSUME NetInv, NEW c \in Conns, NEW s \in Sides
  PROVE  /\ wire[c][s] \in Bytes /\ buffer[c][s] \in Bytes /\ inbox[c][s] \in Seq(Seq(Bytes))
         /\ received[c][s] \in Seq(Bytes) /\ Len(received[c][s]) \in Nat
         /\ sent[c][s] \in Seq(Body) /\ sent[c][Peer(s)] \in Seq(Body) /\ (s \in ended[c]) \in BOOLEAN
         /\ Fits(sent[c][Peer(s)], Len(received[c][s]), inbox[c][s], buffer[c][s] \o wire[c][s], s \in ended[c])
         /\ ~Complete(buffer[c][s])
<1>1. /\ wire[c][s] \in Bytes /\ buffer[c][s] \in Bytes /\ inbox[c][s] \in Seq(Seq(Bytes))
      /\ received[c][s] \in Seq(Bytes) /\ sent[c][s] \in Seq(Body) /\ sent[c][Peer(s)] \in Seq(Body)
  BY PeerFacts, EachFacts DEF NetInv, NetTyped
<1>2. Len(received[c][s]) \in Nat
  BY <1>1
<1> QED
  BY <1>1, <1>2 DEF NetInv, StreamInv

\* The bytes of the buffer, those that arrive and those that stay on the wire.
LEMMA Regroup ==
  ASSUME NEW x \in Seq(Nat), NEW y \in Seq(Nat), NEW z \in Seq(Nat)
  PROVE  y \o (x \o z) = (y \o x) \o z /\ y \o x \in Seq(Nat)
<1>1. y \o (x \o z) = (y \o x) \o z
  BY ConcatAssociative, SMTT(30)
<1>2. y \o x \in Seq(Nat)
  BY ConcatProperties
<1> QED
  BY <1>1, <1>2

\* Bytes arrive: the whole frames become messages, the rest stays in the
\* buffer.
LEMMA DeliverKeepsNet ==
  ASSUME NetInv, NEW c \in Conns, NEW s \in Sides, Deliver(c, s)
  PROVE  NetInv'
<1> DEFINE w == wire[c][s]
<1>1. PICK n \in {k \in Chunks : k <= Len(w)} \cup {Len(w)} :
        LET got == Unframe(buffer[c][s] \o SubSeq(w, 1, n))
        IN  /\ wire' = [wire EXCEPT ![c][s] = SubSeq(@, n + 1, Len(@))]
            /\ buffer' = [buffer EXCEPT ![c][s] = got.rest]
            /\ inbox' = [inbox EXCEPT ![c][s] = @ \o [i \in DOMAIN got.bodies |-> <<got.bodies[i]>>]]
  BY DEF Deliver
<1> DEFINE a == buffer[c][s] \o SubSeq(w, 1, n)
           z == SubSeq(w, n + 1, Len(w))
           got == Unframe(a)
           q == inbox[c][s] \o [i \in DOMAIN got.bodies |-> <<got.bodies[i]>>]
           rest == got.rest
<1>2. /\ wire' = [wire EXCEPT ![c][s] = z] /\ buffer' = [buffer EXCEPT ![c][s] = rest]
      /\ inbox' = [inbox EXCEPT ![c][s] = q]
  BY <1>1
<1>3. s \notin ended[c] /\ UNCHANGED <<ended, sent, received>>
  BY DEF Deliver, appVars
<1>4. /\ w \in Seq(Nat) /\ buffer[c][s] \in Seq(Nat) /\ Len(w) \in Nat /\ n \in 0..Len(w)
  <2>1. w \in Seq(Nat) /\ buffer[c][s] \in Seq(Nat) /\ Len(w) \in Nat
    BY HereFacts DEF Bytes
  <2>2. n \in Nat /\ n <= Len(w)
    <3>1. Chunks \subseteq Nat
      BY QuicAssumption
    <3> QED
      BY <2>1, <3>1
  <2> QED
    BY <2>1, <2>2
<1>5. /\ SubSeq(w, 1, n) \in Seq(Nat) /\ z \in Seq(Nat) /\ SubSeq(w, 1, n) \o z = w
  <2> HIDE DEF w
  <2>1. SubSeq(w, 1, n) \in Seq(Nat) /\ z \in Seq(Nat)
    BY <1>4
  <2>2. SubSeq(w, 1, n) \o z = SubSeq(w, 1, Len(w))
    <3>1. 1 \in 1..(Len(w) + 1) /\ n \in (1 - 1)..Len(w) /\ Len(w) \in n..Len(w)
      BY <1>4
    <3> QED
      BY <1>4, <3>1, ConcatAdjacentSubSeq
  <2> QED
    BY <1>4, <2>1, <2>2, SubSeqFull
<1>6. a \in Bytes /\ z \in Bytes /\ a \o z = buffer[c][s] \o w
  <2> DEFINE x == SubSeq(w, 1, n)
             y == buffer[c][s]
  <2>1. x \in Seq(Nat) /\ y \in Seq(Nat) /\ z \in Seq(Nat) /\ x \o z = w
    BY <1>4, <1>5
  <2> HIDE DEF x, y, z, w
  <2>2. y \o (x \o z) = (y \o x) \o z /\ y \o x \in Seq(Nat)
    BY <2>1, Regroup
  <2>3. a = y \o x
    BY DEF x, y
  <2> HIDE DEF a
  <2> QED
    BY <2>1, <2>2, <2>3 DEF Bytes, y
<1>7. got \in Got /\ ~Complete(rest) /\ q \in Seq(Seq(Bytes))
      /\ Fits(sent[c][Peer(s)], Len(received[c][s]), q, rest \o z, FALSE)
  <2>1. Fits(sent[c][Peer(s)], Len(received[c][s]), inbox[c][s], a \o z, FALSE)
    <3>1. (s \in ended[c]) = FALSE
      BY <1>3
    <3> HIDE DEF a, z, w
    <3> QED
      BY <1>6, <3>1, HereFacts DEF w
  <2> HIDE DEF a, z, w
  <2> QED
    BY <1>6, <2>1, HereFacts, FitsDeliver
<1>8. rest \in Bytes
  BY <1>7 DEF Got
<1> HIDE DEF a, z, got, q, rest, w
<1>9. NetTyped'
  BY <1>2, <1>3, <1>6, <1>7, <1>8 DEF NetInv, NetTyped, Each
<1>10. \A x \in Conns, t \in Sides : (x # c \/ t # s) => Here(x, t)' = Here(x, t)
  BY <1>2, <1>3 DEF NetInv, NetTyped, Each, Here
<1>11. wire'[c][s] = z /\ buffer'[c][s] = rest /\ inbox'[c][s] = q
  BY <1>2 DEF NetInv, NetTyped, Each
<1>12. (s \in ended'[c]) = FALSE /\ received'[c][s] = received[c][s]
  BY <1>3
<1> QED
  BY <1>3, <1>7, <1>9, <1>10, <1>11, <1>12, OneDirection

\* The connection ends: None is put behind the messages that arrived.
LEMMA TerminatedKeepsNet ==
  ASSUME NetInv, NEW c \in Conns, NEW s \in Sides, Terminated(c, s)
  PROVE  NetInv'
<1> DEFINE q == Append(inbox[c][s], <<>>)
           e == ended[c] \cup {s}
<1>1. /\ s \notin ended[c] /\ ended' = [ended EXCEPT ![c] = e] /\ inbox' = [inbox EXCEPT ![c][s] = q]
      /\ UNCHANGED <<wire, buffer, sent, received>>
  BY DEF Terminated, appVars
<1>2. q \in Seq(Seq(Bytes)) /\ e \in SUBSET Sides
  <2>1. inbox[c][s] \in Seq(Seq(Bytes)) /\ <<>> \in Seq(Bytes)
    BY HereFacts
  <2>2. ended[c] \in SUBSET Sides
    BY DEF NetInv, NetTyped
  <2> QED
    BY <2>1, <2>2
<1>3. Fits(sent[c][Peer(s)], Len(received[c][s]), q, buffer[c][s] \o wire[c][s], TRUE)
  <2>1. (s \in ended[c]) = FALSE
    BY <1>1
  <2> QED
    BY <2>1, HereFacts, FitsEnd
<1>4. s \in e /\ \A t \in Sides : t # s => (t \in e <=> t \in ended[c])
  OBVIOUS
<1> HIDE DEF q, e
<1>5. NetTyped'
  BY <1>1, <1>2 DEF NetInv, NetTyped, Each
<1>6. \A x \in Conns, t \in Sides : (x # c \/ t # s) => Here(x, t)' = Here(x, t)
  <2> TAKE x \in Conns, t \in Sides
  <2> HAVE x # c \/ t # s
  <2>1. inbox'[x][t] = inbox[x][t] /\ wire'[x][t] = wire[x][t] /\ buffer'[x][t] = buffer[x][t]
        /\ received'[x][t] = received[x][t]
    BY <1>1 DEF NetInv, NetTyped, Each
  <2>2. (t \in ended'[x]) = (t \in ended[x])
    BY <1>1, <1>4 DEF NetInv, NetTyped
  <2> QED
    BY <2>1, <2>2 DEF Here
<1>7. inbox'[c][s] = q /\ (s \in ended'[c]) = TRUE /\ buffer'[c][s] \o wire'[c][s] = buffer[c][s] \o wire[c][s]
      /\ received'[c][s] = received[c][s] /\ ~Complete(buffer'[c][s])
  <2>1. inbox'[c][s] = q /\ ended'[c] = e
    BY <1>1 DEF NetInv, NetTyped, Each
  <2> QED
    BY <1>1, <1>4, <2>1, HereFacts
<1> QED
  BY <1>1, <1>3, <1>5, <1>6, <1>7, OneDirection

\* recv: the next message is the one behind those received.
LEMMA ReceivesKeepsNet ==
  ASSUME NetInv, NEW c \in Conns, NEW s \in Sides, Receives(c, s),
         UNCHANGED <<wire, buffer, ended, sent>>
  PROVE  /\ NetInv'
         /\ Len(received[c][s]) + 1 \in 1..Len(sent[c][Peer(s)])
         /\ Head(inbox[c][s])[1] = sent[c][Peer(s)][Len(received[c][s]) + 1]
<1> DEFINE q == inbox[c][s]
           m == sent[c][Peer(s)]
           b == Head(q)[1]
           d == received[c][s]
           r == Append(d, b)
<1>1. /\ q # <<>> /\ Head(q) # <<>> /\ inbox' = [inbox EXCEPT ![c][s] = Tail(q)]
      /\ received' = [received EXCEPT ![c][s] = r]
  BY DEF Receives
<1>2. /\ q \in Seq(Seq(Bytes)) /\ d \in Seq(Bytes) /\ Len(d) \in Nat /\ m \in Seq(Body)
      /\ (s \in ended[c]) \in BOOLEAN
      /\ Fits(m, Len(d), q, buffer[c][s] \o wire[c][s], s \in ended[c])
  BY HereFacts
<1> HIDE DEF q, m, d
<1>3. /\ Len(d) + 1 \in 1..Len(m) /\ b = m[Len(d) + 1]
      /\ Tail(q) \in Seq(Seq(Bytes)) /\ Fits(m, Len(d) + 1, Tail(q), buffer[c][s] \o wire[c][s], s \in ended[c])
  <2> DEFINE w == buffer[c][s] \o wire[c][s]
             over == s \in ended[c]
  <2>1. Fits(m, Len(d), q, w, over) /\ over \in BOOLEAN
    BY <1>2
  <2> HIDE DEF w, over
  <2>2. /\ Len(d) + 1 \in 1..Len(m) /\ Head(q)[1] = m[Len(d) + 1]
        /\ Tail(q) \in Seq(Seq(Bytes)) /\ Fits(m, Len(d) + 1, Tail(q), w, over)
    <3>1. /\ q \in Seq(Seq(Bytes)) /\ Len(d) \in Nat /\ m \in Seq(Body)
          /\ q # <<>> /\ Head(q) # <<>>
      BY <1>1, <1>2
    <3> QED
      BY <2>1, <3>1, FitsRecv, Zenon
  <2> QED
    BY <2>2 DEF w, over
<1>4. b \in Bytes
  <2>1. m[Len(d) + 1] \in Body
    BY <1>2, <1>3
  <2> QED
    BY <1>3, <2>1 DEF Body
<1> HIDE DEF b
<1>5. r \in Seq(Bytes) /\ Len(r) = Len(d) + 1
  BY <1>2, <1>4
<1> HIDE DEF r
<1>6. NetTyped'
  BY <1>1, <1>3, <1>5 DEF NetInv, NetTyped, Each
<1>7. \A x \in Conns, t \in Sides : (x # c \/ t # s) => Here(x, t)' = Here(x, t)
  BY <1>1 DEF NetInv, NetTyped, Each, Here
<1>8. /\ inbox'[c][s] = Tail(q) /\ received'[c][s] = r
  BY <1>1 DEF NetInv, NetTyped, Each
<1>9. NetInv'
  <2>1. ~Complete(buffer'[c][s])
    BY HereFacts
  <2>2. Fits(sent[c][Peer(s)], Len(received'[c][s]), inbox'[c][s], buffer'[c][s] \o wire'[c][s], s \in ended'[c])
    BY <1>3, <1>5, <1>8 DEF m
  <2> QED
    BY <1>6, <1>7, <2>1, <2>2, OneDirection
<1> QED
  BY <1>3, <1>9 DEF b, q, m, d

\* recv takes None and raises: no message is lost by it.
LEMMA RaisesKeepsNet ==
  ASSUME NetInv, NEW c \in Conns, NEW s \in Sides, RecvRaises(c, s)
  PROVE  NetInv'
<1> DEFINE q == inbox[c][s]
<1>1. /\ q # <<>> /\ Head(q) = <<>> /\ inbox' = [inbox EXCEPT ![c][s] = Tail(q)]
      /\ UNCHANGED <<wire, buffer, ended, sent, received>>
  BY DEF RecvRaises
<1>2. Tail(q) \in Seq(Seq(Bytes))
      /\ Fits(sent[c][Peer(s)], Len(received[c][s]), Tail(q), buffer[c][s] \o wire[c][s], s \in ended[c])
  BY <1>1, HereFacts, FitsRaise
<1> HIDE DEF q
<1>3. NetTyped'
  BY <1>1, <1>2 DEF NetInv, NetTyped, Each
<1>4. \A x \in Conns, t \in Sides : (x # c \/ t # s) => Here(x, t)' = Here(x, t)
  BY <1>1 DEF NetInv, NetTyped, Each, Here
<1>5. inbox'[c][s] = Tail(q)
  BY <1>1 DEF NetInv, NetTyped, Each
<1>6. Fits(sent[c][Peer(s)], Len(received'[c][s]), inbox'[c][s], buffer'[c][s] \o wire'[c][s], s \in ended'[c])
      /\ ~Complete(buffer'[c][s])
  BY <1>1, <1>2, <1>5, HereFacts
<1> QED
  BY <1>1, <1>3, <1>4, <1>6, OneDirection

-----------------------------------------------------------------------------
(* The queues of LocalTransport                                            *)

Pending(m, d) == SubSeq(m, d + 1, Len(m))

\* What is on its way after a message more was sent.
LEMMA PendingSend ==
  ASSUME NEW S, NEW m \in Seq(S), NEW d \in Nat, d <= Len(m), NEW b \in S
  PROVE  Pending(Append(m, b), d) = Append(Pending(m, d), b)
<1> DEFINE n == Len(m)
           l == Pending(Append(m, b), d)
           q == Pending(m, d)
           r == Append(q, b)
<1>1. n \in Nat /\ Len(Append(m, b)) = n + 1 /\ Append(m, b)[n + 1] = b
      /\ \A i \in 1..n : Append(m, b)[i] = m[i]
  OBVIOUS
<1>2. q \in Seq(S) /\ Len(q) = n - d /\ \A i \in 1..(n - d) : q[i] = m[d + i]
  BY <1>1 DEF Pending
<1>3. l \in Seq(S) /\ Len(l) = n + 1 - d /\ \A i \in 1..(n + 1 - d) : l[i] = Append(m, b)[d + i]
  <2>1. \A i \in 1..(n + 1) : Append(m, b)[i] \in S
    BY <1>1
  <2> HIDE DEF n
  <2> QED
    BY <1>1, <2>1 DEF Pending
<1>4. r \in Seq(S) /\ Len(r) = n - d + 1 /\ r[n - d + 1] = b /\ \A i \in 1..(n - d) : r[i] = q[i]
  <2>1. n - d \in Nat
    BY <1>1
  <2> HIDE DEF q, n
  <2> QED
    BY <1>2, <2>1, AppendProperties
<1> HIDE DEF l, q, r, n
<1>5. \A i \in 1..Len(l) : l[i] = r[i]
  <2> TAKE i \in 1..Len(l)
  <2>1. CASE i \in 1..(n - d)
    <3>1. d + i \in 1..n /\ i \in 1..(n + 1 - d)
      BY <1>1, <2>1
    <3> QED
      BY <1>1, <1>2, <1>3, <1>4, <2>1, <3>1
  <2>2. CASE i = n - d + 1
    <3>1. d + i = n + 1 /\ i \in 1..(n + 1 - d)
      BY <1>1, <2>2 DEF n
    <3> QED
      BY <1>1, <1>3, <1>4, <2>2, <3>1
  <2> QED
    BY <1>1, <1>3, <2>1, <2>2
<1>6. Len(l) = Len(r)
  BY <1>1, <1>3, <1>4
<1>7. l = r
  BY <1>3, <1>4, <1>5, <1>6, SeqEqual
<1> QED
  BY <1>7 DEF l, q, r

\* What is on its way after the first message was received.
LEMMA PendingRecv ==
  ASSUME NEW S, NEW m \in Seq(S), NEW d \in Nat, d + 1 \in 1..Len(m)
  PROVE  /\ Pending(m, d) # <<>> /\ Head(Pending(m, d)) = m[d + 1]
         /\ Tail(Pending(m, d)) = Pending(m, d + 1)
<1>1. Len(m) \in (d + 1)..Len(m) /\ Len(m) \in Nat
  OBVIOUS
<1>2. Head(Pending(m, d)) = m[d + 1] /\ Tail(Pending(m, d)) = Pending(m, d + 1)
  BY <1>1, HeadTailOfSubSeq DEF Pending
<1>3. Len(Pending(m, d)) = Len(m) - d /\ Len(m) - d > 0
  BY <1>1 DEF Pending
<1>4. Pending(m, d) # <<>>
  BY <1>3
<1> QED
  BY <1>2, <1>4

Queue == [c \in Conns |-> [s \in Sides |-> Pending(sent[c][Peer(s)], Len(received[c][s]))]]

\* LocalTransport has the same two ends.
LEMMA LocalPeer == Local!Sides = Sides /\ \A s : Local!Peer(s) = Peer(s)
BY DEF Local!Sides, Local!Peer, Sides, Peer

\* Only one queue changes.
LEMMA QueueExcept ==
  ASSUME NEW c \in Conns, NEW s \in Sides, NEW v,
         \A x \in Conns, t \in Sides : Queue'[x][t] = IF x = c /\ t = s THEN v ELSE Queue[x][t]
  PROVE  Queue' = [Queue EXCEPT ![c][s] = v]
<1> DEFINE r == [Queue EXCEPT ![c][s] = v]
<1>1. /\ Queue = [x \in Conns |-> Queue[x]] /\ Queue' = [x \in Conns |-> Queue'[x]]
      /\ \A x \in Conns : /\ Queue[x] = [t \in Sides |-> Queue[x][t]]
                          /\ Queue'[x] = [t \in Sides |-> Queue'[x][t]]
  BY DEF Queue
<1>2. ASSUME NEW x \in Conns PROVE Queue'[x] = r[x]
  <2>1. CASE x = c
    <3>1. r[x] = [Queue[c] EXCEPT ![s] = v]
      BY <1>1, <2>1
    <3>2. [Queue[c] EXCEPT ![s] = v] = [t \in Sides |-> IF t = s THEN v ELSE Queue[c][t]]
      BY <1>1
    <3> QED
      BY <1>1, <2>1, <3>1, <3>2
  <2>2. CASE x # c
    <3>1. r[x] = Queue[x]
      BY <1>1, <2>2
    <3>2. \A t \in Sides : Queue'[x][t] = Queue[x][t]
      BY <2>2
    <3> QED
      BY <1>1, <3>1, <3>2
  <2> QED
    BY <2>1, <2>2
<1>3. r = [x \in Conns |-> r[x]]
  BY <1>1
<1> QED
  BY <1>1, <1>2, <1>3

\* send is the send of LocalTransport.
LEMMA SendIsSend ==
  ASSUME NetInv, NEW c \in Conns, NEW s \in Sides, NEW b \in Body, b \in Bodies, Send(c, s, b),
         UNCHANGED received
  PROVE  Local!Next
<1>1. Peer(s) \in Sides /\ Peer(Peer(s)) = s
  BY PeerFacts
<1>2. \A x \in Conns, t \in Sides : sent'[x][t] = IF x = c /\ t = s THEN Append(sent[c][s], b) ELSE sent[x][t]
  BY DEF Send, NetInv, NetTyped, Each
<1>3. \A x \in Conns, t \in Sides : Queue'[x][t] =
        IF x = c /\ t = Peer(s) THEN Append(Queue[c][Peer(s)], b) ELSE Queue[x][t]
  <2> TAKE x \in Conns, t \in Sides
  <2>1. Queue[x][t] = Pending(sent[x][Peer(t)], Len(received[x][t]))
        /\ Queue'[x][t] = Pending(sent'[x][Peer(t)], Len(received[x][t]))
    BY DEF Queue
  <2>2. Peer(t) \in Sides /\ (Peer(t) = s <=> t = Peer(s))
    BY PeerFacts
  <2>3. CASE x = c /\ t = Peer(s)
    <3> DEFINE m == sent[c][s]
               d == Len(received[c][t])
    <3>1. m \in Seq(Body) /\ d \in Nat /\ d <= Len(m)
      <4>1. m \in Seq(Body) /\ d \in Nat
        BY HereFacts
      <4>2. Fits(sent[c][Peer(t)], d, inbox[c][t], buffer[c][t] \o wire[c][t], t \in ended[c])
        BY HereFacts
      <4> QED
        BY <1>1, <2>3, <4>1, <4>2 DEF Fits
    <3>2. Queue[c][t] = Pending(m, d) /\ Queue'[c][t] = Pending(Append(m, b), d)
      BY <1>1, <1>2, <2>1, <2>2, <2>3
    <3> HIDE DEF m, d
    <3>3. Pending(Append(m, b), d) = Append(Pending(m, d), b)
      BY <3>1, PendingSend
    <3> QED
      BY <2>3, <3>2, <3>3
  <2>4. CASE ~(x = c /\ t = Peer(s))
    BY <1>2, <2>1, <2>2, <2>4
  <2> QED
    BY <2>3, <2>4
<1>4. Queue' = [Queue EXCEPT ![c][Peer(s)] = Append(Queue[c][Peer(s)], b)]
  BY <1>1, <1>3, QueueExcept, ZenonT(60)
<1>5. Local!Send(c, s, b)
  BY <1>1, <1>4, LocalPeer DEF Local!Send, Queue, Pending
<1> QED
  BY <1>5, LocalPeer DEF Local!Next

\* A recv that returns is the recv of LocalTransport.
LEMMA ReceiveIsRecv ==
  ASSUME NetInv, NEW c \in Conns, NEW s \in Sides, Receives(c, s), UNCHANGED <<wire, buffer, ended, sent>>
  PROVE  Local!Next
<1> DEFINE m == sent[c][Peer(s)]
           d == Len(received[c][s])
           b == Head(inbox[c][s])[1]
<1>1. m \in Seq(Body) /\ d \in Nat /\ d + 1 \in 1..Len(m) /\ b = m[d + 1]
  BY ReceivesKeepsNet, HereFacts
<1>2. received' = [received EXCEPT ![c][s] = Append(received[c][s], b)]
  BY DEF Receives
<1>3. /\ \A x \in Conns, t \in Sides : x # c \/ t # s => received'[x][t] = received[x][t]
      /\ received'[c][s] = Append(received[c][s], b)
  BY <1>2 DEF NetInv, NetTyped, Each
<1>4. Len(received'[c][s]) = d + 1
  <2>1. received[c][s] \in Seq(Bytes)
    BY HereFacts
  <2> HIDE DEF b
  <2> QED
    BY <1>3, <2>1
<1>5. Queue[c][s] = Pending(m, d) /\ Queue'[c][s] = Pending(m, d + 1)
  BY <1>4 DEF Queue
<1> HIDE DEF m, d, b
<1>6. Queue[c][s] # <<>> /\ Head(Queue[c][s]) = b /\ Queue'[c][s] = Tail(Queue[c][s])
  BY <1>1, <1>5, PendingRecv
<1>7. \A x \in Conns, t \in Sides : Queue'[x][t] = IF x = c /\ t = s THEN Tail(Queue[c][s]) ELSE Queue[x][t]
  <2> TAKE x \in Conns, t \in Sides
  <2>1. Queue[x][t] = Pending(sent[x][Peer(t)], Len(received[x][t]))
        /\ Queue'[x][t] = Pending(sent[x][Peer(t)], Len(received'[x][t]))
    BY DEF Queue
  <2> QED
    BY <1>3, <1>6, <2>1
<1>8. Queue' = [Queue EXCEPT ![c][s] = Tail(Queue[c][s])]
  BY <1>7, QueueExcept, ZenonT(60)
<1>9. Local!Recv(c, s)
  BY <1>2, <1>6, <1>8 DEF Local!Recv, Queue, Pending
<1> QED
  BY <1>9, LocalPeer DEF Local!Next

\* Every other step is one that LocalTransport does not see.
LEMMA Stutters ==
  ASSUME UNCHANGED <<sent, received>>
  PROVE  UNCHANGED Local!localVars
BY DEF Local!localVars

-----------------------------------------------------------------------------
(* Steps                                                                   *)

\* A sequence over a set is one over every larger set.
LEMMA WiderSeq ==
  ASSUME NEW S, NEW T, S \subseteq T, NEW b \in Seq(S)
  PROVE  b \in Seq(T)
<1>1. Len(b) \in Nat /\ DOMAIN b = 1..Len(b) /\ b = [i \in 1..Len(b) |-> b[i]]
  OBVIOUS
<1>2. \A i \in 1..Len(b) : b[i] \in T
  OBVIOUS
<1>3. [i \in 1..Len(b) |-> b[i]] \in Seq(T)
  BY <1>1, <1>2, IsASeq
<1> QED
  BY <1>1, <1>3, Zenon

\* What the applications send.
LEMMA SentIsBody ==
  ASSUME Inv, NEW c \in Conns
  PROVE  /\ ClientSends(c) => \E b \in Body \cap Bodies : Send(c, "client", b)
         /\ ServerAnswers(c) => \E b \in Body \cap Bodies : Send(c, "server", b)
<1>1. /\ Script[c] \in Seq(Seq(0..255)) /\ Len(Script[c]) \in Nat /\ DOMAIN Script[c] = 1..Len(Script[c])
      /\ \A i \in 1..Len(Script[c]) : Script[c][i] \in Body /\ Script[c][i] \in Bodies
  <2>1. Script[c] \in Seq(Seq(0..255))
    BY QuicAssumption
  <2>2. Len(Script[c]) \in Nat /\ DOMAIN Script[c] = 1..Len(Script[c])
    BY <2>1
  <2>3. \A i \in 1..Len(Script[c]) : Script[c][i] \in Body
    <3> TAKE i \in 1..Len(Script[c])
    <3>1. Script[c][i] \in Seq(0..255)
      BY <2>1
    <3>2. Script[c][i] \in Seq(Nat)
      <4> DEFINE b == Script[c][i]
      <4> HIDE DEF b
      <4>1. b \in Seq(0..255) /\ 0..255 \subseteq Nat
        BY <3>1 DEF b
      <4>2. b \in Seq(Nat)
        BY <4>1, WiderSeq, ZenonT(60)
      <4> QED
        BY <4>2 DEF b
    <3> QED
      BY <2>2, <3>2, QuicAssumption DEF Body, Bytes
  <2>4. \A i \in 1..Len(Script[c]) : Script[c][i] \in Bodies
    BY <2>2 DEF Bodies, Range
  <2> QED
    BY <2>1, <2>2, <2>3, <2>4
<1>2. ASSUME NEW s \in Sides PROVE Len(sent[c][s]) \in Nat /\ Len(received[c][s]) \in Nat
  <2>1. sent[c][s] \in Seq(Body) /\ received[c][s] \in Seq(Bytes)
    BY HereFacts DEF Inv
  <2> QED
    BY <2>1
<1>3. ASSUME ClientSends(c) PROVE \E b \in Body \cap Bodies : Send(c, "client", b)
  <2>1. Len(sent[c].client) + 1 \in 1..Len(Script[c])
    BY <1>1, <1>2, <1>3 DEF ClientSends, Sides
  <2> QED
    BY <1>1, <1>3, <2>1 DEF ClientSends
<1>4. ASSUME ServerAnswers(c) PROVE \E b \in Body \cap Bodies : Send(c, "server", b)
  <2> DEFINE n == Len(sent[c].server)
             b == <<n>>
  <2>1. n \in Nat /\ n < Len(received[c].server) /\ Send(c, "server", b)
    BY <1>2, <1>4 DEF ServerAnswers, Sides
  <2>2. Len(received[c].server) <= Len(sent[c].client) /\ Len(sent[c].client) <= Len(Script[c])
    <3>1. Fits(sent[c]["client"], Len(received[c]["server"]), inbox[c]["server"],
               buffer[c]["server"] \o wire[c]["server"], "server" \in ended[c])
      BY PeerFacts, HereFacts DEF Sides, Inv
    <3> QED
      BY <3>1 DEF Fits, Inv, AppInv
  <2>3. n + 1 \in 1..Len(Script[c])
    <3>1. Len(received[c].server) \in Nat /\ Len(sent[c].client) \in Nat
      BY <1>2 DEF Sides
    <3>2. \A w, x, y, z \in Nat : w < x /\ x <= y /\ y <= z => w + 1 \in 1..z
      OBVIOUS
    <3> HIDE DEF n
    <3> QED
      BY <1>1, <2>1, <2>2, <3>1, <3>2
  <2> HIDE DEF n
  <2>4. b \in Bodies
    <3>1. b = <<(n + 1) - 1>>
      BY <2>1
    <3> QED
      BY <1>1, <2>3, <3>1 DEF Bodies
  <2>5. b \in Body
    <3>1. b \in Seq(Nat) /\ Len(b) = 1
      BY <2>1
    <3>2. FitsHeader(1)
      BY SMT DEF FitsHeader
    <3> QED
      BY <3>1, <3>2 DEF Body, Bytes
  <2> QED
    BY <2>1, <2>4, <2>5
<1> QED
  BY <1>3, <1>4

\* The network, and what it has to do with the queues of LocalTransport.
LEMMA NetStep ==
  ASSUME Inv, [Next]_vars
  PROVE  NetInv' /\ [Local!Next]_Local!localVars
<1> USE DEF Inv
<1>1. CASE UNCHANGED vars
  BY <1>1, NetUntouched, Stutters DEF vars, netVars, appVars
<1>2. CASE AcceptTakes \/ AcceptReturns
  BY <1>2, NetUntouched, Stutters DEF AcceptTakes, AcceptReturns, netVars, appVars
<1>3. ASSUME NEW c \in Conns, Connect(c) \/ ClientReady(c) \/ ServerReady(c) \/ ConnectTimeout(c) \/ Lose(c)
                               \/ ClientCloses(c)
      PROVE  NetInv' /\ [Local!Next]_Local!localVars
  BY <1>3, NetUntouched, Stutters
  DEF Connect, ClientReady, ServerReady, ConnectTimeout, Lose, ClientCloses, netVars, appVars
<1>4. ASSUME NEW c \in Conns, ClientSends(c)
      PROVE  NetInv' /\ [Local!Next]_Local!localVars
  <2>1. PICK b \in Body \cap Bodies : Send(c, "client", b)
    BY <1>4, SentIsBody
  <2>2. UNCHANGED <<buffer, inbox, ended, received>> /\ "client" \in Sides
    BY <1>4 DEF ClientSends, Sides
  <2> QED
    BY <2>1, <2>2, SendKeepsNet, SendIsSend
<1>5. ASSUME NEW c \in Conns, ServerAnswers(c)
      PROVE  NetInv' /\ [Local!Next]_Local!localVars
  <2>1. PICK b \in Body \cap Bodies : Send(c, "server", b)
    BY <1>5, SentIsBody
  <2>2. UNCHANGED <<buffer, inbox, ended, received>> /\ "server" \in Sides
    BY <1>5 DEF ServerAnswers, Sides
  <2> QED
    BY <2>1, <2>2, SendKeepsNet, SendIsSend
<1>6. ASSUME NEW c \in Conns, ClientReceives(c) \/ ServerReceives(c)
      PROVE  NetInv' /\ [Local!Next]_Local!localVars
  <2>1. PICK s \in Sides : Receives(c, s)
    BY <1>6 DEF ClientReceives, ServerReceives, Sides
  <2>2. UNCHANGED <<wire, buffer, ended, sent>>
    BY <1>6 DEF ClientReceives, ServerReceives
  <2> QED
    BY <2>1, <2>2, ReceivesKeepsNet, ReceiveIsRecv
<1>7. ASSUME NEW c \in Conns, NEW s \in Sides, Deliver(c, s) \/ Terminated(c, s) \/ RecvRaises(c, s)
      PROVE  NetInv' /\ [Local!Next]_Local!localVars
  <2>1. NetInv'
    BY <1>7, DeliverKeepsNet, TerminatedKeepsNet, RaisesKeepsNet
  <2>2. UNCHANGED <<sent, received>>
    BY <1>7 DEF Deliver, Terminated, RecvRaises, appVars
  <2> QED
    BY <2>1, <2>2, Stutters
<1> QED
  BY <1>1, <1>2, <1>3, <1>4, <1>5, <1>6, <1>7 DEF Next

\* The applications end as they may, and the client sends its script.
LEMMA AppStep ==
  ASSUME Inv, [Next]_vars
  PROVE  AppInv'
<1> USE DEF Inv
<1>1. ASSUME UNCHANGED <<app, closed, sent>> PROVE AppInv'
  BY <1>1 DEF AppInv
<1>2. ASSUME NEW c \in Conns, NEW s \in Sides, NEW v \in {"on", "done", "failed"},
             app' = [app EXCEPT ![c][s] = v], sent' = sent,
             closed' \in [Conns -> SUBSET {"client", "lost"}]
      PROVE  AppInv'
  BY <1>2 DEF AppInv, Each
<1>3. ASSUME NEW c \in Conns, NEW v \in {"client", "lost"}
      PROVE  [closed EXCEPT ![c] = @ \cup {v}] \in [Conns -> SUBSET {"client", "lost"}]
  BY <1>3 DEF AppInv
<1>4. closed \in [Conns -> SUBSET {"client", "lost"}]
  BY DEF AppInv
<1>5. CASE UNCHANGED vars
  BY <1>1, <1>5 DEF vars, netVars, appVars
<1>6. CASE AcceptTakes
  BY <1>1, <1>6 DEF AcceptTakes, netVars, appVars
<1>7. CASE AcceptReturns
  <2>1. waiting \in Conns /\ app' = [app EXCEPT ![waiting]["server"] = "on"] /\ sent' = sent /\ closed' = closed
    BY <1>7 DEF AcceptReturns, netVars, AcceptInv
  <2> QED
    BY <1>2, <1>4, <2>1 DEF Sides
<1>8. ASSUME NEW c \in Conns, Connect(c) \/ ServerReady(c)
      PROVE  AppInv'
  BY <1>1, <1>8 DEF Connect, ServerReady, netVars, appVars
<1>9. ASSUME NEW c \in Conns, ClientReady(c) PROVE AppInv'
  <2>1. app' = [app EXCEPT ![c]["client"] = "on"] /\ sent' = sent /\ closed' = closed
    BY <1>9 DEF ClientReady, netVars
  <2> QED
    BY <1>2, <1>4, <2>1 DEF Sides
<1>10. ASSUME NEW c \in Conns, ConnectTimeout(c) \/ ClientCloses(c) PROVE AppInv'
  <2>1. PICK v \in {"done", "failed"} : app' = [app EXCEPT ![c]["client"] = v]
    BY <1>10 DEF ConnectTimeout, ClientCloses
  <2>2. sent' = sent /\ closed' = [closed EXCEPT ![c] = @ \cup {"client"}]
    BY <1>10 DEF ConnectTimeout, ClientCloses
  <2> QED
    BY <1>2, <1>3, <2>1, <2>2 DEF Sides
<1>11. ASSUME NEW c \in Conns, Lose(c) PROVE AppInv'
  BY <1>4, <1>11 DEF Lose, appVars, AppInv
<1>12. ASSUME NEW c \in Conns, ClientSends(c) PROVE AppInv'
  <2> DEFINE b == Script[c][Len(sent[c].client) + 1]
             r == Append(sent[c].client, b)
  <2>1. /\ sent' = [sent EXCEPT ![c]["client"] = r] /\ UNCHANGED <<app, closed>>
        /\ Len(sent[c].client) < Len(Script[c])
    BY <1>12 DEF ClientSends, Send
  <2>2. Len(r) = Len(sent[c].client) + 1 /\ Len(sent[c].client) \in Nat /\ Len(Script[c]) \in Nat
    <3>1. sent[c]["client"] \in Seq(Body) /\ Script[c] \in Seq(Seq(0..255))
      BY HereFacts, QuicAssumption DEF Sides
    <3> HIDE DEF b
    <3> QED
      BY <3>1
  <2> HIDE DEF r
  <2>3. \A x \in Conns : sent'[x].client = IF x = c THEN r ELSE sent[x].client
    BY <2>1 DEF NetInv, NetTyped, Each, Sides
  <2>4. Len(r) <= Len(Script[c])
    BY <2>1, <2>2
  <2> QED
    BY <2>1, <2>3, <2>4 DEF AppInv
<1>13. ASSUME NEW c \in Conns, ServerAnswers(c) PROVE AppInv'
  <2> DEFINE r == Append(sent[c]["server"], <<Len(sent[c].server)>>)
  <2>1. /\ sent' = [sent EXCEPT ![c]["server"] = r] /\ UNCHANGED <<app, closed>>
    BY <1>13 DEF ServerAnswers, Send
  <2> HIDE DEF r
  <2>2. \A x \in Conns : sent'[x].client = sent[x].client
    BY <2>1 DEF NetInv, NetTyped, Each, Sides
  <2> QED
    BY <2>1, <2>2 DEF AppInv
<1>14. ASSUME NEW c \in Conns, ClientReceives(c) \/ ServerReceives(c) PROVE AppInv'
  BY <1>1, <1>14 DEF ClientReceives, ServerReceives
<1>15. ASSUME NEW c \in Conns, NEW s \in Sides, Deliver(c, s) \/ Terminated(c, s) PROVE AppInv'
  BY <1>1, <1>15 DEF Deliver, Terminated, appVars
<1>16. ASSUME NEW c \in Conns, NEW s \in Sides, RecvRaises(c, s) PROVE AppInv'
  <2>1. PICK v \in {"done", "failed"} : app' = [app EXCEPT ![c][s] = v]
    BY <1>16 DEF RecvRaises
  <2>2. sent' = sent /\ closed' = closed
    BY <1>16 DEF RecvRaises
  <2> QED
    BY <1>2, <1>4, <2>1, <2>2
<1> QED
  BY <1>5, <1>6, <1>7, <1>8, <1>9, <1>10, <1>11, <1>12, <1>13, <1>14, <1>15, <1>16 DEF Next

\* The clients that wait for accept are the last ones that arrived.
LEMMA AcceptStep ==
  ASSUME Inv, [Next]_vars
  PROVE  AcceptInv'
<1> USE DEF Inv
<1>1. ASSUME UNCHANGED acceptVars PROVE AcceptInv'
  BY <1>1 DEF acceptVars, AcceptInv
<1>2. CASE UNCHANGED vars
  BY <1>1, <1>2 DEF vars
<1>3. CASE AcceptTakes
  <2> DEFINE q == newClients
             r == Tail(newClients)
  <2>1. /\ q # <<>> /\ newClients' = r /\ waiting' = Head(q) /\ UNCHANGED <<handshake, arrivals, served>>
    BY <1>3 DEF AcceptTakes
  <2>2. q \in Seq(Conns) /\ arrivals \in Seq(Conns) /\ IsSuffix(q, arrivals)
    BY DEF AcceptInv
  <2> HIDE DEF q
  <2>3. /\ r \in Seq(Conns) /\ Len(r) = Len(q) - 1 /\ Head(q) \in Conns /\ Len(q) \in Nat \ {0}
        /\ \A i \in 1..Len(r) : r[i] = q[i + 1]
    <3>1. /\ Head(q) \in Conns /\ Tail(q) \in Seq(Conns) /\ Len(Tail(q)) = Len(q) - 1
          /\ \A i \in 1..Len(Tail(q)) : Tail(q)[i] = q[i + 1]
      BY <2>1, <2>2, HeadTailProperties
    <3> QED
      BY <2>1, <2>2, <3>1, EmptySeq DEF q
  <2>4. Len(arrivals) \in Nat /\ Len(q) <= Len(arrivals)
        /\ \A i \in 1..Len(q) : q[i] = arrivals[Len(arrivals) - Len(q) + i]
    <3>1. Len(arrivals) \in Nat
      BY <2>2
    <3> QED
      BY <2>2, <3>1, SuffixFacts
  <2> HIDE DEF r
  <2>5. IsSuffix(r, arrivals)
    <3>1. \A i \in 1..Len(r) : /\ i + 1 \in 1..Len(q)
                               /\ Len(arrivals) - Len(q) + (i + 1) = Len(arrivals) - Len(r) + i
      BY <2>3, <2>4
    <3>2. \A i \in 1..Len(r) : r[i] = arrivals[Len(arrivals) - Len(r) + i]
      BY <2>3, <2>4, <3>1
    <3>3. Len(r) <= Len(arrivals)
      BY <2>3, <2>4
    <3> QED
      BY <2>2, <2>3, <3>2, <3>3, SuffixFacts
  <2> QED
    BY <2>1, <2>3, <2>5 DEF AcceptInv
<1>4. CASE AcceptReturns
  <2>1. waiting \in Conns /\ served' = served \cup {waiting} /\ waiting' = NoConn
        /\ UNCHANGED <<handshake, arrivals, newClients>>
    BY <1>4 DEF AcceptReturns, AcceptInv
  <2> QED
    BY <2>1 DEF AcceptInv
<1>5. ASSUME NEW c \in Conns, Connect(c) PROVE AcceptInv'
  <2> DEFINE q == newClients
             r == Append(newClients, c)
             t == arrivals
             u == Append(arrivals, c)
  <2>1. /\ newClients' = r /\ arrivals' = u /\ handshake' = [handshake EXCEPT ![c] = "made"]
        /\ UNCHANGED <<waiting, served>>
    BY <1>5 DEF Connect
  <2>2. q \in Seq(Conns) /\ t \in Seq(Conns) /\ IsSuffix(q, t)
    BY DEF AcceptInv
  <2> HIDE DEF q, t
  <2>3. Len(q) \in Nat /\ Len(t) \in Nat /\ Len(q) <= Len(t)
        /\ \A i \in 1..Len(q) : q[i] = t[Len(t) - Len(q) + i]
    <3>1. Len(q) \in Nat /\ Len(t) \in Nat
      BY <2>2
    <3> QED
      BY <2>2, <3>1, SuffixFacts
  <2>4. /\ r \in Seq(Conns) /\ Len(r) = Len(q) + 1 /\ r[Len(q) + 1] = c /\ \A i \in 1..Len(q) : r[i] = q[i]
        /\ u \in Seq(Conns) /\ Len(u) = Len(t) + 1 /\ u[Len(t) + 1] = c /\ \A i \in 1..Len(t) : u[i] = t[i]
    BY <2>2, AppendProperties DEF q, t
  <2> HIDE DEF r, u
  <2>5. IsSuffix(r, u)
    <3>1. ASSUME NEW i \in 1..Len(r) PROVE r[i] = u[Len(u) - Len(r) + i]
      <4>1. CASE i \in 1..Len(q)
        <5>1. Len(t) - Len(q) + i \in 1..Len(t) /\ Len(u) - Len(r) + i = Len(t) - Len(q) + i
          BY <2>3, <2>4, <4>1
        <5> QED
          BY <2>3, <2>4, <4>1, <5>1
      <4>2. CASE i = Len(q) + 1
        <5>1. Len(u) - Len(r) + i = Len(t) + 1
          BY <2>3, <2>4, <4>2
        <5> QED
          BY <2>4, <4>2, <5>1
      <4> QED
        BY <2>3, <2>4, <4>1, <4>2
    <3>2. Len(r) <= Len(u)
      BY <2>3, <2>4
    <3> QED
      BY <2>4, <3>1, <3>2, SuffixFacts
  <2> QED
    BY <2>1, <2>4, <2>5 DEF AcceptInv
<1>6. ASSUME NEW c \in Conns, ClientReady(c) \/ ServerReady(c) PROVE AcceptInv'
  <2>1. PICK v \in {"client", "done"} : handshake' = [handshake EXCEPT ![c] = v]
    BY <1>6 DEF ClientReady, ServerReady
  <2>2. UNCHANGED <<arrivals, newClients, waiting, served>>
    BY <1>6 DEF ClientReady, ServerReady
  <2> QED
    BY <2>1, <2>2 DEF AcceptInv
<1>7. ASSUME NEW c \in Conns, ConnectTimeout(c) \/ Lose(c) \/ ClientSends(c) \/ ClientReceives(c)
                               \/ ClientCloses(c) \/ ServerReceives(c) \/ ServerAnswers(c)
      PROVE  AcceptInv'
  BY <1>1, <1>7
  DEF ConnectTimeout, Lose, ClientSends, ClientReceives, ClientCloses, ServerReceives, ServerAnswers
<1>8. ASSUME NEW c \in Conns, NEW s \in Sides, Deliver(c, s) \/ Terminated(c, s) \/ RecvRaises(c, s)
      PROVE  AcceptInv'
  BY <1>1, <1>8 DEF Deliver, Terminated, RecvRaises
<1> QED
  BY <1>2, <1>3, <1>4, <1>5, <1>6, <1>7, <1>8 DEF Next

\* A server without connections, and the empty queues of LocalTransport.
LEMMA InitHolds == Init => Inv /\ Local!Init
<1> SUFFICES ASSUME Init PROVE Inv /\ Local!Init
  OBVIOUS
<1> USE DEF Init, PerSide
<1>1. /\ wire \in Each(Bytes) /\ buffer \in Each(Bytes) /\ inbox \in Each(Seq(Seq(Bytes)))
      /\ sent \in Each(Seq(Body)) /\ received \in Each(Seq(Bytes)) /\ ended \in [Conns -> SUBSET Sides]
  BY DEF Each, Bytes
<1>2. ASSUME NEW c \in Conns, NEW s \in Sides
      PROVE  /\ wire[c][s] = <<>> /\ buffer[c][s] = <<>> /\ inbox[c][s] = <<>>
             /\ sent[c][s] = <<>> /\ received[c][s] = <<>>
  OBVIOUS
<1>3. StreamInv
  <2>1. IsStream(<<>>, <<>>, 0)
    <3>1. <<>> \in Seq(Body) /\ Len(<<>>) = 0
      OBVIOUS
    <3> QED
      BY <3>1, EmptyStream
  <2>2. <<>> \o <<>> = <<>>
    BY ConcatEmptySeq, EmptySeq
  <2>3. \A x \in BOOLEAN : Fits(<<>>, 0, <<>>, <<>>, x)
    <3>1. Len(<<>>) = 0 /\ 0 + 0 = 0 /\ \A i \in 1..0 : FALSE
      OBVIOUS
    <3> QED
      BY <2>1, <3>1 DEF Fits
  <2>4. ~Complete(<<>>)
    BY DEF Complete
  <2>5. ASSUME NEW c \in Conns, NEW s \in Sides
        PROVE  /\ Fits(sent[c][Peer(s)], Len(received[c][s]), inbox[c][s], buffer[c][s] \o wire[c][s], s \in ended[c])
               /\ ~Complete(buffer[c][s])
    <3>1. /\ sent[c][Peer(s)] = <<>> /\ received[c][s] = <<>> /\ inbox[c][s] = <<>>
          /\ buffer[c][s] = <<>> /\ wire[c][s] = <<>> /\ Len(<<>>) = 0 /\ (s \in ended[c]) \in BOOLEAN
      BY <1>2, PeerFacts
    <3> QED
      BY <2>2, <2>3, <2>4, <3>1
  <2> QED
    BY <2>5 DEF StreamInv
<1>4. AppInv
  <2>1. \A c \in Conns : Len(sent[c].client) = 0 /\ Len(Script[c]) \in Nat
    BY <1>2, QuicAssumption DEF Sides
  <2>2. app \in Each({"off", "on", "done", "failed"}) /\ closed \in [Conns -> SUBSET {"client", "lost"}]
    BY DEF Each
  <2>3. \A c \in Conns : Len(sent[c].client) <= Len(Script[c])
    BY <2>1
  <2> QED
    BY <2>2, <2>3 DEF AppInv
<1>5. AcceptInv
  <2>1. IsSuffix(<<>>, <<>>) /\ <<>> \in Seq(Conns)
    <3> DEFINE e == <<>>
    <3>1. e \in Seq(Conns) /\ Len(e) <= Len(e) /\ \A i \in 1..Len(e) : FALSE
      OBVIOUS
    <3> HIDE DEF e
    <3>2. IsSuffix(e, e) <=> Len(e) <= Len(e) /\ \A i \in 1..Len(e) : e[i] = e[Len(e) - Len(e) + i]
      BY <3>1, SuffixFacts
    <3>3. IsSuffix(e, e)
      BY <3>1, <3>2, Zenon
    <3> QED
      BY <3>1, <3>3 DEF e
  <2> QED
    BY <2>1 DEF AcceptInv
<1>6. Local!Init
  <2>1. ASSUME NEW c \in Conns, NEW s \in Sides PROVE Queue[c][s] = <<>>
    <3>1. sent[c][Peer(s)] = <<>> /\ received[c][s] = <<>> /\ Len(<<>>) = 0
      BY <1>2, PeerFacts
    <3>2. SubSeq(<<>>, 0 + 1, 0) = <<>>
      BY SubSeqEmpty
    <3> QED
      BY <3>1, <3>2 DEF Queue, Pending
  <2>2. Queue = [c \in Conns |-> [s \in Sides |-> <<>>]]
    <3>1. \A c \in Conns : Queue[c] = [s \in Sides |-> Queue[c][s]]
      BY DEF Queue
    <3>2. Queue = [c \in Conns |-> Queue[c]]
      BY DEF Queue
    <3>3. \A c \in Conns : Queue[c] = [s \in Sides |-> <<>>]
      BY <2>1, <3>1
    <3> QED
      BY <3>2, <3>3
  <2> QED
    BY <2>2, LocalPeer DEF Local!Init, Queue, Pending
<1> QED
  BY <1>1, <1>3, <1>4, <1>5, <1>6 DEF Inv, NetInv, NetTyped

-----------------------------------------------------------------------------
(* Results                                                                 *)

\* The invariant holds in every state of every behaviour.
THEOREM InvHolds == Spec => []Inv
<1>1. Init => Inv
  BY InitHolds
<1>2. Inv /\ [Next]_vars => Inv'
  BY NetStep, AppStep, AcceptStep DEF Inv
<1> QED
  BY <1>1, <1>2, PTL DEF Spec

\* Every variable keeps its type, no complete frame is left in a buffer, and
\* the queue of accept is the end of the arrivals.
THEOREM TypeCorrect == Spec => []TypeOK
<1>1. Inv => TypeOK
  <2> SUFFICES ASSUME Inv PROVE TypeOK
    OBVIOUS
  <2>1. \A c \in Conns, s \in Sides :
          ~Complete(buffer[c][s]) /\ app[c][s] \in {"off", "on", "done", "failed"}
    BY EachFacts DEF Inv, NetInv, StreamInv, AppInv
  <2> QED
    BY <2>1 DEF Inv, NetInv, NetTyped, AppInv, AcceptInv, TypeOK
<1> QED
  BY <1>1, InvHolds, PTL

\* Whatever the messages, the pieces in which their bytes arrive and the
\* moment at which a connection ends, each direction is a queue of whole
\* messages, as in transport/local.py.
THEOREM ImplementsLocalHolds == Spec => ImplementsLocal
<1>1. Init => Local!Init
  BY InitHolds
<1>2. Inv /\ [Next]_vars => [Local!Next]_Local!localVars
  BY NetStep
<1> QED
  BY <1>1, <1>2, InvHolds, PTL DEF Spec, ImplementsLocal, Local!Spec
=============================================================================
