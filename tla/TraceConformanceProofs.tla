----------------------- MODULE TraceConformanceProofs -----------------------
(***************************************************************************)
(* The checks of trace_conformance.py are exact, for every trace and every *)
(* budget: an induction over the trace gives the state of the formal model *)
(* at each place as sets of earlier events, which the checks are about.    *)
(***************************************************************************)
EXTENDS TraceConformance, Integers, FiniteSetTheorems, WellFoundedInduction, TLAPS

\* A set of numbers that is not empty has a least element.
LEMMA Least ==
  ASSUME NEW T, T \subseteq Nat, T # {}
  PROVE  \E x \in T : \A y \in T : x <= y
<1>1. \E x \in T : \A y \in T : ~(<<y, x>> \in OpToRel(<, Nat))
  BY NatLessThanWellFounded, WFMin, Zenon
<1>2. PICK x \in T : \A y \in T : ~(<<y, x>> \in OpToRel(<, Nat))
  BY <1>1
<1>3. ASSUME NEW y \in T PROVE x <= y
  <2>1. ~(<<y, x>> \in {ss \in Nat \X Nat : ss[1] < ss[2]})
    BY <1>2 DEF OpToRel
  <2> QED
    BY <2>1
<1> QED
  BY <1>3

\* A set that has 0 and, with each number below n, the next one, has all
\* numbers up to n.
LEMMA Upwards ==
  ASSUME NEW n \in Nat, NEW T, 0 \in T, \A j \in 1..n : j - 1 \in T => j \in T
  PROVE  0..n \subseteq T
<1> SUFFICES ASSUME ~(0..n \subseteq T) PROVE FALSE
  OBVIOUS
<1> DEFINE U == (0..n) \ T
<1>1. U \subseteq Nat /\ U # {}
  OBVIOUS
<1>2. PICK x \in U : \A y \in U : x <= y
  BY <1>1, Least
<1>3. x \in 1..n /\ x - 1 \in 0..n /\ ~(x <= x - 1)
  BY <1>2
<1>4. x - 1 \in T
  BY <1>2, <1>3
<1> QED
  BY <1>2, <1>3, <1>4

-----------------------------------------------------------------------------
(* The states of the formal model in closed form                           *)

EndOps == {"Expire", "Revoke"}

\* A grant at i and no end after it, up to j.
ActiveSince(t, c, i, j) ==
  /\ i \in 1..j /\ t[i].op = "Issue" /\ t[i].cap = c
  /\ \A k \in (i + 1)..j : ~(t[k].op \in EndOps /\ t[k].cap = c)

ActiveCaps(t, j) == {c \in CapsOf(t) : \E i \in 1..j : ActiveSince(t, c, i, j)}
OverCaps(t, j) == {c \in CapsOf(t) : \E k \in 1..j : t[k].op \in EndOps /\ t[k].cap = c}
Calls(t, c, j) == {i \in 1..j : t[i].op = "Consume" /\ t[i].cap = c}
Grants(t, j) == {t[i] : i \in {k \in 1..j : t[k].op = "Issue"}}
Consumed(t, j) == {<<t[i].sub, t[i].msg>> : i \in {k \in 1..j : t[k].op = "Consume"}}
RevokedKids(t, j) == {t[i].kid : i \in {k \in 1..j : t[k].op = "RevokeKey"}}

ClosedForm(t, j) ==
  [active |-> ActiveCaps(t, j), over |-> OverCaps(t, j), grants |-> Grants(t, j),
   used |-> [c \in CapsOf(t) |-> Cardinality(Calls(t, c, j))],
   consumed |-> Consumed(t, j), kids |-> RevokedKids(t, j)]

LEMMA CallsFinite ==
  ASSUME NEW t, NEW c, NEW j \in Nat
  PROVE  IsFiniteSet(Calls(t, c, j)) /\ Cardinality(Calls(t, c, j)) \in Nat
<1>1. IsFiniteSet(1..j)
  BY FS_Interval
<1>2. Calls(t, c, j) \in SUBSET (1..j)
  BY DEF Calls
<1> QED
  BY <1>1, <1>2, FS_Subset, FS_CardinalityType

\* The closed form before the first event.
LEMMA ClosedFormStart ==
  ASSUME NEW t
  PROVE  ClosedForm(t, 0) = Start(t)
<1>0. 1..0 = {}
  OBVIOUS
<1>1. /\ ActiveCaps(t, 0) = {} /\ OverCaps(t, 0) = {} /\ Grants(t, 0) = {}
      /\ Consumed(t, 0) = {} /\ RevokedKids(t, 0) = {}
  BY <1>0 DEF ActiveCaps, OverCaps, Grants, Consumed, RevokedKids
<1>2. \A c : Cardinality(Calls(t, c, 0)) = 0
  <2> TAKE c
  <2>1. Calls(t, c, 0) = {}
    BY <1>0 DEF Calls
  <2> QED
    BY <2>1, FS_EmptySet
<1> QED
  BY <1>1, <1>2 DEF ClosedForm, Start

\* The closed form after the j-th event.
LEMMA ClosedFormStep ==
  ASSUME NEW S, NEW t \in Seq(S), NEW j \in 1..Len(t)
  PROVE  ClosedForm(t, j) = StepOf(ClosedForm(t, j - 1), t[j])
<1> DEFINE e == t[j]
<1>0. j \in Nat /\ j - 1 \in Nat /\ 1..j = (1..(j - 1)) \cup {j} /\ j \notin 1..(j - 1)
      /\ e.cap \in CapsOf(t)
  BY DEF CapsOf
<1>1. ActiveCaps(t, j) = IF e.op = "Issue" THEN ActiveCaps(t, j - 1) \cup {e.cap}
                         ELSE IF e.op \in EndOps THEN ActiveCaps(t, j - 1) \ {e.cap}
                         ELSE ActiveCaps(t, j - 1)
  <2>1. \A c, i : i \in 1..(j - 1) =>
          (ActiveSince(t, c, i, j) <=> ActiveSince(t, c, i, j - 1) /\ ~(e.op \in EndOps /\ e.cap = c))
    <3> SUFFICES ASSUME NEW c, NEW i \in 1..(j - 1)
                 PROVE  ActiveSince(t, c, i, j) <=> ActiveSince(t, c, i, j - 1) /\ ~(e.op \in EndOps /\ e.cap = c)
      OBVIOUS
    <3>1. (i + 1)..j = ((i + 1)..(j - 1)) \cup {j} /\ i \in 1..j
      BY <1>0
    <3> QED
      BY <3>1 DEF ActiveSince
  <2>2. \A c : ActiveSince(t, c, j, j) <=> e.op = "Issue" /\ e.cap = c
    <3>1. (j + 1)..j = {} /\ j \in 1..j
      BY <1>0
    <3> QED
      BY <3>1 DEF ActiveSince
  <2>3. \A c \in CapsOf(t) :
          c \in ActiveCaps(t, j) <=> \/ c \in ActiveCaps(t, j - 1) /\ ~(e.op \in EndOps /\ e.cap = c)
                                     \/ e.op = "Issue" /\ e.cap = c
    BY <1>0, <2>1, <2>2 DEF ActiveCaps
  <2> QED
    BY <1>0, <2>3 DEF ActiveCaps, EndOps
<1>2. OverCaps(t, j) = IF e.op \in EndOps THEN OverCaps(t, j - 1) \cup {e.cap} ELSE OverCaps(t, j - 1)
  BY <1>0 DEF OverCaps
<1>3. Grants(t, j) = IF e.op = "Issue" THEN Grants(t, j - 1) \cup {e} ELSE Grants(t, j - 1)
  BY <1>0 DEF Grants
<1>4. Consumed(t, j) = IF e.op = "Consume" THEN Consumed(t, j - 1) \cup {<<e.sub, e.msg>>}
                       ELSE Consumed(t, j - 1)
  BY <1>0 DEF Consumed
<1>5. RevokedKids(t, j) = IF e.op = "RevokeKey" THEN RevokedKids(t, j - 1) \cup {e.kid}
                          ELSE RevokedKids(t, j - 1)
  BY <1>0 DEF RevokedKids
<1>6. ASSUME NEW c
      PROVE  Cardinality(Calls(t, c, j)) = IF e.op = "Consume" /\ e.cap = c
                                           THEN Cardinality(Calls(t, c, j - 1)) + 1
                                           ELSE Cardinality(Calls(t, c, j - 1))
  <2>1. /\ Calls(t, c, j) = IF e.op = "Consume" /\ e.cap = c THEN Calls(t, c, j - 1) \cup {j}
                            ELSE Calls(t, c, j - 1)
        /\ j \notin Calls(t, c, j - 1)
    BY <1>0 DEF Calls
  <2> QED
    BY <1>0, <2>1, CallsFinite, FS_AddElement
<1>7. [c \in CapsOf(t) |-> Cardinality(Calls(t, c, j))] =
        LET used == [c \in CapsOf(t) |-> Cardinality(Calls(t, c, j - 1))]
        IN  IF e.op = "Consume" THEN [used EXCEPT ![e.cap] = @ + 1] ELSE used
  BY <1>0, <1>6
<1> HIDE DEF e
<1>8. CASE e.op = "Issue"
  BY <1>8, <1>1, <1>2, <1>3, <1>4, <1>5, <1>7 DEF ClosedForm, StepOf, EndOps, e
<1>9. CASE e.op \in EndOps
  BY <1>9, <1>1, <1>2, <1>3, <1>4, <1>5, <1>7 DEF ClosedForm, StepOf, EndOps, e
<1>10. CASE e.op = "RevokeKey"
  BY <1>10, <1>1, <1>2, <1>3, <1>4, <1>5, <1>7 DEF ClosedForm, StepOf, EndOps, e
<1>11. CASE e.op = "Consume"
  BY <1>11, <1>1, <1>2, <1>3, <1>4, <1>5, <1>7 DEF ClosedForm, StepOf, EndOps, e
<1>12. CASE e.op \notin EndOps \cup {"Issue", "RevokeKey", "Consume"}
  BY <1>12, <1>1, <1>2, <1>3, <1>4, <1>5, <1>7 DEF ClosedForm, StepOf, EndOps, e
<1> QED
  BY <1>8, <1>9, <1>10, <1>11, <1>12

\* The recursion has the closed form as its only solution.
LEMMA StatesAre ==
  ASSUME NEW S, NEW t \in Seq(S), NEW j \in 0..Len(t)
  PROVE  States(t)[j] = ClosedForm(t, j)
<1> DEFINE body(g) == [k \in 0..Len(t) |-> IF k = 0 THEN Start(t) ELSE StepOf(g[k - 1], t[k])]
           W == [k \in 0..Len(t) |-> ClosedForm(t, k)]
           after == CHOOSE g : g = body(g)
<1>n. Len(t) \in Nat
  OBVIOUS
<1>1. States(t) = after
  BY DEF States
<1>2. W = body(W)
  <2>1. ASSUME NEW k \in 0..Len(t)
        PROVE  ClosedForm(t, k) = IF k = 0 THEN Start(t) ELSE StepOf(W[k - 1], t[k])
    <3>1. CASE k = 0
      BY <3>1, ClosedFormStart
    <3>2. CASE k # 0
      <4>1. k \in 1..Len(t) /\ k - 1 \in 0..Len(t)
        BY <1>n, <3>2
      <4> QED
        BY <3>2, <4>1, ClosedFormStep
    <3> QED
      BY <3>1, <3>2
  <2> QED
    BY <2>1
<1> HIDE DEF after
<1>3. after = body(after)
  <2> HIDE DEF body, W
  <2>1. \E g : g = body(g)
    BY <1>2
  <2> QED
    BY <2>1 DEF after
<1>4. \A k \in 0..Len(t) : after[k] = IF k = 0 THEN Start(t) ELSE StepOf(after[k - 1], t[k])
  BY <1>3
<1> DEFINE T == {k \in 0..Len(t) : after[k] = ClosedForm(t, k)}
<1>5. 0 \in T
  BY <1>4, <1>n, ClosedFormStart
<1>6. ASSUME NEW k \in 1..Len(t), k - 1 \in T PROVE k \in T
  <2>1. k \in 0..Len(t) /\ k # 0
    BY <1>n
  <2>2. after[k] = StepOf(ClosedForm(t, k - 1), t[k])
    BY <1>4, <1>6, <2>1
  <2> QED
    BY <2>1, <2>2, ClosedFormStep
<1> HIDE DEF T
<1>7. 0..Len(t) \subseteq T
  BY <1>n, <1>5, <1>6, Upwards
<1> QED
  BY <1>1, <1>7 DEF T

-----------------------------------------------------------------------------
(* The checks and the guards                                               *)

\* Where the formal model lets the events pass, a capability is issued once.
LEMMA IssuedOnce ==
  ASSUME NEW S, NEW t \in Seq(S), LifeCycles(t),
         NEW i \in 1..Len(t), NEW k \in 1..Len(t), i < k,
         t[i].op = "Issue", t[k].op = "Issue", t[i].cap = t[k].cap
  PROVE  FALSE
<1>0. Len(t) \in Nat /\ DOMAIN t = 1..Len(t) /\ k - 1 \in 0..Len(t) /\ i \in 1..(k - 1)
  OBVIOUS
<1> DEFINE c == t[k].cap
<1>1. c \in CapsOf(t)
  BY <1>0 DEF CapsOf
<1>2. MayStep(ClosedForm(t, k - 1), t[k])
  BY <1>0, StatesAre DEF LifeCycles
<1>3. c \notin ActiveCaps(t, k - 1) /\ c \notin OverCaps(t, k - 1)
  BY <1>2 DEF MayStep, ClosedForm
<1>4. \A x \in 1..(k - 1) : ~(t[x].op \in EndOps /\ t[x].cap = c)
  BY <1>1, <1>3 DEF OverCaps
<1>5. \A x \in (i + 1)..(k - 1) : x \in 1..(k - 1)
  BY <1>0
<1>6. ActiveSince(t, c, i, k - 1)
  BY <1>0, <1>4, <1>5 DEF ActiveSince
<1> QED
  BY <1>0, <1>1, <1>3, <1>6 DEF ActiveCaps

\* What the guard of Consume says at place j.
LEMMA ConsumeGuard ==
  ASSUME NEW S, NEW t \in Seq(S), NEW n \in Nat, LifeCycles(t), NEW j \in Consumes(t)
  PROVE  MayConsume(States(t)[j - 1], t[j], n) <=>
           /\ Active(t, j)
           /\ /\ t[j].act \in Grant(t, j).actions
              /\ t[j].sub = Grant(t, j).sub /\ t[j].iss = Grant(t, j).iss
           /\ ~\E i \in 1..(j - 1) : t[i].op = "RevokeKey" /\ t[i].kid = t[j].kid
           /\ Cardinality(Calls(t, t[j].cap, j - 1)) < n
           /\ <<t[j].sub, t[j].msg>> \notin Consumed(t, j - 1)
<1> DEFINE e == t[j]
<1>0. /\ Len(t) \in Nat /\ DOMAIN t = 1..Len(t) /\ j \in 1..Len(t) /\ j - 1 \in 0..Len(t)
      /\ e.cap \in CapsOf(t)
  BY DEF Consumes, CapsOf
<1>1. MayConsume(States(t)[j - 1], e, n) <=>
        /\ e.cap \in ActiveCaps(t, j - 1)
        /\ \A g \in Grants(t, j - 1) :
             g.cap = e.cap => g.sub = e.sub /\ g.iss = e.iss /\ e.act \in g.actions
        /\ e.kid \notin RevokedKids(t, j - 1)
        /\ Cardinality(Calls(t, e.cap, j - 1)) < n
        /\ <<e.sub, e.msg>> \notin Consumed(t, j - 1)
  <2> DEFINE s == ClosedForm(t, j - 1)
  <2>1. States(t)[j - 1] = s
    BY <1>0, StatesAre
  <2>2. /\ s.active = ActiveCaps(t, j - 1) /\ s.grants = Grants(t, j - 1)
        /\ s.consumed = Consumed(t, j - 1) /\ s.kids = RevokedKids(t, j - 1)
        /\ s.used[e.cap] = Cardinality(Calls(t, e.cap, j - 1))
    BY <1>0 DEF ClosedForm
  <2> HIDE DEF s, e
  <2>3. MayConsume(States(t)[j - 1], e, n) <=> MayConsume(s, e, n)
    BY <2>1
  <2> QED
    BY <2>2, <2>3 DEF MayConsume
<1>2. e.cap \in ActiveCaps(t, j - 1) <=> Active(t, j)
  <2>1. ASSUME NEW i \in 1..(j - 1), t[i].op = "Issue", t[i].cap = e.cap
        PROVE  ActiveSince(t, e.cap, i, j - 1) <=>
                 \A k \in Earlier(t, j, "Expire") \cup Earlier(t, j, "Revoke") : k < i
    <3>1. \A k \in 1..(j - 1) : k \in (i + 1)..(j - 1) <=> ~(k < i) /\ k # i
      BY <1>0
    <3>2. \A k \in (i + 1)..(j - 1) : k \in 1..(j - 1)
      BY <1>0
    <3>3. \A k : k \in Earlier(t, j, "Expire") \cup Earlier(t, j, "Revoke") <=>
                   k \in 1..(j - 1) /\ t[k].op \in EndOps /\ t[k].cap = e.cap
      BY DEF Earlier, EndOps
    <3>4. t[i].op \notin EndOps
      BY <2>1 DEF EndOps
    <3> QED
      BY <2>1, <3>1, <3>2, <3>3, <3>4 DEF ActiveSince
  <2>2. \A i : i \in Earlier(t, j, "Issue") <=> i \in 1..(j - 1) /\ t[i].op = "Issue" /\ t[i].cap = e.cap
    BY DEF Earlier
  <2>3. \A i \in 1..(j - 1) : ActiveSince(t, e.cap, i, j - 1) => t[i].op = "Issue" /\ t[i].cap = e.cap
    BY DEF ActiveSince
  <2> QED
    BY <1>0, <2>1, <2>2, <2>3 DEF ActiveCaps, Active
<1>3. ASSUME Active(t, j)
      PROVE  (\A g \in Grants(t, j - 1) :
                g.cap = e.cap => g.sub = e.sub /\ g.iss = e.iss /\ e.act \in g.actions)
             <=> /\ e.act \in Grant(t, j).actions
                 /\ e.sub = Grant(t, j).sub /\ e.iss = Grant(t, j).iss
  <2>1. PICK i \in Earlier(t, j, "Issue") : TRUE
    BY <1>3 DEF Active
  <2>2. i \in 1..(j - 1) /\ t[i].op = "Issue" /\ t[i].cap = e.cap
    BY <2>1 DEF Earlier
  <2>3. ASSUME NEW k \in 1..(j - 1), t[k].op = "Issue", t[k].cap = e.cap PROVE k = i
    <3>1. k \in 1..Len(t) /\ i \in 1..Len(t) /\ (k = i \/ k < i \/ i < k)
      BY <1>0, <2>2
    <3> QED
      BY <2>2, <2>3, <3>1, IssuedOnce
  <2>4. Earlier(t, j, "Issue") = {i} /\ i <= i
    BY <2>1, <2>2, <2>3 DEF Earlier
  <2>5. Grant(t, j) = t[i]
    BY <2>4 DEF Grant
  <2>6. \A g : g \in Grants(t, j - 1) /\ g.cap = e.cap <=> g = t[i]
    BY <2>2, <2>3 DEF Grants
  <2> QED
    BY <2>5, <2>6
<1>4. e.kid \in RevokedKids(t, j - 1) <=>
        \E i \in 1..(j - 1) : t[i].op = "RevokeKey" /\ t[i].kid = e.kid
  BY DEF RevokedKids
<1> HIDE DEF e
<1> QED
  BY <1>1, <1>2, <1>3, <1>4 DEF e

\* No call is made twice, seen from each call or from all of them.
LEMMA ReplayGuard ==
  ASSUME NEW S, NEW t \in Seq(S)
  PROVE  CheckReplay(t) <=> \A j \in Consumes(t) : <<t[j].sub, t[j].msg>> \notin Consumed(t, j - 1)
<1>0. Len(t) \in Nat /\ \A j : j \in Consumes(t) <=> j \in 1..Len(t) /\ t[j].op = "Consume"
  BY DEF Consumes
<1>1. \A j \in Consumes(t) : \A x :
        x \in Consumed(t, j - 1) <=>
          \E i \in Consumes(t) : i < j /\ x = <<t[i].sub, t[i].msg>>
  <2> TAKE j \in Consumes(t)
  <2>1. \A i : i \in Consumes(t) /\ i < j <=> i \in 1..(j - 1) /\ t[i].op = "Consume"
    BY <1>0
  <2> QED
    BY <2>1 DEF Consumed
<1>2. \A i, j \in Consumes(t) : i # j => i < j \/ j < i
  BY <1>0
<1>3. \A i, j \in Consumes(t) : i < j => i # j
  BY <1>0
<1>4. ASSUME CheckReplay(t), NEW j \in Consumes(t)
      PROVE  <<t[j].sub, t[j].msg>> \notin Consumed(t, j - 1)
  <2> SUFFICES ASSUME <<t[j].sub, t[j].msg>> \in Consumed(t, j - 1) PROVE FALSE
    OBVIOUS
  <2>1. PICK i \in Consumes(t) : i < j /\ <<t[j].sub, t[j].msg>> = <<t[i].sub, t[i].msg>>
    BY <1>1
  <2>2. i # j
    BY <1>3, <2>1
  <2> QED
    BY <1>4, <2>1, <2>2 DEF CheckReplay
<1>5. ASSUME \A j \in Consumes(t) : <<t[j].sub, t[j].msg>> \notin Consumed(t, j - 1),
             NEW i \in Consumes(t), NEW j \in Consumes(t), i # j
      PROVE  <<t[i].sub, t[i].msg>> # <<t[j].sub, t[j].msg>>
  <2>1. ASSUME NEW x \in Consumes(t), NEW y \in Consumes(t), x < y
        PROVE  <<t[x].sub, t[x].msg>> # <<t[y].sub, t[y].msg>>
    BY <1>1, <1>5, <2>1
  <2> QED
    BY <1>2, <1>5, <2>1
<1> QED
  BY <1>4, <1>5 DEF CheckReplay

\* The budget, seen from each call or from all of them.
LEMMA BudgetGuard ==
  ASSUME NEW S, NEW t \in Seq(S), NEW n \in Nat
  PROVE  CheckBudget(t, n) <=> \A j \in Consumes(t) : Cardinality(Calls(t, t[j].cap, j - 1)) < n
<1>0. Len(t) \in Nat /\ \A j : j \in Consumes(t) <=> j \in 1..Len(t) /\ t[j].op = "Consume"
  BY DEF Consumes
<1>1. \A c : {i \in Consumes(t) : t[i].cap = c} = Calls(t, c, Len(t))
  BY <1>0 DEF Calls
<1>2. ASSUME NEW j \in Consumes(t)
      PROVE  Cardinality(Calls(t, t[j].cap, j)) = Cardinality(Calls(t, t[j].cap, j - 1)) + 1
  <2>1. j \in Nat /\ j - 1 \in Nat /\ 1..j = (1..(j - 1)) \cup {j} /\ j \notin 1..(j - 1)
    BY <1>0
  <2>2. /\ Calls(t, t[j].cap, j) = Calls(t, t[j].cap, j - 1) \cup {j}
        /\ j \notin Calls(t, t[j].cap, j - 1)
    BY <1>0, <2>1 DEF Calls
  <2> QED
    BY <2>1, <2>2, CallsFinite, FS_AddElement
<1>3. ASSUME CheckBudget(t, n), NEW j \in Consumes(t)
      PROVE  Cardinality(Calls(t, t[j].cap, j - 1)) < n
  <2> DEFINE c == t[j].cap
  <2>1. Cardinality(Calls(t, c, Len(t))) <= n
    BY <1>1, <1>3 DEF CheckBudget
  <2>2. j \in 1..Len(t) /\ j \in Nat /\ j - 1 \in Nat /\ 1..j \subseteq 1..Len(t)
    BY <1>0
  <2>3. Calls(t, c, j) \in SUBSET Calls(t, c, Len(t))
    BY <2>2 DEF Calls
  <2>4. Cardinality(Calls(t, c, j)) <= Cardinality(Calls(t, c, Len(t)))
    BY <1>0, <2>3, CallsFinite, FS_Subset
  <2>5. /\ Cardinality(Calls(t, c, j)) \in Nat /\ Cardinality(Calls(t, c, j - 1)) \in Nat
        /\ Cardinality(Calls(t, c, Len(t))) \in Nat
    BY <1>0, <2>2, CallsFinite
  <2>6. Cardinality(Calls(t, c, j)) = Cardinality(Calls(t, c, j - 1)) + 1
    BY <1>2
  <2> HIDE DEF c
  <2> QED
    BY <2>1, <2>4, <2>5, <2>6 DEF c
<1>4. ASSUME \A j \in Consumes(t) : Cardinality(Calls(t, t[j].cap, j - 1)) < n, NEW c
      PROVE  Cardinality(Calls(t, c, Len(t))) <= n
  <2> DEFINE T == {k \in 0..Len(t) : Cardinality(Calls(t, c, k)) <= n}
  <2>1. 0 \in T
    <3>1. Calls(t, c, 0) = {}
      BY DEF Calls
    <3>2. Cardinality(Calls(t, c, 0)) = 0
      BY <3>1, FS_EmptySet
    <3> QED
      BY <1>0, <3>2
  <2>2. ASSUME NEW k \in 1..Len(t), k - 1 \in T PROVE k \in T
    <3>1. k \in 0..Len(t) /\ k - 1 \in Nat /\ k \in Nat /\ 1..k = (1..(k - 1)) \cup {k}
      BY <1>0
    <3>2. CASE k \in Consumes(t) /\ t[k].cap = c
      <4>1. Cardinality(Calls(t, c, k)) = Cardinality(Calls(t, c, k - 1)) + 1
        BY <1>2, <3>2
      <4>2. Cardinality(Calls(t, c, k - 1)) < n /\ Cardinality(Calls(t, c, k - 1)) \in Nat
        BY <1>4, <3>1, <3>2, CallsFinite
      <4> QED
        BY <3>1, <4>1, <4>2
    <3>3. CASE ~(k \in Consumes(t) /\ t[k].cap = c)
      <4>1. Calls(t, c, k) = Calls(t, c, k - 1)
        BY <1>0, <3>1, <3>3 DEF Calls
      <4> QED
        BY <2>2, <3>1, <4>1
    <3> QED
      BY <3>2, <3>3
  <2> HIDE DEF T
  <2>3. 0..Len(t) \subseteq T
    BY <1>0, <2>1, <2>2, Upwards
  <2>4. Len(t) \in T
    BY <1>0, <2>3
  <2> QED
    BY <2>4 DEF T
<1> QED
  BY <1>1, <1>3, <1>4 DEF CheckBudget

\* Where each capability is issued once and ends once, check_trace_invariants
\* accepts exactly the traces whose calls are steps of the formal model.
THEOREM ChecksAreExact ==
  ASSUME NEW S, NEW t \in Seq(S), NEW n \in Nat, LifeCycles(t)
  PROVE  Conforms(t, n) <=> Allowed(t, n)
<1>1. Allowed(t, n) <=>
        \A j \in Consumes(t) :
           /\ Active(t, j)
           /\ /\ t[j].act \in Grant(t, j).actions
              /\ t[j].sub = Grant(t, j).sub /\ t[j].iss = Grant(t, j).iss
           /\ ~\E i \in 1..(j - 1) : t[i].op = "RevokeKey" /\ t[i].kid = t[j].kid
           /\ Cardinality(Calls(t, t[j].cap, j - 1)) < n
           /\ <<t[j].sub, t[j].msg>> \notin Consumed(t, j - 1)
  BY ConsumeGuard DEF Allowed
<1>2. \A j \in Consumes(t) : Active(t, j) => Issued(t, j)
  BY DEF Active, Issued
<1> QED
  BY <1>1, <1>2, ReplayGuard, BudgetGuard
  DEF Conforms, CheckUnissued, CheckActionInGrant, CheckSubjectMatch, CheckIssuerMatch,
      CheckTerminal, CheckRevokedKey
=============================================================================
