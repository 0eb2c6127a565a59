---------------------------- MODULE Planner_proofs ----------------------------
(***************************************************************************)
(* What the planner returns: a plan has exactly the changes that were      *)
(* added to it as its steps, runs those of one component in the order of   *)
(* their priority, and has, for every component, the changes that make it  *)
(* what the source says, in an order the file system accepts.              *)
(***************************************************************************)
EXTENDS Materia, FiniteSetTheorems, SequenceTheorems, TLAPS

-----------------------------------------------------------------------------
(* Ordered *)

LinearOn(S, R) ==
    /\ \A x \in S : <<x, x>> \notin R
    /\ \A x, y, z \in S : <<x, y>> \in R /\ <<y, z>> \in R => <<x, z>> \in R
    /\ \A x, y \in S : x = y \/ <<x, y>> \in R \/ <<y, x>> \in R

Below(S, R, e) == {x \in S : <<x, e>> \in R}

(* The rank of an element grows with the element.                          *)
LEMMA RankGrows ==
  ASSUME NEW S, IsFiniteSet(S), NEW R, LinearOn(S, R),
         NEW x \in S, NEW y \in S, <<x, y>> \in R
  PROVE  /\ Cardinality(Below(S, R, x)) \in Nat
         /\ Cardinality(Below(S, R, y)) \in Nat
         /\ Cardinality(Below(S, R, x)) < Cardinality(Below(S, R, y))
<1> DEFINE X == Below(S, R, x)
           Y == Below(S, R, y)
<1>1. IsFiniteSet(X) /\ IsFiniteSet(Y)
  BY FS_Subset DEF Below
<1>2. X \subseteq Y /\ X # Y
  BY DEF Below, LinearOn
<1>3. Cardinality(X) \in Nat /\ Cardinality(Y) \in Nat
  BY <1>1, FS_CardinalityType
<1>4. Cardinality(X) <= Cardinality(Y) /\ Cardinality(X) # Cardinality(Y)
  BY <1>1, <1>2, FS_Subset
<1>. HIDE DEF X, Y
<1>5. Cardinality(X) < Cardinality(Y)
  BY <1>3, <1>4
<1>6. QED
  BY <1>3, <1>5 DEF X, Y

(* Every rank below the number of elements is that of an element.          *)
LEMMA RanksAreTaken ==
  ASSUME NEW S, IsFiniteSet(S), NEW R, LinearOn(S, R)
  PROVE  /\ Cardinality(S) \in Nat
         /\ \A e \in S : Cardinality(Below(S, R, e)) \in 0..(Cardinality(S) - 1)
         /\ \A k \in 1..Cardinality(S) : \E e \in S : Cardinality(Below(S, R, e)) = k - 1
<1> DEFINE n == Cardinality(S)
           rank == [e \in S |-> Cardinality(Below(S, R, e))]
<1>1. n \in Nat
  BY FS_CardinalityType
<1>2. ASSUME NEW e \in S PROVE rank[e] \in 0..(n - 1)
  <2>1. IsFiniteSet(Below(S, R, e)) /\ Cardinality(Below(S, R, e)) <= n
    BY FS_Subset DEF Below
  <2>2. Below(S, R, e) # S
    BY DEF Below, LinearOn
  <2>3. Cardinality(Below(S, R, e)) # n
    BY <2>2, FS_Subset DEF Below
  <2>4. Cardinality(Below(S, R, e)) \in Nat
    BY <2>1, FS_CardinalityType
  <2>. HIDE DEF n
  <2>5. Cardinality(Below(S, R, e)) \in 0..(n - 1)
    BY <1>1, <2>1, <2>3, <2>4
  <2>6. QED
    BY <2>5
<1>3. ASSUME NEW x \in S, NEW y \in S, x # y PROVE rank[x] # rank[y]
  <2>1. <<x, y>> \in R \/ <<y, x>> \in R
    BY <1>3 DEF LinearOn
  <2>2. CASE <<x, y>> \in R
    BY <2>2, RankGrows
  <2>3. CASE <<y, x>> \in R
    BY <2>3, RankGrows
  <2>4. QED
    BY <2>1, <2>2, <2>3
<1>4. rank \in Injection(S, 0..(n - 1))
  BY <1>2, <1>3 DEF Injection, IsInjective
<1>5. IsFiniteSet(0..(n - 1)) /\ Cardinality(0..(n - 1)) = n
  <2>. HIDE DEF n
  <2>1. n - 1 \in Int /\ 0 \in Int
    BY <1>1
  <2>2. Cardinality(0..(n - 1)) = IF 0 > n - 1 THEN 0 ELSE n - 1 - 0 + 1
    BY <2>1, FS_Interval
  <2>3. QED
    BY <1>1, <2>1, <2>2, FS_Interval
<1>6. rank \in Surjection(S, 0..(n - 1))
  BY <1>4, <1>5, FS_Injection
<1>7. ASSUME NEW k \in 1..n PROVE \E e \in S : rank[e] = k - 1
  <2>1. k - 1 \in 0..(n - 1)
    BY <1>1
  <2>2. QED
    BY <1>6, <2>1 DEF Surjection
<1>8. QED
  BY <1>1, <1>2, <1>7

(* A finite set in a linear order of it: a sequence of its elements, every  *)
(* one of them, each before those the order has after it.                  *)
THEOREM OrderedLists ==
  ASSUME NEW S, IsFiniteSet(S), NEW R, LinearOn(S, R)
  PROVE  LET s == Ordered(S, R) IN
         /\ Cardinality(S) \in Nat
         /\ s \in [1..Cardinality(S) -> S]
         /\ \A e \in S : \E k \in DOMAIN s : s[k] = e
         /\ \A j, k \in DOMAIN s : j < k => <<s[j], s[k]>> \in R
<1> DEFINE n == Cardinality(S)
           rank == [e \in S |-> Cardinality(Below(S, R, e))]
           s == Ordered(S, R)
<1>1. n \in Nat
  BY FS_CardinalityType
<1>2. s = [k \in 1..n |-> CHOOSE e \in S : rank[e] = k - 1]
  BY DEF Ordered, Below
<1>3. ASSUME NEW k \in 1..n PROVE s[k] \in S /\ rank[s[k]] = k - 1
  <2>1. \E e \in S : rank[e] = k - 1
    BY RanksAreTaken
  <2>2. s[k] = CHOOSE e \in S : rank[e] = k - 1
    BY <1>2
  <2>. HIDE DEF s, rank
  <2>3. QED
    BY <2>1, <2>2
<1>4. s \in [1..n -> S]
  BY <1>2, <1>3
<1>5. ASSUME NEW x \in S, NEW y \in S, rank[x] = rank[y] PROVE x = y
  <2>1. SUFFICES ASSUME <<x, y>> \in R \/ <<y, x>> \in R PROVE FALSE
    BY DEF LinearOn
  <2>2. CASE <<x, y>> \in R
    BY <1>5, <2>2, RankGrows
  <2>3. CASE <<y, x>> \in R
    BY <1>5, <2>3, RankGrows
  <2>4. QED
    BY <2>1, <2>2, <2>3
<1>6. ASSUME NEW e \in S PROVE \E k \in 1..n : s[k] = e
  <2>1. rank[e] \in 0..(n - 1)
    BY RanksAreTaken
  <2>2. PICK k \in 1..n : k - 1 = rank[e]
    <3>. HIDE DEF rank, n
    <3>1. rank[e] + 1 \in 1..n
      BY <1>1, <2>1
    <3>2. QED
      BY <2>1, <3>1
  <2>3. QED
    BY <1>3, <1>5, <2>2
<1>7. ASSUME NEW j \in 1..n, NEW k \in 1..n, j < k PROVE <<s[j], s[k]>> \in R
  <2>1. s[j] \in S /\ s[k] \in S /\ rank[s[j]] = j - 1 /\ rank[s[k]] = k - 1
    BY <1>3
  <2>2. SUFFICES ASSUME s[j] = s[k] \/ <<s[k], s[j]>> \in R PROVE FALSE
    BY <2>1 DEF LinearOn
  <2>3. CASE s[j] = s[k]
    BY <1>1, <1>7, <2>1, <2>3
  <2>4. CASE <<s[k], s[j]>> \in R
    <3>1. rank[s[k]] < rank[s[j]]
      BY <2>1, <2>4, RankGrows
    <3>2. QED
      BY <1>1, <1>7, <2>1, <3>1
  <2>5. QED
    BY <2>2, <2>3, <2>4
<1>8. QED
  BY <1>1, <1>4, <1>6, <1>7

-----------------------------------------------------------------------------
(* Steps *)

(* The changes of finitely many components, each a sequence.               *)
IsChanges(changes) ==
    /\ IsFiniteSet(DOMAIN changes) /\ DOMAIN changes \subseteq Nat \ {0}
    /\ \A c \in DOMAIN changes :
          /\ \E n \in Nat : DOMAIN changes[c] = 1..n
          /\ \A i \in DOMAIN changes[c] : /\ changes[c][i].prio \in Nat
                                           /\ changes[c][i].path \in Nat

LEMMA ChangeNames ==
  ASSUME NEW changes, IsChanges(changes), NEW l, NEW x \in ChangesOn(changes, l)
  PROVE  /\ x = <<x[1], x[2]>>
         /\ x[1] \in DOMAIN changes /\ x[1] \in Nat \ {0}
         /\ x[2] \in DOMAIN changes[x[1]] /\ x[2] \in Nat
         /\ x # ReloadStep
         /\ ChangeAt(changes, x) = changes[x[1]][x[2]]
         /\ ChangeAt(changes, x).list = l
         /\ PrioOf(changes, x) \in Nat
         /\ ChangeAt(changes, x).path \in Nat
<1>1. PICK c \in DOMAIN changes : x \in {c} \X DOMAIN changes[c]
  BY DEF ChangesOn
<1>2. x = <<x[1], x[2]>> /\ x[1] = c /\ x[2] \in DOMAIN changes[c]
  BY <1>1
<1>3. c \in Nat \ {0} /\ x[2] \in Nat
  BY <1>2 DEF IsChanges
<1>4. x # ReloadStep
  BY <1>2, <1>3 DEF ReloadStep
<1>5. changes[x[1]][x[2]].list = l
  BY DEF ChangesOn
<1>6. QED
  BY <1>2, <1>3, <1>4, <1>5 DEF IsChanges, ChangeAt, PrioOf

LEMMA NamedChanges ==
  ASSUME NEW changes, NEW c \in DOMAIN changes, NEW i \in DOMAIN changes[c]
  PROVE  <<c, i>> \in ChangesOn(changes, changes[c][i].list)
BY DEF ChangesOn

LEMMA ChangesFinite ==
  ASSUME NEW changes, IsChanges(changes), NEW l
  PROVE  IsFiniteSet(ChangesOn(changes, l))
<1> DEFINE D == DOMAIN changes
           T == {{c} \X DOMAIN changes[c] : c \in D}
           f == [c \in D |-> {c} \X DOMAIN changes[c]]
<1>1. ASSUME NEW c \in D PROVE IsFiniteSet({c} \X DOMAIN changes[c])
  <2>1. PICK n \in Nat : DOMAIN changes[c] = 1..n
    BY DEF IsChanges
  <2>2. IsFiniteSet(1..n)
    BY FS_Interval
  <2>3. IsFiniteSet({c})
    BY FS_Singleton
  <2>4. QED
    BY <2>1, <2>2, <2>3, FS_Product
<1>2. f \in Surjection(D, T)
  BY DEF Surjection
<1>3. IsFiniteSet(T)
  BY <1>2, FS_Surjection DEF IsChanges
<1>4. IsFiniteSet(UNION T)
  BY <1>1, <1>3, FS_UNION
<1>5. ChangesOn(changes, l) \subseteq UNION T
  BY DEF ChangesOn
<1>6. QED
  BY <1>4, <1>5, FS_Subset

(* The two lists are linear orders.                                        *)
LEMMA ResourcesLinear ==
  ASSUME NEW changes, IsChanges(changes), NEW reload \in BOOLEAN,
         NEW x \in ResourceChanges(changes, reload),
         NEW y \in ResourceChanges(changes, reload),
         NEW z \in ResourceChanges(changes, reload)
  PROVE  /\ ~ResourceBefore(changes, x, x)
         /\ ResourceBefore(changes, x, y) /\ ResourceBefore(changes, y, z)
                => ResourceBefore(changes, x, z)
         /\ x = y \/ ResourceBefore(changes, x, y) \/ ResourceBefore(changes, y, x)
         /\ PrioOf(changes, x) \in Nat
<1>1. ASSUME NEW w \in ResourceChanges(changes, reload)
      PROVE  /\ PrioOf(changes, w) \in Nat
             /\ w # ReloadStep => w = <<w[1], w[2]>> /\ w[1] \in Nat /\ w[2] \in Nat
  <2>1. CASE w = ReloadStep
    BY <2>1 DEF PrioOf, ChangeAt, HostReload
  <2>2. CASE w # ReloadStep
    BY <2>2, ChangeNames DEF ResourceChanges
  <2>3. QED
    BY <2>1, <2>2
<1>2. ~ResourceBefore(changes, x, x)
  BY <1>1 DEF ResourceBefore
<1>3. ResourceBefore(changes, x, y) /\ ResourceBefore(changes, y, z)
          => ResourceBefore(changes, x, z)
  BY <1>1 DEF ResourceBefore
<1>4. x = y \/ ResourceBefore(changes, x, y) \/ ResourceBefore(changes, y, x)
  BY <1>1 DEF ResourceBefore
<1>5. QED
  BY <1>1, <1>2, <1>3, <1>4

LEMMA ServicesLinear ==
  ASSUME NEW changes, IsChanges(changes),
         NEW x \in ServiceChanges(changes), NEW y \in ServiceChanges(changes),
         NEW z \in ServiceChanges(changes)
  PROVE  /\ ~ServiceBefore(changes, x, x)
         /\ ServiceBefore(changes, x, y) /\ ServiceBefore(changes, y, z)
                => ServiceBefore(changes, x, z)
         /\ x = y \/ ServiceBefore(changes, x, y) \/ ServiceBefore(changes, y, x)
         /\ PrioOf(changes, x) \in Nat
<1>1. ASSUME NEW w \in ServiceChanges(changes)
      PROVE  /\ PrioOf(changes, w) \in Nat /\ ChangeAt(changes, w).path \in Nat
             /\ w = <<w[1], w[2]>> /\ w[1] \in Nat /\ w[2] \in Nat
             /\ ChangeAt(changes, w) = changes[w[1]][w[2]]
             /\ w \in ChangesOn(changes, "service") /\ Kept(changes, w)
  BY ChangeNames DEF ServiceChanges
<1>2. ~ServiceBefore(changes, x, x)
  BY <1>1 DEF ServiceBefore
<1>3. ServiceBefore(changes, x, y) /\ ServiceBefore(changes, y, z)
          => ServiceBefore(changes, x, z)
  BY <1>1 DEF ServiceBefore
<1>4. ASSUME x[1] = y[1], ChangeAt(changes, x).path = ChangeAt(changes, y).path
      PROVE  x = y
  <2>1. \A t : EndOf(t) \in Nat
    BY DEF EndOf
  <2>2. x[2] <= y[2] /\ y[2] <= x[2]
    BY <1>1, <1>4, <2>1 DEF Kept
  <2>3. QED
    BY <1>1, <1>4, <2>2
<1>5. x = y \/ ServiceBefore(changes, x, y) \/ ServiceBefore(changes, y, x)
  BY <1>1, <1>4 DEF ServiceBefore
<1>6. QED
  BY <1>1, <1>2, <1>3, <1>5

(* Whether a service change goes before a resource change depends on       *)
(* nothing but where each is in its own list.                              *)
LEMMA FirstIsMonotone ==
  ASSUME NEW changes, IsChanges(changes), NEW reload \in BOOLEAN,
         NEW x \in ServiceChanges(changes), NEW x2 \in ServiceChanges(changes),
         NEW y \in ResourceChanges(changes, reload),
         NEW y2 \in ResourceChanges(changes, reload),
         ServiceFirst(changes, ResourceChanges(changes, reload), x, y)
  PROVE  /\ ResourceBefore(changes, y, y2)
                => ServiceFirst(changes, ResourceChanges(changes, reload), x, y2)
         /\ ServiceBefore(changes, x2, x)
                => ServiceFirst(changes, ResourceChanges(changes, reload), x2, y)
         /\ ~ServiceFirst(changes, ResourceChanges(changes, reload), x2, y)
                => ServiceBefore(changes, x, x2)
         /\ ~ServiceFirst(changes, ResourceChanges(changes, reload), x, y2)
                => ResourceBefore(changes, y2, y)
<1> DEFINE RC == ResourceChanges(changes, reload)
<1>1. PICK z \in RC : /\ z = y \/ ResourceBefore(changes, z, y)
                      /\ PrioOf(changes, x) <= PrioOf(changes, z)
  BY DEF ServiceFirst
<1>2. PrioOf(changes, z) \in Nat /\ PrioOf(changes, x) \in Nat /\ PrioOf(changes, x2) \in Nat
  BY ResourcesLinear, ServicesLinear
<1>3. ResourceBefore(changes, y, y2) => ServiceFirst(changes, RC, x, y2)
  <2>1. ResourceBefore(changes, y, y2) => ResourceBefore(changes, z, y2)
    BY <1>1, ResourcesLinear
  <2>2. QED
    BY <1>1, <2>1 DEF ServiceFirst
<1>4. ASSUME PrioOf(changes, x2) <= PrioOf(changes, x) PROVE ServiceFirst(changes, RC, x2, y)
  <2>1. PrioOf(changes, x2) <= PrioOf(changes, z)
    BY <1>1, <1>2, <1>4
  <2>2. QED
    BY <1>1, <2>1 DEF ServiceFirst
<1>5. ServiceBefore(changes, x2, x) => PrioOf(changes, x2) <= PrioOf(changes, x)
  BY <1>2 DEF ServiceBefore
<1>6. ~ServiceFirst(changes, RC, x2, y) => ServiceBefore(changes, x, x2)
  BY <1>2, <1>4 DEF ServiceBefore
<1>7. ASSUME ~ServiceFirst(changes, RC, x, y2) PROVE ResourceBefore(changes, y2, y)
  <2>1. y # y2 /\ ~ResourceBefore(changes, y, y2)
    BY <1>3, <1>7
  <2>2. QED
    BY <2>1, ResourcesLinear
<1>8. QED
  BY <1>3, <1>4, <1>5, <1>6, <1>7

AllChanges(changes, reload) == ResourceChanges(changes, reload) \cup ServiceChanges(changes)

(* Merged, the two lists are a linear order.                               *)
LEMMA MergeLinear ==
  ASSUME NEW changes, IsChanges(changes), NEW reload \in BOOLEAN
  PROVE  LET all == AllChanges(changes, reload) IN
         /\ IsFiniteSet(all)
         /\ LinearOn(all, {p \in all \X all :
               StepBefore(changes, ResourceChanges(changes, reload), p[1], p[2])})
<1> DEFINE RC == ResourceChanges(changes, reload)
           SC == ServiceChanges(changes)
           all == AllChanges(changes, reload)
           Before(x, y) == StepBefore(changes, RC, x, y)
           R == {p \in all \X all : StepBefore(changes, RC, p[1], p[2])}
<1>1. IsFiniteSet(all)
  <2>1. IsFiniteSet(RC)
    <3>1. IsFiniteSet(ChangesOn(changes, "resource")) /\ IsFiniteSet({ReloadStep})
      BY ChangesFinite, FS_Singleton
    <3>2. IsFiniteSet(ChangesOn(changes, "resource") \cup {ReloadStep})
      BY <3>1, FS_Union
    <3>3. RC \subseteq ChangesOn(changes, "resource") \cup {ReloadStep}
      BY DEF ResourceChanges
    <3>4. QED
      BY <3>2, <3>3, FS_Subset
  <2>2. IsFiniteSet(SC)
    BY ChangesFinite, FS_Subset DEF ServiceChanges
  <2>3. QED
    BY <2>1, <2>2, FS_Union DEF AllChanges
<1>2. RC \cap SC = {}
  BY ChangeNames DEF ResourceChanges, ServiceChanges, ChangesOn
<1>3. ASSUME NEW x \in all, NEW y \in all
      PROVE  /\ x \in RC /\ y \in RC => (Before(x, y) <=> ResourceBefore(changes, x, y))
             /\ x \in SC /\ y \in SC => (Before(x, y) <=> ServiceBefore(changes, x, y))
             /\ x \in RC /\ y \in SC => (Before(x, y) <=> ~ServiceFirst(changes, RC, y, x))
             /\ x \in SC /\ y \in RC => (Before(x, y) <=> ServiceFirst(changes, RC, x, y))
             /\ <<x, y>> \in R <=> Before(x, y)
  BY <1>2 DEF StepBefore
<1>. HIDE DEF Before, R
<1>4. ASSUME NEW x \in all PROVE ~Before(x, x)
  BY <1>3, ResourcesLinear, ServicesLinear DEF AllChanges
<1>5. ASSUME NEW x \in all, NEW y \in all PROVE x = y \/ Before(x, y) \/ Before(y, x)
  BY <1>3, ResourcesLinear, ServicesLinear DEF AllChanges
<1>6. ASSUME NEW x \in all, NEW y \in all, NEW z \in all, Before(x, y), Before(y, z)
      PROVE  Before(x, z)
  <2>1. CASE x \in RC /\ y \in RC /\ z \in RC
    BY <1>3, <1>6, <2>1, ResourcesLinear
  <2>2. CASE x \in SC /\ y \in SC /\ z \in SC
    BY <1>3, <1>6, <2>2, ServicesLinear
  <2>3. CASE x \in RC /\ y \in RC /\ z \in SC
    BY <1>3, <1>6, <2>3, FirstIsMonotone
  <2>4. CASE x \in RC /\ y \in SC /\ z \in RC
    BY <1>3, <1>6, <2>4, FirstIsMonotone
  <2>5. CASE x \in SC /\ y \in RC /\ z \in RC
    BY <1>3, <1>6, <2>5, FirstIsMonotone
  <2>6. CASE x \in SC /\ y \in SC /\ z \in RC
    BY <1>3, <1>6, <2>6, FirstIsMonotone
  <2>7. CASE x \in SC /\ y \in RC /\ z \in SC
    BY <1>3, <1>6, <2>7, FirstIsMonotone
  <2>8. CASE x \in RC /\ y \in SC /\ z \in SC
    BY <1>3, <1>6, <2>8, FirstIsMonotone
  <2>9. QED
    BY <2>1, <2>2, <2>3, <2>4, <2>5, <2>6, <2>7, <2>8 DEF AllChanges
<1>7. LinearOn(all, R)
  BY <1>3, <1>4, <1>5, <1>6 DEF LinearOn
<1>8. QED
  BY <1>1, <1>7 DEF R

(* A plan runs what was added to it: its steps are a sequence, every one   *)
(* of them a change that was added or the daemon-reload, every change but  *)
(* the ones of a service that coalescing drops is among them, and each     *)
(* comes once, since the order of the merge is strict.                     *)
THEOREM StepsOfChanges ==
  ASSUME NEW changes, IsChanges(changes), NEW reload \in BOOLEAN
  PROVE  LET order == StepOrder(changes, reload)
             steps == Steps(changes, reload)
         IN
         /\ \E n \in Nat : steps \in [1..n -> {ChangeAt(changes, x) : x \in AllChanges(changes, reload)}]
                           /\ DOMAIN order = 1..n
         /\ \A k \in DOMAIN steps : /\ order[k] \in AllChanges(changes, reload)
                                    /\ steps[k] = ChangeAt(changes, order[k])
         /\ \A x \in AllChanges(changes, reload) : \E k \in DOMAIN steps : order[k] = x
         /\ \A j, k \in DOMAIN steps : j < k =>
               /\ order[j] # order[k]
               /\ StepBefore(changes, ResourceChanges(changes, reload), order[j], order[k])
<1> DEFINE RC == ResourceChanges(changes, reload)
           all == AllChanges(changes, reload)
           R == {p \in all \X all : StepBefore(changes, RC, p[1], p[2])}
           order == StepOrder(changes, reload)
           steps == Steps(changes, reload)
<1>1. IsFiniteSet(all) /\ LinearOn(all, R)
  BY MergeLinear
<1>2. order = Ordered(all, R)
  BY DEF StepOrder, AllChanges
<1>. HIDE DEF R, all, order
<1>3. /\ Cardinality(all) \in Nat
      /\ order \in [1..Cardinality(all) -> all]
      /\ \A x \in all : \E k \in DOMAIN order : order[k] = x
      /\ \A j, k \in DOMAIN order : j < k => <<order[j], order[k]>> \in R
  BY <1>1, <1>2, OrderedLists
<1>4. steps = [k \in DOMAIN order |-> ChangeAt(changes, order[k])]
  BY DEF Steps, MapSeq, order
<1>5. steps \in [1..Cardinality(all) -> {ChangeAt(changes, x) : x \in all}]
  BY <1>3, <1>4
<1>6. ASSUME NEW j \in DOMAIN order, NEW k \in DOMAIN order, j < k
      PROVE  order[j] # order[k] /\ StepBefore(changes, RC, order[j], order[k])
  <2>1. <<order[j], order[k]>> \in R
    BY <1>3, <1>6
  <2>2. order[j] # order[k]
    BY <1>1, <1>3, <2>1 DEF LinearOn
  <2>3. StepBefore(changes, RC, order[j], order[k])
    BY <2>1 DEF R
  <2>4. QED
    BY <2>2, <2>3
<1>. HIDE DEF steps
<1>7. QED
  BY <1>3, <1>4, <1>5, <1>6 DEF all, order, steps

-----------------------------------------------------------------------------
(* The lists a plan is made from *)

IsListing(S, s) ==
    /\ Cardinality(S) \in Nat
    /\ s \in [1..Cardinality(S) -> S]
    /\ \A e \in S : \E k \in 1..Cardinality(S) : s[k] = e

LEMMA PathsAreNumbers ==
  ASSUME NEW S \in SUBSET Paths
  PROVE  IsFiniteSet(S) /\ S \subseteq Nat
BY RepositoryAssumption, FS_Subset

LEMMA ListedByName ==
  ASSUME NEW S \in SUBSET Paths
  PROVE  IsListing(S, ByName(S))
<1> DEFINE R == {p \in S \X S : p[1] < p[2]}
<1>1. LinearOn(S, R)
  BY PathsAreNumbers DEF LinearOn
<1>2. ByName(S) = Ordered(S, R)
  BY DEF ByName, InOrder
<1>. HIDE DEF R
<1>3. QED
  BY <1>1, <1>2, OrderedLists, PathsAreNumbers DEF IsListing

LEMMA HostOrderLinear ==
  ASSUME NEW p \in Paths, NEW q \in Paths, NEW r \in Paths
  PROVE  /\ ~HostOrder(p, p)
         /\ HostOrder(p, q) /\ HostOrder(q, r) => HostOrder(p, r)
         /\ p = q \/ HostOrder(p, q) \/ HostOrder(q, p)
BY PathsAreNumbers DEF HostOrder

LEMMA ListedOnHost ==
  ASSUME NEW S \in SUBSET Paths
  PROVE  /\ IsListing(S, HostListing(S))
         /\ IsListing(S, BackwardListing(S))
<1> DEFINE R == {p \in S \X S : HostOrder(p[1], p[2])}
           B == {p \in S \X S : HostOrder(p[2], p[1])}
<1>1. LinearOn(S, R) /\ LinearOn(S, B)
  BY HostOrderLinear DEF LinearOn
<1>2. HostListing(S) = Ordered(S, R)
  BY DEF HostListing, InOrder
<1>3. BackwardListing(S) = Ordered(S, B)
  BY DEF BackwardListing, InOrder
<1>. HIDE DEF R, B
<1>4. IsListing(S, HostListing(S))
  BY <1>1, <1>2, OrderedLists, PathsAreNumbers DEF IsListing
<1>5. IsListing(S, BackwardListing(S))
  BY <1>1, <1>3, OrderedLists, PathsAreNumbers DEF IsListing
<1>6. QED
  BY <1>4, <1>5

(* The manifest comes last.                                                *)
LEMMA ListedInSource ==
  ASSUME NEW S \in SUBSET Paths
  PROVE  /\ IsListing(S, SourceListing(S))
         /\ Manifest \in S => SourceListing(S)[Cardinality(S)] = Manifest
         /\ \A k \in 1..Cardinality(S) : SourceListing(S)[k] = Manifest => k = Cardinality(S)
<1> DEFINE R == {p \in S \X S : SourceOrder(p[1], p[2])}
           s == SourceListing(S)
<1>1. LinearOn(S, R)
  BY PathsAreNumbers DEF LinearOn, SourceOrder
<1>2. s = Ordered(S, R)
  BY DEF SourceListing, InOrder
<1>3. \A j, k \in 1..Cardinality(S) : j < k /\ <<s[j], s[k]>> \in R => s[j] # Manifest
  BY DEF SourceOrder
<1>. HIDE DEF R, s
<1>4. IsListing(S, s)
  BY <1>1, <1>2, OrderedLists, PathsAreNumbers DEF IsListing
<1>5. ASSUME Manifest \in S PROVE s[Cardinality(S)] = Manifest
  <2>1. PICK k \in 1..Cardinality(S) : s[k] = Manifest
    BY <1>4, <1>5 DEF IsListing
  <2>2. SUFFICES ASSUME k # Cardinality(S) PROVE FALSE
    BY <2>1
  <2>3. Cardinality(S) \in Nat /\ Cardinality(S) \in 1..Cardinality(S) /\ k < Cardinality(S)
    BY <1>4, <2>2 DEF IsListing
  <2>4. <<s[k], s[Cardinality(S)]>> \in R
    BY <1>1, <1>2, <1>4, <2>3, OrderedLists, PathsAreNumbers DEF IsListing
  <2>5. QED
    BY <1>3, <2>1, <2>3, <2>4
<1>6. ASSUME NEW k \in 1..Cardinality(S), s[k] = Manifest PROVE k = Cardinality(S)
  <2>1. SUFFICES ASSUME k # Cardinality(S) PROVE FALSE
    OBVIOUS
  <2>2. Cardinality(S) \in Nat /\ Cardinality(S) \in 1..Cardinality(S) /\ k < Cardinality(S)
    BY <1>4, <2>1 DEF IsListing
  <2>3. <<s[k], s[Cardinality(S)]>> \in R
    BY <1>1, <1>2, <1>4, <2>2, OrderedLists, PathsAreNumbers DEF IsListing
  <2>4. QED
    BY <1>3, <1>6, <2>2, <2>3
<1>7. QED
  BY <1>4, <1>5, <1>6 DEF s

-----------------------------------------------------------------------------
(* Changes *)

LEMMA Priorities ==
  ASSUME NEW kind \in Kinds, NEW todo \in Todos
  PROVE  /\ DefaultPriority(kind, todo) \in Nat
         /\ todo = "Install" => DefaultPriority(kind, todo) = IF IsDirectory(kind) THEN 2 ELSE 3
BY DEF DefaultPriority, IsDirectory

LEMMA KindsOfFiles ==
  ASSUME NEW p \in Paths
  PROVE  KindOf[p] \in FileKinds /\ KindOf[p] \in Kinds /\ KindOf[p] \notin {"Component", "Host"}
BY RepositoryAssumption DEF FileKinds, Kinds, QuadletKinds

LEMMA ResourceChange ==
  ASSUME NEW c \in Comps, NEW p \in Paths, NEW content \in Nat, NEW todo \in Todos
  PROVE  LET e == OnResource(todo, c, p, content) IN
         /\ e \in Changes
         /\ e.todo = todo /\ e.kind = KindOf[p] /\ e.comp = c /\ e.path = p /\ e.content = content
         /\ e.list = IF IsServiceAction(todo) THEN "service" ELSE "resource"
         /\ e.prio \in Nat
         /\ todo = "Install" => e.prio = IF IsDirectory(KindOf[p]) THEN 2 ELSE 3
BY KindsOfFiles, Priorities DEF OnResource, Filed, Changes

LEMMA ComponentChange ==
  ASSUME NEW c \in Comps, NEW todo \in FileTodos
  PROVE  LET e == OnComponent(todo, c) IN
         /\ e \in Changes
         /\ e.todo = todo /\ e.kind = "Component" /\ e.comp = c /\ e.path = 0
         /\ e.list = "resource"
         /\ e.prio \in Nat
         /\ todo = "Install" => e.prio = 2
<1>1. todo \in Todos /\ "Component" \in Kinds
  BY DEF FileTodos, Todos, Kinds
<1>2. ~IsServiceAction(todo)
  BY DEF FileTodos, IsServiceAction
<1>3. QED
  BY <1>1, <1>2, Priorities DEF OnComponent, Filed, Changes, Blank, IsDirectory

(* What the changes to a component can be: to install it, to remove it, to *)
(* make it what the source says, and the jobs for its services.            *)
Installs(c, files) ==
    {OnComponent("Install", c)}
    \cup {OnResource("Install", c, p, files[p]) : p \in {q \in Paths : files[q] # Absent}}

Removals(c) ==
    {OnComponent("Remove", c)} \cup {OnResource("Remove", c, p, Absent) : p \in Paths}

Updates(c, files) ==
    {OnComponent("Update", c)}
    \cup {OnResource(todo, c, p, files[p]) :
             todo \in {"Install", "Update"}, p \in {q \in Paths : files[q] # Absent}}
    \cup {OnResource("Remove", c, p, Absent) :
             p \in {q \in Paths : files[q] = Absent /\ q \notin Dropins}}

Jobs(c) == {OnResource(todo, c, p, Absent) : todo \in {"Start", "Stop", "Restart"}, p \in Paths}

LEMMA SequenceOf ==
  ASSUME NEW X, NEW n \in Nat, NEW f \in [1..n -> X]
  PROVE  f \in Seq(X) /\ Len(f) = n /\ DOMAIN f = 1..n
OBVIOUS

LEMMA JobsOf ==
  ASSUME NEW c, NEW S \in SUBSET Paths, NEW todo \in {"Start", "Stop", "Restart"}
  PROVE  MapSeq(ByName(S), LAMBDA p : OnResource(todo, c, p, Absent)) \in Seq(Jobs(c))
<1> DEFINE s == ByName(S)
           f == [i \in DOMAIN s |-> OnResource(todo, c, s[i], Absent)]
<1>1. IsListing(S, s)
  BY ListedByName
<1>. HIDE DEF s
<1>2. f \in [1..Cardinality(S) -> Jobs(c)]
  BY <1>1 DEF IsListing, Jobs
<1>3. f \in Seq(Jobs(c))
  BY <1>1, <1>2, SequenceOf DEF IsListing
<1>4. QED
  BY <1>3 DEF MapSeq, s

LEMMA ServiceJobs ==
  ASSUME NEW c, NEW assigned, NEW installed, NEW unit
  PROVE  ServiceActions(c, assigned, installed, unit) \in Seq(Jobs(c))
<1> DEFINE stopped == {p \in Paths : p \in installed \ assigned /\ Found(unit, p)}
           started == {p \in Paths : /\ p \in assigned
                                     /\ ~Found(unit, p) \/ unit.running[p] = Absent}
           stops == MapSeq(ByName(stopped), LAMBDA p : OnResource("Stop", c, p, Absent))
           starts == MapSeq(ByName(started), LAMBDA p : OnResource("Start", c, p, Absent))
<1>1. ServiceActions(c, assigned, installed, unit) = stops \o starts
  BY DEF ServiceActions
<1>2. stops \in Seq(Jobs(c)) /\ starts \in Seq(Jobs(c))
  BY JobsOf
<1>. HIDE DEF stops, starts
<1>3. QED
  BY <1>1, <1>2, ConcatProperties

LEMMA RestartJobs ==
  ASSUME NEW c, NEW files, NEW resources
  PROVE  TriggeredRestarts(c, files, resources) \in Seq(Jobs(c))
BY JobsOf DEF TriggeredRestarts, Triggering

(* Every file of the source is installed, the manifest last.               *)
LEMMA FreshList ==
  ASSUME NEW c, NEW files, files[Manifest] # Absent
  PROVE  LET f == FreshResources(c, files) IN
         /\ f \in Seq(Installs(c, files))
         /\ Len(f) \in DOMAIN f
         /\ f[Len(f)] = OnResource("Install", c, Manifest, files[Manifest])
         /\ 1 \in DOMAIN f /\ f[1] = OnComponent("Install", c)
         /\ \A i \in DOMAIN f : f[i].path = Manifest => i = Len(f)
         /\ \A p \in Paths : files[p] # Absent =>
               \E i \in DOMAIN f : f[i] = OnResource("Install", c, p, files[p])
<1> DEFINE S == {p \in Paths : files[p] # Absent}
           s == SourceListing(S)
           n == Cardinality(S)
           g == [i \in DOMAIN s |-> OnResource("Install", c, s[i], files[s[i]])]
           f == FreshResources(c, files)
           X == Installs(c, files)
<1>1. /\ IsListing(S, s) /\ s[n] = Manifest /\ Manifest \in S
      /\ \A k \in 1..n : s[k] = Manifest => k = n
  BY ListedInSource, RepositoryAssumption
<1>2. f = <<OnComponent("Install", c)>> \o g
  BY DEF FreshResources, MapSeq
<1>3. \A p \in S : OnResource("Install", c, p, files[p]) \in X
  BY DEF Installs
<1>4. <<OnComponent("Install", c)>> \in Seq(X)
  BY DEF Installs
<1>. HIDE DEF S, s, f, X
<1>5. g \in [1..n -> X]
  BY <1>1, <1>3 DEF IsListing
<1>6. n \in Nat /\ n >= 1
  BY <1>1 DEF IsListing
<1>7. g \in Seq(X) /\ Len(g) = n /\ DOMAIN g = 1..n
  BY <1>5, <1>6, SequenceOf
<1>8. \A i \in 1..n : g[i] = OnResource("Install", c, s[i], files[s[i]])
  BY <1>1 DEF IsListing
<1>. HIDE DEF g, n
<1>9. /\ f \in Seq(X) /\ Len(f) = n + 1 /\ DOMAIN f = 1..(n + 1)
      /\ 1 \in 1..(n + 1) /\ f[1] = OnComponent("Install", c)
      /\ \A i \in 1..n : f[i + 1] = g[i]
  BY <1>2, <1>4, <1>6, <1>7
<1>10. f[n + 1] = OnResource("Install", c, Manifest, files[Manifest])
  BY <1>1, <1>6, <1>8, <1>9
<1>11. ASSUME NEW p \in Paths, files[p] # Absent
       PROVE  \E i \in DOMAIN f : f[i] = OnResource("Install", c, p, files[p])
  <2>1. PICK k \in 1..n : s[k] = p
    BY <1>1, <1>11 DEF IsListing, S, n
  <2>2. f[k + 1] = OnResource("Install", c, p, files[p]) /\ k + 1 \in DOMAIN f
    BY <1>6, <1>8, <1>9, <2>1
  <2>3. QED
    BY <2>2
<1>12. ASSUME NEW i \in DOMAIN f, f[i].path = Manifest PROVE i = Len(f)
  <2>1. OnComponent("Install", c).path = 0 /\ Manifest # 0
    BY RepositoryAssumption DEF OnComponent, Filed
  <2>2. i # 1
    BY <1>9, <1>12, <2>1
  <2>3. i - 1 \in 1..n /\ i = (i - 1) + 1
    BY <1>6, <1>9, <2>2
  <2>4. g[i - 1].path = Manifest
    BY <1>9, <1>12, <2>3
  <2>5. g[i - 1].path = s[i - 1]
    <3>1. \A p, x : OnResource("Install", c, p, x).path = p
      BY DEF OnResource, Filed
    <3>2. QED
      BY <1>8, <2>3, <3>1
  <2>6. i - 1 = n
    BY <1>1, <2>3, <2>4, <2>5
  <2>7. QED
    BY <1>9, <2>3, <2>6
<1>13. QED
  BY <1>6, <1>9, <1>10, <1>11, <1>12 DEF f, X

LEMMA ListingOf ==
  ASSUME NEW S, NEW s, IsListing(S, s), NEW X, NEW g, DOMAIN g = DOMAIN s,
         \A i \in DOMAIN s : s[i] \in S => g[i] \in X,
         g = [i \in DOMAIN g |-> g[i]]
  PROVE  g \in Seq(X)
<1>1. g \in [1..Cardinality(S) -> X]
  BY DEF IsListing
<1>2. QED
  BY <1>1, SequenceOf DEF IsListing

LEMMA RemovedList ==
  ASSUME NEW c, NEW d
  PROVE  RemovedResources(c, d) \in Seq(Removals(c))
<1> DEFINE held == Held(d) \ {Manifest}
           F == {p \in held : IsFile(KindOf[p])}
           G == {p \in held : ~IsFile(KindOf[p])}
           removed(S) == [i \in DOMAIN BackwardListing(S) |->
                             OnResource("Remove", c, BackwardListing(S)[i], Absent)]
           end == <<OnResource("Remove", c, Manifest, Absent), OnComponent("Remove", c)>>
           X == Removals(c)
<1>1. RemovedResources(c, d) = removed(F) \o removed(G) \o end
  BY DEF RemovedResources, MapSeq
<1>2. ASSUME NEW S \in SUBSET Paths PROVE removed(S) \in Seq(X)
  <2>1. IsListing(S, BackwardListing(S))
    BY ListedOnHost
  <2>2. \A p \in S : OnResource("Remove", c, p, Absent) \in X
    BY DEF Removals
  <2>. HIDE DEF X
  <2>3. QED
    BY <2>1, <2>2, ListingOf
<1>3. end \in Seq(X)
  BY RepositoryAssumption DEF Removals
<1>4. F \in SUBSET Paths /\ G \in SUBSET Paths
  BY DEF Held
<1>5. removed(F) \in Seq(X) /\ removed(G) \in Seq(X)
  BY <1>2, <1>4
<1>. HIDE DEF removed, end, X, F, G
<1>6. QED
  BY <1>1, <1>3, <1>5 DEF X

LEMMA UpdatedList ==
  ASSUME NEW c, NEW d, NEW files
  PROVE  UpdatedResources(c, d, files) \in Seq(Updates(c, files))
<1> DEFINE A == Dropped(d, files)
           B == {p \in Paths : files[p] # Absent /\ d.at[p] = Absent}
           C == Changed(d, files)
           a == [i \in DOMAIN HostListing(A) |-> OnResource("Remove", c, HostListing(A)[i], Absent)]
           b == [i \in DOMAIN SourceListing(B) |->
                    OnResource("Install", c, SourceListing(B)[i], files[SourceListing(B)[i]])]
           e == [i \in DOMAIN HostListing(C) |->
                    OnResource("Update", c, HostListing(C)[i], files[HostListing(C)[i]])]
           end == IF d.version = "current" THEN <<>> ELSE <<OnComponent("Update", c)>>
           X == Updates(c, files)
<1>1. UpdatedResources(c, d, files) = a \o b \o e \o end
  BY DEF UpdatedResources, MapSeq
<1>2. a \in Seq(X)
  <2>1. IsListing(A, HostListing(A))
    BY ListedOnHost DEF Dropped, Held
  <2>2. \A p \in A : OnResource("Remove", c, p, Absent) \in X
    BY DEF Updates, Dropped, Held, Dropins
  <2>. HIDE DEF X, A
  <2>3. QED
    BY <2>1, <2>2, ListingOf
<1>3. b \in Seq(X)
  <2>1. IsListing(B, SourceListing(B))
    BY ListedInSource
  <2>2. \A p \in B : OnResource("Install", c, p, files[p]) \in X
    BY DEF Updates
  <2>. HIDE DEF X, B
  <2>3. QED
    BY <2>1, <2>2, ListingOf
<1>4. e \in Seq(X)
  <2>1. IsListing(C, HostListing(C))
    BY ListedOnHost DEF Changed, Held
  <2>2. \A p \in C : OnResource("Update", c, p, files[p]) \in X
    BY DEF Updates, Changed, Held
  <2>. HIDE DEF X, C
  <2>3. QED
    BY <2>1, <2>2, ListingOf
<1>5. end \in Seq(X)
  <2>1. OnComponent("Update", c) \in X
    BY DEF Updates
  <2>. HIDE DEF X
  <2>2. QED
    BY <2>1
<1>. HIDE DEF a, b, e, end, X
<1>6. QED
  BY <1>1, <1>2, <1>3, <1>4, <1>5 DEF X

-----------------------------------------------------------------------------
(* The plan *)

(* The changes to a component: none to one that is neither here nor        *)
(* assigned.                                                               *)
ChangesTo(c, d, files, assigned) ==
    Jobs(c) \cup (CASE d.data /\ assigned -> Updates(c, files)
                    [] d.data /\ ~assigned -> Removals(c)
                    [] ~d.data /\ assigned -> Installs(c, files)
                    [] OTHER -> {})

LEMMA JobFields ==
  ASSUME NEW c \in Comps, NEW e \in Jobs(c)
  PROVE  /\ e \in Changes /\ e.comp = c /\ e.list = "service" /\ e.prio \in Nat
         /\ e.todo \in {"Start", "Stop", "Restart"} /\ e.path \in Paths
<1>1. PICK todo \in {"Start", "Stop", "Restart"}, p \in Paths : e = OnResource(todo, c, p, Absent)
  BY DEF Jobs
<1>2. todo \in Todos /\ Absent \in Nat /\ IsServiceAction(todo)
  BY DEF Todos, Absent, IsServiceAction
<1>3. QED
  BY <1>1, <1>2, ResourceChange

LEMMA InstallFields ==
  ASSUME NEW c \in Comps, NEW files \in [Paths -> Nat], NEW e \in Installs(c, files)
  PROVE  /\ e \in Changes /\ e.comp = c /\ e.list = "resource" /\ e.prio \in {2, 3}
         /\ e.todo = "Install"
         /\ \/ e.kind = "Component"
            \/ /\ e.path \in Paths /\ e.kind = KindOf[e.path] /\ e.kind # "Component"
               /\ e.content = files[e.path] /\ e.content # Absent
<1>1. "Install" \in Todos /\ "Install" \in FileTodos /\ ~IsServiceAction("Install")
  BY DEF Todos, FileTodos, IsServiceAction
<1>2. CASE e = OnComponent("Install", c)
  BY <1>1, <1>2, ComponentChange
<1>3. ASSUME NEW p \in Paths, files[p] # Absent, e = OnResource("Install", c, p, files[p])
      PROVE  /\ e \in Changes /\ e.comp = c /\ e.list = "resource" /\ e.prio \in {2, 3}
             /\ e.todo = "Install"
             /\ e.path \in Paths /\ e.kind = KindOf[e.path] /\ e.kind # "Component"
             /\ e.content = files[e.path] /\ e.content # Absent
  BY <1>1, <1>3, ResourceChange, KindsOfFiles
<1>4. QED
  BY <1>2, <1>3 DEF Installs

LEMMA RemovalFields ==
  ASSUME NEW c \in Comps, NEW e \in Removals(c)
  PROVE  /\ e \in Changes /\ e.comp = c /\ e.list = "resource" /\ e.prio \in Nat
         /\ e.todo = "Remove"
         /\ \/ e.kind = "Component"
            \/ e.path \in Paths /\ e.kind = KindOf[e.path] /\ e.kind # "Component"
<1>1. "Remove" \in Todos /\ "Remove" \in FileTodos /\ ~IsServiceAction("Remove") /\ Absent \in Nat
  BY DEF Todos, FileTodos, IsServiceAction, Absent
<1>2. CASE e = OnComponent("Remove", c)
  BY <1>1, <1>2, ComponentChange
<1>3. ASSUME NEW p \in Paths, e = OnResource("Remove", c, p, Absent)
      PROVE  /\ e \in Changes /\ e.comp = c /\ e.list = "resource" /\ e.prio \in Nat
             /\ e.todo = "Remove"
             /\ e.path \in Paths /\ e.kind = KindOf[e.path] /\ e.kind # "Component"
  BY <1>1, <1>3, ResourceChange, KindsOfFiles
<1>4. QED
  BY <1>2, <1>3 DEF Removals

LEMMA UpdateFields ==
  ASSUME NEW c \in Comps, NEW files \in [Paths -> Nat], NEW e \in Updates(c, files)
  PROVE  /\ e \in Changes /\ e.comp = c /\ e.list = "resource" /\ e.prio \in Nat
         /\ \/ e.kind = "Component" /\ e.todo = "Update"
            \/ /\ e.path \in Paths /\ e.kind = KindOf[e.path] /\ e.kind # "Component"
               /\ \/ /\ e.todo \in {"Install", "Update"}
                     /\ e.content = files[e.path] /\ e.content # Absent
                  \/ /\ e.todo = "Remove"
                     /\ files[e.path] = Absent /\ e.path \notin Dropins
<1>1. /\ {"Install", "Update", "Remove"} \subseteq Todos \cap FileTodos
      /\ \A todo \in {"Install", "Update", "Remove"} : ~IsServiceAction(todo)
      /\ Absent \in Nat
  BY DEF Todos, FileTodos, IsServiceAction, Absent
<1>2. CASE e = OnComponent("Update", c)
  BY <1>1, <1>2, ComponentChange
<1>3. ASSUME NEW p \in Paths, NEW todo \in {"Install", "Update"}, files[p] # Absent,
             e = OnResource(todo, c, p, files[p])
      PROVE  /\ e \in Changes /\ e.comp = c /\ e.list = "resource" /\ e.prio \in Nat
             /\ e.path \in Paths /\ e.kind = KindOf[e.path] /\ e.kind # "Component"
             /\ e.todo \in {"Install", "Update"}
             /\ e.content = files[e.path] /\ e.content # Absent
  BY <1>1, <1>3, ResourceChange, KindsOfFiles
<1>4. ASSUME NEW p \in Paths, files[p] = Absent, p \notin Dropins,
             e = OnResource("Remove", c, p, Absent)
      PROVE  /\ e \in Changes /\ e.comp = c /\ e.list = "resource" /\ e.prio \in Nat
             /\ e.path \in Paths /\ e.kind = KindOf[e.path] /\ e.kind # "Component"
             /\ e.todo = "Remove" /\ files[e.path] = Absent /\ e.path \notin Dropins
  BY <1>1, <1>4, ResourceChange, KindsOfFiles
<1>5. QED
  BY <1>2, <1>3, <1>4 DEF Updates

LEMMA ChangesAreEntries ==
  ASSUME NEW c \in Comps, NEW files \in [Paths -> Nat], NEW d, NEW assigned,
         NEW e \in ChangesTo(c, d, files, assigned)
  PROVE  e \in Changes /\ e.comp = c
<1>1. e \in Jobs(c) \cup Updates(c, files) \cup Removals(c) \cup Installs(c, files)
  BY DEF ChangesTo
<1>2. QED
  BY <1>1, JobFields, UpdateFields, RemovalFields, InstallFields

LEMMA WithJobs ==
  ASSUME NEW X, NEW J, NEW a \in Seq(X), NEW b \in Seq(J)
  PROVE  /\ a \o b \in Seq(X \cup J) /\ Len(a \o b) = Len(a) + Len(b)
         /\ Len(a) \in Nat /\ Len(b) \in Nat
         /\ DOMAIN (a \o b) = 1..(Len(a) + Len(b)) /\ DOMAIN a = 1..Len(a)
         /\ \A i \in 1..Len(a) : (a \o b)[i] = a[i]
         /\ \A i \in (Len(a) + 1)..(Len(a) + Len(b)) : (a \o b)[i] \in J
<1>1. a \in Seq(X \cup J) /\ b \in Seq(X \cup J)
  OBVIOUS
<1>2. \A i \in 1..Len(b) : b[i] \in J
  OBVIOUS
<1>3. QED
  BY <1>1, <1>2, ConcatProperties, LenProperties

(* The manifest of a component that arrives is installed after its files,   *)
(* and with it comes every file the source has.                            *)
ArrivesWhole(c, files, a) ==
    \E m \in DOMAIN a :
        /\ a[m] = OnResource("Install", c, Manifest, files[Manifest])
        /\ \E i \in DOMAIN a : a[i] = OnComponent("Install", c)
        /\ \A i \in DOMAIN a : a[i].list = "resource" =>
              i <= m /\ a[i].prio \in {2, 3} /\ (a[i].path = Manifest => i = m)
        /\ \A p \in Paths : files[p] # Absent =>
              \E i \in DOMAIN a : a[i] = OnResource("Install", c, p, files[p])

LEMMA FreshPlan ==
  ASSUME NEW c \in Comps, NEW files \in [Paths -> Nat], files[Manifest] # Absent,
         NEW jobs \in Seq(Jobs(c))
  PROVE  LET a == FreshResources(c, files) \o jobs IN
         a \in Seq(Installs(c, files) \cup Jobs(c)) /\ ArrivesWhole(c, files, a)
<1> DEFINE f == FreshResources(c, files)
           a == f \o jobs
<1>1. /\ f \in Seq(Installs(c, files)) /\ Len(f) \in DOMAIN f
      /\ f[Len(f)] = OnResource("Install", c, Manifest, files[Manifest])
      /\ 1 \in DOMAIN f /\ f[1] = OnComponent("Install", c)
      /\ \A i \in DOMAIN f : f[i].path = Manifest => i = Len(f)
      /\ \A p \in Paths : files[p] # Absent =>
            \E i \in DOMAIN f : f[i] = OnResource("Install", c, p, files[p])
  BY FreshList
<1>. HIDE DEF f
<1>2. /\ a \in Seq(Installs(c, files) \cup Jobs(c))
      /\ Len(f) \in Nat /\ Len(jobs) \in Nat
      /\ DOMAIN a = 1..(Len(f) + Len(jobs)) /\ DOMAIN f = 1..Len(f)
      /\ \A i \in 1..Len(f) : a[i] = f[i] /\ f[i] \in Installs(c, files)
      /\ \A i \in (Len(f) + 1)..(Len(f) + Len(jobs)) : a[i] \in Jobs(c)
  BY <1>1, WithJobs
<1>. HIDE DEF a
<1>3. /\ Len(f) \in DOMAIN a /\ a[Len(f)] = OnResource("Install", c, Manifest, files[Manifest])
      /\ 1 \in DOMAIN a /\ a[1] = OnComponent("Install", c)
  BY <1>1, <1>2
<1>4. ASSUME NEW i \in DOMAIN a, a[i].list = "resource"
      PROVE  i <= Len(f) /\ a[i].prio \in {2, 3} /\ (a[i].path = Manifest => i = Len(f))
  <2>1. i <= Len(f)
    <3>1. SUFFICES ASSUME ~(i <= Len(f)) PROVE FALSE
      OBVIOUS
    <3>2. a[i] \in Jobs(c)
      BY <1>2, <3>1
    <3>3. QED
      BY <1>4, <3>2, JobFields
  <2>2. a[i] \in Installs(c, files)
    BY <1>2, <2>1
  <2>3. a[i].prio \in {2, 3}
    BY <2>2, InstallFields
  <2>4. a[i].path = Manifest => i = Len(f)
    BY <1>1, <1>2, <2>1
  <2>5. QED
    BY <2>1, <2>3, <2>4
<1>5. ASSUME NEW p \in Paths, files[p] # Absent
      PROVE  \E i \in DOMAIN a : a[i] = OnResource("Install", c, p, files[p])
  <2>1. PICK i \in DOMAIN f : f[i] = OnResource("Install", c, p, files[p])
    BY <1>1, <1>5
  <2>2. QED
    BY <1>2, <2>1
<1>6. QED
  BY <1>2, <1>3, <1>4, <1>5 DEF ArrivesWhole, a, f

LEMMA ComponentPlan ==
  ASSUME NEW c \in Comps, NEW files \in [Paths -> Nat], NEW d \in Directories, NEW unit,
         NEW assigned \in BOOLEAN, assigned => files[Manifest] # Absent
  PROVE  LET part == PlanComponent(c, d, files, unit, assigned) IN
         /\ part.actions \in Seq(ChangesTo(c, d, files, assigned))
         /\ part.reload \in BOOLEAN
         /\ ~d.data /\ assigned => ArrivesWhole(c, files, part.actions)
<1> DEFINE part == PlanComponent(c, d, files, unit, assigned)
           svcs == ServicesIn[files[Manifest]]
<1>0. d.data \in BOOLEAN
  BY DEF Directories
<1>1. CASE ~d.data /\ ~assigned
  <2>1. part = [ok |-> TRUE, reload |-> FALSE, actions |-> <<>>]
    BY <1>1 DEF PlanComponent
  <2>2. QED
    BY <1>1, <2>1
<1>2. CASE ~d.data /\ assigned
  <2> DEFINE jobs == ServiceActions(c, svcs, {}, unit)
             a == FreshResources(c, files) \o jobs
  <2>1. part = [ok |-> TRUE, reload |-> TRUE, actions |-> a]
    BY <1>2 DEF PlanComponent
  <2>2. jobs \in Seq(Jobs(c))
    BY ServiceJobs
  <2>3. a \in Seq(Installs(c, files) \cup Jobs(c)) /\ ArrivesWhole(c, files, a)
    BY <1>2, <2>2, FreshPlan
  <2>4. Installs(c, files) \cup Jobs(c) = ChangesTo(c, d, files, assigned)
    BY <1>2 DEF ChangesTo
  <2>. HIDE DEF a
  <2>5. QED
    BY <2>1, <2>3, <2>4
<1>3. CASE d.data /\ ~assigned
  <2> DEFINE jobs == ServiceActions(c, {}, HostServices(d), unit)
             a == RemovedResources(c, d) \o jobs
  <2>1. part = [ok |-> TRUE, reload |-> TRUE, actions |-> a]
    BY <1>3 DEF PlanComponent
  <2>2. RemovedResources(c, d) \in Seq(Removals(c)) /\ jobs \in Seq(Jobs(c))
    BY ServiceJobs, RemovedList
  <2>3. a \in Seq(Removals(c) \cup Jobs(c))
    BY <2>2, WithJobs
  <2>4. Removals(c) \cup Jobs(c) = ChangesTo(c, d, files, assigned)
    BY <1>3 DEF ChangesTo
  <2>. HIDE DEF a
  <2>5. QED
    BY <1>3, <2>1, <2>3, <2>4
<1>4. CASE d.data /\ assigned
  <2> DEFINE resources == UpdatedResources(c, d, files)
             restarts == TriggeredRestarts(c, files, resources)
             jobs == ServiceActions(c, svcs, HostServices(d), unit)
             a == resources \o restarts \o jobs
  <2>1. part = [ok |-> TriggersFound(files, resources, unit), reload |-> resources # <<>>,
                actions |-> a]
    BY <1>4 DEF PlanComponent
  <2>2. /\ resources \in Seq(Updates(c, files)) /\ restarts \in Seq(Jobs(c))
        /\ jobs \in Seq(Jobs(c))
    BY ServiceJobs, RestartJobs, UpdatedList
  <2>3. Updates(c, files) \cup Jobs(c) = ChangesTo(c, d, files, assigned)
    BY <1>4 DEF ChangesTo
  <2>. HIDE DEF resources, restarts, jobs
  <2>4. resources \o restarts \in Seq(Updates(c, files) \cup Jobs(c))
    BY <2>2, WithJobs
  <2>5. a \in Seq((Updates(c, files) \cup Jobs(c)) \cup Jobs(c))
    BY <2>2, <2>4, WithJobs
  <2>. HIDE DEF a
  <2>6. a \in Seq(ChangesTo(c, d, files, assigned))
    BY <2>3, <2>5
  <2>7. (resources # <<>>) \in BOOLEAN
    OBVIOUS
  <2>8. part.actions = a /\ part.reload = (resources # <<>>)
    BY <2>1
  <2>. HIDE DEF part
  <2>9. part.reload \in BOOLEAN
    BY <2>7, <2>8
  <2>10. QED
    BY <1>4, <2>6, <2>8, <2>9 DEF part
<1>5. QED
  BY <1>0, <1>1, <1>2, <1>3, <1>4

(* The same of the steps of a whole plan.                                  *)
InstallsWhole(c, files, steps) ==
    \E m \in DOMAIN steps :
        /\ steps[m] = OnResource("Install", c, Manifest, files[Manifest])
        /\ \E k \in DOMAIN steps : steps[k] = OnComponent("Install", c)
        /\ \A k \in DOMAIN steps : steps[k].comp = c /\ steps[k].list = "resource" =>
              k <= m /\ (steps[k].path = Manifest => k = m)
        /\ \A p \in Paths : files[p] # Absent =>
              \E k \in DOMAIN steps : steps[k] = OnResource("Install", c, p, files[p])

LEMMA StepsOfPlan ==
  ASSUME NEW hosts \in [Comps -> Directories], NEW files \in [Comps -> [Paths -> Nat]],
         NEW assigned \in SUBSET Comps, NEW changes, DOMAIN changes = Comps,
         \A c \in Comps :
            /\ changes[c] \in Seq(ChangesTo(c, hosts[c], files[c], c \in assigned))
            /\ ~hosts[c].data /\ c \in assigned => ArrivesWhole(c, files[c], changes[c]),
         NEW reload \in BOOLEAN
  PROVE  LET steps == Steps(changes, reload) IN
         /\ steps \in Seq(Changes \cup {HostReload})
         /\ \A k \in DOMAIN steps :
               \/ steps[k] = HostReload
               \/ \E c \in Comps : steps[k] \in ChangesTo(c, hosts[c], files[c], c \in assigned)
         /\ \A c \in assigned : ~hosts[c].data => InstallsWhole(c, files[c], steps)
<1> DEFINE steps == Steps(changes, reload)
           order == StepOrder(changes, reload)
           To(c) == ChangesTo(c, hosts[c], files[c], c \in assigned)
<1>1. ASSUME NEW c \in Comps, NEW i \in DOMAIN changes[c]
      PROVE  /\ changes[c][i] \in To(c) /\ changes[c][i] \in Changes /\ changes[c][i].comp = c
  <2>1. changes[c][i] \in To(c)
    OBVIOUS
  <2>2. files[c] \in [Paths -> Nat]
    OBVIOUS
  <2>. HIDE DEF To
  <2>3. QED
    BY <2>1, <2>2, ChangesAreEntries DEF To
<1>2. IsChanges(changes)
  <2>1. IsFiniteSet(Comps) /\ Comps \subseteq Nat \ {0}
    BY MateriaAssumption
  <2>2. ASSUME NEW c \in Comps PROVE \E n \in Nat : DOMAIN changes[c] = 1..n
    OBVIOUS
  <2>3. Paths \subseteq Nat
    BY RepositoryAssumption
  <2>4. \A e \in Changes : e.prio \in Nat /\ e.path \in Nat
    <3>1. ASSUME NEW e \in Changes PROVE e.prio \in Nat /\ e.path \in Paths \cup {0}
      BY DEF Changes
    <3>2. Paths \cup {0} \subseteq Nat
      BY <2>3
    <3>3. QED
      BY <3>1, <3>2
  <2>5. QED
    BY <1>1, <2>1, <2>2, <2>4 DEF IsChanges
<1>3. /\ \E n \in Nat : steps \in [1..n -> {ChangeAt(changes, x) : x \in AllChanges(changes, reload)}]
      /\ \A k \in DOMAIN steps : /\ order[k] \in AllChanges(changes, reload)
                                 /\ steps[k] = ChangeAt(changes, order[k])
      /\ \A x \in ResourceChanges(changes, reload) : \E k \in DOMAIN steps : order[k] = x
      /\ \A j, k \in DOMAIN steps :
            /\ j < k
            /\ order[j] \in ResourceChanges(changes, reload)
            /\ order[k] \in ResourceChanges(changes, reload)
            => ResourceBefore(changes, order[j], order[k])
  <2>1. ResourceChanges(changes, reload) \subseteq AllChanges(changes, reload)
    BY DEF AllChanges
  <2>2. /\ \E n \in Nat : steps \in [1..n -> {ChangeAt(changes, x) : x \in AllChanges(changes, reload)}]
        /\ \A k \in DOMAIN steps : /\ order[k] \in AllChanges(changes, reload)
                                   /\ steps[k] = ChangeAt(changes, order[k])
        /\ \A x \in AllChanges(changes, reload) : \E k \in DOMAIN steps : order[k] = x
        /\ \A j, k \in DOMAIN steps : j < k =>
              StepBefore(changes, ResourceChanges(changes, reload), order[j], order[k])
    BY <1>2, StepsOfChanges
  <2>. HIDE DEF steps, order
  <2>3. QED
    BY <2>1, <2>2 DEF StepBefore
<1>. HIDE DEF steps, order, To
<1>4. ASSUME NEW x \in AllChanges(changes, reload)
      PROVE  \/ x = ReloadStep /\ ChangeAt(changes, x) = HostReload
                /\ x \in ResourceChanges(changes, reload)
             \/ /\ x[1] \in Comps /\ x[2] \in DOMAIN changes[x[1]] /\ x = <<x[1], x[2]>>
                /\ x # ReloadStep /\ x[2] \in Nat
                /\ ChangeAt(changes, x) = changes[x[1]][x[2]]
                /\ ChangeAt(changes, x).list = "resource" => x \in ResourceChanges(changes, reload)
  <2>1. CASE x = ReloadStep
    <3>1. x \notin ServiceChanges(changes)
      BY <1>2, <2>1, ChangeNames DEF ServiceChanges
    <3>2. QED
      BY <2>1, <3>1 DEF ChangeAt, AllChanges
  <2>2. CASE x # ReloadStep
    <3>1. x \in ChangesOn(changes, "resource") \/ x \in ChangesOn(changes, "service")
      BY <2>2 DEF AllChanges, ResourceChanges, ServiceChanges
    <3>2. CASE x \in ChangesOn(changes, "resource")
      BY <1>2, <3>2, ChangeNames DEF ResourceChanges
    <3>3. CASE x \in ChangesOn(changes, "service")
      BY <1>2, <3>3, ChangeNames
    <3>4. QED
      BY <3>1, <3>2, <3>3
  <2>3. QED
    BY <2>1, <2>2
<1>5. ASSUME NEW k \in DOMAIN steps
      PROVE  \/ steps[k] = HostReload
             \/ \E c \in Comps : steps[k] \in To(c) /\ steps[k] \in Changes
  BY <1>1, <1>3, <1>4
<1>6. steps \in Seq(Changes \cup {HostReload})
  <2>1. PICK n \in Nat : steps \in [1..n -> {ChangeAt(changes, x) : x \in AllChanges(changes, reload)}]
    BY <1>3
  <2>2. steps \in [1..n -> Changes \cup {HostReload}]
    BY <1>5, <2>1
  <2>3. QED
    BY <2>2, SequenceOf
<1>7. ASSUME NEW c \in assigned, ~hosts[c].data
      PROVE  InstallsWhole(c, files[c], steps)
  <2>1. PICK m \in DOMAIN changes[c] :
           /\ changes[c][m] = OnResource("Install", c, Manifest, files[c][Manifest])
           /\ \E i \in DOMAIN changes[c] : changes[c][i] = OnComponent("Install", c)
           /\ \A i \in DOMAIN changes[c] : changes[c][i].list = "resource" =>
                 /\ i <= m /\ changes[c][i].prio \in {2, 3}
                 /\ changes[c][i].path = Manifest => i = m
           /\ \A p \in Paths : files[c][p] # Absent =>
                 \E i \in DOMAIN changes[c] :
                    changes[c][i] = OnResource("Install", c, p, files[c][p])
    BY <1>7 DEF ArrivesWhole
  <2>2. c \in Comps /\ c \in DOMAIN changes /\ c \in Nat \ {0} /\ files[c] \in [Paths -> Nat]
    BY MateriaAssumption
  <2>3. ASSUME NEW p \in Paths
        PROVE  LET e == OnResource("Install", c, p, files[c][p]) IN
               /\ e.list = "resource"
               /\ p = Manifest => e.prio = 3
    <3>1. "Install" \in Todos /\ ~IsServiceAction("Install")
      BY DEF Todos, IsServiceAction
    <3>2. ~IsDirectory("Manifest") /\ KindOf[Manifest] = "Manifest"
      BY RepositoryAssumption DEF IsDirectory
    <3>3. QED
      BY <2>2, <3>1, <3>2, ResourceChange
  <2>4. ASSUME NEW i \in DOMAIN changes[c], changes[c][i].list = "resource"
        PROVE  \E k \in DOMAIN steps :
                  order[k] = <<c, i>> /\ steps[k] = changes[c][i]
                  /\ <<c, i>> \in ResourceChanges(changes, reload)
    <3>1. <<c, i>> \in ChangesOn(changes, "resource")
      BY <2>2, <2>4, NamedChanges
    <3>2. ChangeAt(changes, <<c, i>>) = changes[c][i] /\ <<c, i>> \in ResourceChanges(changes, reload)
      BY <1>2, <3>1, ChangeNames DEF ResourceChanges
    <3>3. PICK k \in DOMAIN steps : order[k] = <<c, i>>
      BY <1>3, <3>2
    <3>4. QED
      BY <1>3, <3>2, <3>3
  <2>5. Manifest \in Paths
    BY RepositoryAssumption
  <2>6. PICK n \in DOMAIN steps :
           /\ order[n] = <<c, m>> /\ <<c, m>> \in ResourceChanges(changes, reload)
           /\ steps[n] = OnResource("Install", c, Manifest, files[c][Manifest])
    BY <2>1, <2>3, <2>4, <2>5
  <2>7. DOMAIN steps \subseteq Nat
    BY <1>3
  <2>8. ASSUME NEW k \in DOMAIN steps, steps[k].comp = c, steps[k].list = "resource"
         PROVE  LET x == order[k] IN
                /\ x[1] = c /\ x = <<c, x[2]>> /\ x[2] \in DOMAIN changes[c] /\ x[2] \in Nat
                /\ x # ReloadStep /\ x \in ResourceChanges(changes, reload)
                /\ ChangeAt(changes, x) = changes[c][x[2]] /\ steps[k] = changes[c][x[2]]
    <3> DEFINE x == order[k]
    <3>1. steps[k] # HostReload
      BY <2>2, <2>8 DEF HostReload
    <3>2. /\ x[1] \in Comps /\ x[2] \in DOMAIN changes[x[1]] /\ x # ReloadStep /\ x[2] \in Nat
          /\ x = <<x[1], x[2]>>
          /\ ChangeAt(changes, x) = changes[x[1]][x[2]] /\ x \in ResourceChanges(changes, reload)
          /\ steps[k] = ChangeAt(changes, x)
      BY <1>3, <1>4, <2>8, <3>1
    <3>3. x[1] = c
      BY <1>1, <2>8, <3>2
    <3>. HIDE DEF x
    <3>4. QED
      BY <3>2, <3>3 DEF x
  <2>9. ASSUME NEW k \in DOMAIN steps, steps[k].comp = c, steps[k].list = "resource", ~(k <= n)
        PROVE  FALSE
    <3> DEFINE x == order[k]
    <3>1. /\ x[1] = c /\ x[2] \in DOMAIN changes[c] /\ x # ReloadStep /\ x[2] \in Nat
          /\ ChangeAt(changes, x) = changes[c][x[2]] /\ x \in ResourceChanges(changes, reload)
          /\ steps[k] = changes[c][x[2]]
      BY <2>9, <2>8
    <3>3. ResourceBefore(changes, <<c, m>>, x)
      <4>1. n \in Nat /\ k \in Nat
        BY <2>7
      <4>2. n < k
        BY <2>9, <4>1
      <4>3. QED
        BY <1>3, <2>6, <3>1, <4>2
    <3>4. x[2] <= m /\ PrioOf(changes, x) \in {2, 3}
      BY <2>1, <2>9, <3>1 DEF PrioOf
    <3>5. PrioOf(changes, <<c, m>>) = 3
      BY <1>3, <2>3, <2>5, <2>6 DEF PrioOf
    <3>6. m \in Nat
      BY <1>2, <2>2 DEF IsChanges
    <3>. HIDE DEF x
    <3>7. QED
      BY <2>2, <3>1, <3>3, <3>4, <3>5, <3>6 DEF ResourceBefore
  <2>10. ASSUME NEW p \in Paths, files[c][p] # Absent
        PROVE  \E k \in DOMAIN steps : steps[k] = OnResource("Install", c, p, files[c][p])
    BY <2>1, <2>3, <2>4, <2>10
  <2>11. \E k \in DOMAIN steps : steps[k] = OnComponent("Install", c)
    <3>1. OnComponent("Install", c).list = "resource"
      BY <2>2, ComponentChange DEF FileTodos
    <3>2. QED
      BY <2>1, <2>4, <3>1
  <2>12. ASSUME NEW k \in DOMAIN steps, steps[k].comp = c, steps[k].list = "resource",
                steps[k].path = Manifest, k # n
         PROVE  FALSE
    <3>1. order[k] = <<c, m>>
      BY <2>1, <2>8, <2>12
    <3>2. n \in Nat /\ k \in Nat
      BY <2>7
    <3>3. n < k \/ k < n
      BY <2>12, <3>2
    <3>4. ResourceBefore(changes, <<c, m>>, <<c, m>>)
      BY <1>3, <2>6, <3>1, <3>3
    <3>5. PrioOf(changes, <<c, m>>) = 3
      BY <1>3, <2>3, <2>5, <2>6 DEF PrioOf
    <3>6. m \in Nat /\ c \in Nat
      BY <1>2, <2>2 DEF IsChanges
    <3>7. QED
      BY <3>4, <3>5, <3>6 DEF ResourceBefore
  <2>13. QED
    BY <2>6, <2>9, <2>10, <2>11, <2>12 DEF InstallsWhole
<1>8. QED
  BY <1>5, <1>6, <1>7 DEF steps, To

LEMMA HostPlan ==
  ASSUME NEW hosts \in [Comps -> Directories], NEW files \in [Comps -> [Paths -> Nat]],
         NEW units, NEW assigned \in SUBSET Comps
  PROVE  LET plan == PlanHost(hosts, files, units, assigned) IN
         /\ plan.steps \in Seq(Changes \cup {HostReload})
         /\ \A k \in DOMAIN plan.steps :
               \/ plan.steps[k] = HostReload
               \/ \E c \in Comps : plan.steps[k] \in ChangesTo(c, hosts[c], files[c], c \in assigned)
         /\ plan.ok =>
               /\ \A c \in Comps : hosts[c].data => Loads(hosts[c])
               /\ \A c \in assigned : files[c][Manifest] # Absent
               /\ \A c \in assigned : ~hosts[c].data => InstallsWhole(c, files[c], plan.steps)
<1> DEFINE part == [c \in Comps |->
                       PlanComponent(c, hosts[c], files[c], units[c], c \in assigned)]
           changes == [c \in Comps |-> part[c].actions]
           reload == \E c \in Comps : part[c].reload
           installed == {c \in Comps : hosts[c].data}
           good == /\ \A c \in installed : Loads(hosts[c])
                   /\ \A c \in assigned : files[c][Manifest] # Absent
                   /\ \A c \in Comps : part[c].ok
                   /\ ValidSteps(Steps(changes, reload), installed)
           plan == PlanHost(hosts, files, units, assigned)
<1>1. plan = IF good THEN [ok |-> TRUE, steps |-> Steps(changes, reload)]
                     ELSE [ok |-> FALSE, steps |-> <<>>]
  BY DEF PlanHost
<1>2. CASE ~good
  <2>. HIDE DEF good, changes, reload, plan
  <2>1. plan.steps = <<>> /\ plan.ok = FALSE
    BY <1>1, <1>2
  <2>2. QED
    BY <2>1 DEF plan
<1>3. CASE good
  <2>1. ASSUME NEW c \in Comps
        PROVE  /\ changes[c] \in Seq(ChangesTo(c, hosts[c], files[c], c \in assigned))
               /\ ~hosts[c].data /\ c \in assigned => ArrivesWhole(c, files[c], changes[c])
    <3>1. changes[c] = PlanComponent(c, hosts[c], files[c], units[c], c \in assigned).actions
      OBVIOUS
    <3>2. /\ files[c] \in [Paths -> Nat] /\ hosts[c] \in Directories /\ (c \in assigned) \in BOOLEAN
          /\ c \in assigned => files[c][Manifest] # Absent
      BY <1>3
    <3>. HIDE DEF changes, part
    <3>3. QED
      BY <3>1, <3>2, ComponentPlan
  <2>2. DOMAIN changes = Comps /\ reload \in BOOLEAN
    OBVIOUS
  <2>3. /\ \A c \in Comps : hosts[c].data => Loads(hosts[c])
        /\ \A c \in assigned : files[c][Manifest] # Absent
    BY <1>3
  <2>4. plan.ok /\ plan.steps = Steps(changes, reload)
    <3>. HIDE DEF good, changes, reload
    <3>1. QED
      BY <1>1, <1>3
  <2>. HIDE DEF changes, reload, plan, part, good
  <2>5. LET steps == Steps(changes, reload) IN
        /\ steps \in Seq(Changes \cup {HostReload})
        /\ \A k \in DOMAIN steps :
              \/ steps[k] = HostReload
              \/ \E c \in Comps : steps[k] \in ChangesTo(c, hosts[c], files[c], c \in assigned)
        /\ \A c \in assigned : ~hosts[c].data => InstallsWhole(c, files[c], steps)
    BY <2>1, <2>2, StepsOfPlan
  <2>6. QED
    BY <2>3, <2>4, <2>5 DEF plan
<1>4. QED
  BY <1>2, <1>3

-----------------------------------------------------------------------------
(* What a component needs, and in which order *)

(* The resource steps that make a component what the source says, or       *)
(* remove it, from a directory of the current version.                     *)
Needed(c, d, files, assigned) ==
    CASE ~d.data /\ assigned -> Installs(c, files)
      [] d.data /\ ~assigned ->
             {OnComponent("Remove", c)} \cup {OnResource("Remove", c, p, Absent) : p \in Held(d)}
      [] d.data /\ assigned ->
             {OnResource("Remove", c, p, Absent) : p \in Dropped(d, files)}
             \cup {OnResource("Install", c, p, files[p]) :
                      p \in {q \in Paths : files[q] # Absent /\ d.at[q] = Absent}}
             \cup {OnResource("Update", c, p, files[p]) : p \in Changed(d, files)}
      [] OTHER -> {}

(* The order the file system asks for: the component's directories first,  *)
(* or last; a directory before what is installed in it, and after what is  *)
(* removed from it.  An update does not keep the last rule for a directory *)
(* in a directory.                                                         *)
MustPrecede(s, t, assigned) ==
    \/ s.kind = "Component" /\ s.todo = "Install" /\ t # s
    \/ t.kind = "Component" /\ t.todo = "Remove" /\ s # t
    \/ s.todo = "Install" /\ t.todo = "Install" /\ t.path \in Paths /\ s.path = Within[t.path]
    \/ /\ s.todo = "Remove" /\ t.todo = "Remove" /\ s.path \in Paths /\ t.path = Within[s.path]
       /\ assigned => s.kind # "Directory"

Precedes(a, i, j) == a[i].prio < a[j].prio \/ (a[i].prio = a[j].prio /\ i < j)

(* A list of the elements of X, each once, that keeps that order.          *)
Tidy(f, X, assigned) ==
    /\ f \in Seq(X)
    /\ \A e \in X : \E i \in DOMAIN f : f[i] = e
    /\ \A i, j \in DOMAIN f : f[i] = f[j] => i = j
    /\ \A i, j \in DOMAIN f : MustPrecede(f[i], f[j], assigned) => Precedes(f, i, j)

LEMMA PathChange ==
  ASSUME NEW c \in Comps, NEW p \in Paths, NEW content \in Nat,
         NEW todo \in {"Install", "Update", "Remove"}
  PROVE  LET e == OnResource(todo, c, p, content) IN
         /\ e \in Changes /\ e.todo = todo /\ e.kind = KindOf[p] /\ e.kind # "Component"
         /\ e.comp = c /\ e.path = p /\ e.path # 0 /\ e.content = content /\ e.list = "resource"
         /\ e.prio = IF KindOf[p] \notin {"Directory", "DropinDir"} \/ todo = "Update" THEN 3
                     ELSE IF todo = "Install" THEN 2 ELSE 4
<1>1. todo \in Todos /\ ~IsServiceAction(todo)
  BY DEF Todos, IsServiceAction
<1>2. KindOf[p] \notin {"Component", "Host"} /\ p # 0
  BY KindsOfFiles, RepositoryAssumption
<1>3. DefaultPriority(KindOf[p], todo) =
         IF KindOf[p] \notin {"Directory", "DropinDir"} \/ todo = "Update" THEN 3
         ELSE IF todo = "Install" THEN 2 ELSE 4
  <2>1. CASE todo = "Install"
    BY <1>2, <2>1 DEF DefaultPriority, IsDirectory
  <2>2. CASE todo = "Update"
    BY <1>2, <2>2 DEF DefaultPriority, IsDirectory
  <2>3. CASE todo = "Remove"
    BY <1>2, <2>3 DEF DefaultPriority, IsDirectory
  <2>4. QED
    BY <2>1, <2>2, <2>3
<1>4. OnResource(todo, c, p, content).prio = DefaultPriority(KindOf[p], todo)
  BY DEF OnResource, Filed
<1>5. QED
  BY <1>1, <1>2, <1>3, <1>4, ResourceChange

LEMMA HomeChange ==
  ASSUME NEW c \in Comps, NEW todo \in {"Install", "Remove"}
  PROVE  LET e == OnComponent(todo, c) IN
         /\ e \in Changes /\ e.todo = todo /\ e.kind = "Component"
         /\ e.comp = c /\ e.path = 0 /\ e.path \notin Paths /\ e.list = "resource"
         /\ e.prio = IF todo = "Install" THEN 2 ELSE 4
<1>1. todo \in FileTodos /\ 0 \notin Paths
  BY RepositoryAssumption DEF FileTodos
<1>2. DefaultPriority("Component", todo) = IF todo = "Install" THEN 2 ELSE 4
  BY DEF DefaultPriority, IsDirectory
<1>3. OnComponent(todo, c).prio = DefaultPriority("Component", todo)
  BY DEF OnComponent, Filed
<1>4. QED
  BY <1>1, <1>2, <1>3, ComponentChange

(* Two tidy lists in a row.                                                *)
LEMMA TidyJoined ==
  ASSUME NEW X, NEW Y, NEW assigned, NEW f, NEW g, Tidy(f, X, assigned), Tidy(g, Y, assigned),
         X \cap Y = {}, \A e \in X \cup Y : e.prio \in Nat,
         \A x \in X, y \in Y : /\ MustPrecede(x, y, assigned) => x.prio <= y.prio
                               /\ ~MustPrecede(y, x, assigned)
  PROVE  Tidy(f \o g, X \cup Y, assigned)
<1> DEFINE h == f \o g
           n == Len(f)
           m == Len(g)
<1>1. f \in Seq(X) /\ g \in Seq(Y)
  BY DEF Tidy
<1>2. /\ h \in Seq(X \cup Y) /\ n \in Nat /\ m \in Nat
      /\ DOMAIN h = 1..(n + m) /\ DOMAIN f = 1..n /\ DOMAIN g = 1..m
      /\ \A i \in 1..n : h[i] = f[i] /\ f[i] \in X
      /\ \A i \in 1..m : h[n + i] = g[i] /\ g[i] \in Y
  <2>1. f \in Seq(X \cup Y) /\ g \in Seq(X \cup Y)
    BY <1>1
  <2>2. QED
    BY <1>1, <2>1, ConcatProperties, LenProperties
<1>. HIDE DEF h, n, m
<1>3. ASSUME NEW e \in X \cup Y PROVE \E i \in DOMAIN h : h[i] = e
  <2>1. CASE e \in X
    <3>1. PICK i \in 1..n : f[i] = e
      BY <1>2, <2>1 DEF Tidy
    <3>2. QED
      BY <1>2, <3>1
  <2>2. CASE e \in Y
    <3>1. PICK i \in 1..m : g[i] = e
      BY <1>2, <2>2 DEF Tidy
    <3>2. n + i \in DOMAIN h
      BY <1>2
    <3>3. QED
      BY <1>2, <3>1, <3>2
  <2>3. QED
    BY <2>1, <2>2
<1>4. ASSUME NEW i \in DOMAIN h
      PROVE  \/ i \in 1..n /\ h[i] = f[i] /\ f[i] \in X
             \/ i - n \in 1..m /\ i = n + (i - n) /\ h[i] = g[i - n] /\ g[i - n] \in Y
                /\ \A j \in 1..n : j < i
  BY <1>2
<1>5. ASSUME NEW i \in DOMAIN h, NEW j \in DOMAIN h, h[i] = h[j] PROVE i = j
  <2>1. CASE i \in 1..n /\ j \in 1..n
    BY <1>2, <1>5, <2>1 DEF Tidy
  <2>2. CASE i \notin 1..n /\ j \notin 1..n
    <3>1. i - n = j - n
      BY <1>2, <1>4, <1>5, <2>2 DEF Tidy
    <3>2. i \in Nat /\ j \in Nat
      BY <1>2
    <3>3. QED
      BY <1>2, <3>1, <3>2
  <2>3. CASE i \in 1..n /\ j \notin 1..n
    BY <1>4, <1>2, <1>5, <2>3
  <2>4. CASE i \notin 1..n /\ j \in 1..n
    BY <1>4, <1>2, <1>5, <2>4
  <2>5. QED
    BY <2>1, <2>2, <2>3, <2>4
<1>6. ASSUME NEW i \in DOMAIN h, NEW j \in DOMAIN h, MustPrecede(h[i], h[j], assigned)
      PROVE  Precedes(h, i, j)
  <2>0. i \in Nat /\ j \in Nat
    BY <1>2
  <2>1. CASE i \in 1..n /\ j \in 1..n
    <3>1. Precedes(f, i, j)
      BY <1>2, <1>6, <2>1 DEF Tidy
    <3>2. QED
      BY <1>2, <2>1, <3>1 DEF Precedes
  <2>2. CASE i \notin 1..n /\ j \notin 1..n
    <3>1. Precedes(g, i - n, j - n)
      BY <1>2, <1>4, <1>6, <2>2 DEF Tidy
    <3>2. h[i] = g[i - n] /\ h[j] = g[j - n]
      BY <1>4, <2>2
    <3>3. i - n < j - n => i < j
      BY <1>2, <2>0
    <3>4. QED
      BY <3>1, <3>2, <3>3 DEF Precedes
  <2>3. CASE i \in 1..n /\ j \notin 1..n
    <3>1. h[i] \in X /\ h[j] \in Y /\ i < j
      BY <1>4, <1>2, <2>3
    <3>2. h[i].prio <= h[j].prio /\ h[i].prio \in Nat /\ h[j].prio \in Nat
      BY <1>6, <3>1
    <3>3. QED
      BY <3>1, <3>2 DEF Precedes
  <2>4. CASE i \notin 1..n /\ j \in 1..n
    BY <1>4, <1>2, <1>6, <2>4
  <2>5. QED
    BY <2>1, <2>2, <2>3, <2>4
<1>7. QED
  BY <1>2, <1>3, <1>5, <1>6 DEF Tidy, h

(* The three listings of a set of paths, each in the order of its name.    *)
LEMMA ListedInTurn ==
  ASSUME NEW S \in SUBSET Paths
  PROVE  /\ IsListing(S, SourceListing(S))
         /\ \A j, k \in 1..Cardinality(S) : j < k =>
               SourceOrder(SourceListing(S)[j], SourceListing(S)[k])
         /\ IsListing(S, HostListing(S))
         /\ \A j, k \in 1..Cardinality(S) : j < k =>
               HostOrder(HostListing(S)[j], HostListing(S)[k])
         /\ IsListing(S, BackwardListing(S))
         /\ \A j, k \in 1..Cardinality(S) : j < k =>
               HostOrder(BackwardListing(S)[k], BackwardListing(S)[j])
<1> DEFINE R == {p \in S \X S : SourceOrder(p[1], p[2])}
           H == {p \in S \X S : HostOrder(p[1], p[2])}
           B == {p \in S \X S : HostOrder(p[2], p[1])}
<1>1. LinearOn(S, R)
  BY PathsAreNumbers DEF LinearOn, SourceOrder
<1>2. LinearOn(S, H)
  BY HostOrderLinear DEF LinearOn
<1>9. LinearOn(S, B)
  BY HostOrderLinear DEF LinearOn
<1>3. /\ SourceListing(S) = Ordered(S, R)
      /\ HostListing(S) = Ordered(S, H)
      /\ BackwardListing(S) = Ordered(S, B)
  BY DEF SourceListing, HostListing, BackwardListing, InOrder
<1>4. /\ \A x, y : <<x, y>> \in R => SourceOrder(x, y)
      /\ \A x, y : <<x, y>> \in H => HostOrder(x, y)
      /\ \A x, y : <<x, y>> \in B => HostOrder(y, x)
  OBVIOUS
<1>. HIDE DEF R, H, B
<1>10. ASSUME NEW O, LinearOn(S, O)
       PROVE  /\ IsListing(S, Ordered(S, O))
              /\ \A j, k \in 1..Cardinality(S) : j < k => <<Ordered(S, O)[j], Ordered(S, O)[k]>> \in O
  <2>1. /\ Cardinality(S) \in Nat
        /\ Ordered(S, O) \in [1..Cardinality(S) -> S]
        /\ \A e \in S : \E k \in DOMAIN Ordered(S, O) : Ordered(S, O)[k] = e
        /\ \A j, k \in DOMAIN Ordered(S, O) : j < k => <<Ordered(S, O)[j], Ordered(S, O)[k]>> \in O
    BY <1>10, OrderedLists, PathsAreNumbers
  <2>2. DOMAIN Ordered(S, O) = 1..Cardinality(S)
    BY <2>1
  <2>. HIDE DEF R, H, B
  <2>3. QED
    BY <2>1, <2>2 DEF IsListing
<1>5. /\ \A j, k \in 1..Cardinality(S) : j < k => <<SourceListing(S)[j], SourceListing(S)[k]>> \in R
      /\ IsListing(S, SourceListing(S))
  BY <1>1, <1>3, <1>10
<1>6. /\ \A j, k \in 1..Cardinality(S) : j < k => <<HostListing(S)[j], HostListing(S)[k]>> \in H
      /\ IsListing(S, HostListing(S))
  BY <1>2, <1>3, <1>10
<1>7. /\ \A j, k \in 1..Cardinality(S) : j < k => <<BackwardListing(S)[j], BackwardListing(S)[k]>> \in B
      /\ IsListing(S, BackwardListing(S))
  BY <1>9, <1>3, <1>10
<1>8. QED
  BY <1>4, <1>5, <1>6, <1>7

(* A list of changes to the paths of a listing has them once each.         *)
LEMMA BlockList ==
  ASSUME NEW c \in Comps, NEW S \in SUBSET Paths, NEW s, IsListing(S, s),
         \A j, k \in 1..Cardinality(S) : j < k => s[j] # s[k],
         NEW todo \in {"Install", "Update", "Remove"}, NEW content \in [Paths -> Nat]
  PROVE  LET f == [i \in DOMAIN s |-> OnResource(todo, c, s[i], content[s[i]])]
             X == {OnResource(todo, c, p, content[p]) : p \in S}
         IN  /\ f \in Seq(X) /\ DOMAIN f = 1..Cardinality(S) /\ Cardinality(S) \in Nat
             /\ \A e \in X : \E i \in DOMAIN f : f[i] = e
             /\ \A i, j \in DOMAIN f : f[i] = f[j] => i = j
             /\ \A i \in DOMAIN f : s[i] \in S /\ f[i] = OnResource(todo, c, s[i], content[s[i]])
<1> DEFINE n == Cardinality(S)
           f == [i \in DOMAIN s |-> OnResource(todo, c, s[i], content[s[i]])]
           X == {OnResource(todo, c, p, content[p]) : p \in S}
<1>1. n \in Nat /\ s \in [1..n -> S] /\ \A e \in S : \E k \in 1..n : s[k] = e
  BY DEF IsListing
<1>2. \A i \in 1..n : s[i] \in S /\ f[i] = OnResource(todo, c, s[i], content[s[i]]) /\ f[i].path = s[i]
  <2>1. \A i \in 1..n : s[i] \in S /\ s[i] \in Paths /\ content[s[i]] \in Nat
    BY <1>1
  <2>2. QED
    BY <1>1, <2>1, PathChange
<1>3. f \in [1..n -> X]
  BY <1>1
<1>4. \A e \in X : \E i \in 1..n : f[i] = e
  BY <1>1
<1>. HIDE DEF f, X, n
<1>5. f \in Seq(X) /\ DOMAIN f = 1..n
  BY <1>1, <1>3, SequenceOf
<1>6. ASSUME NEW i \in 1..n, NEW j \in 1..n, f[i] = f[j] PROVE i = j
  <2>1. s[i] = s[j]
    BY <1>2, <1>6
  <2>2. ~(i < j) /\ ~(j < i)
    BY <2>1 DEF n
  <2>3. QED
    BY <1>1, <2>2
<1>7. QED
  BY <1>1, <1>2, <1>4, <1>5, <1>6 DEF f, X, n

(* A directory, which no file is.                                          *)
LEMMA Homes ==
  ASSUME NEW p \in Paths, Within[p] # 0
  PROVE  /\ Within[p] \in Paths /\ Within[p] < p
         /\ KindOf[Within[p]] \in {"Directory", "DropinDir"} /\ ~IsFile(KindOf[Within[p]])
         /\ Within[p] # Manifest
         /\ KindOf[p] = "Directory" => KindOf[Within[p]] = "Directory"
         /\ KindOf[p] # "DropinDir"
         /\ KindOf[p] # "Dropin" => KindOf[Within[p]] = "Directory"
BY RepositoryAssumption DEF IsFile, QuadletKinds

LEMMA InstallsTidy ==
  ASSUME NEW c \in Comps, NEW S \in SUBSET Paths, NEW files \in [Paths -> Nat], NEW assigned
  PROVE  Tidy(MapSeq(SourceListing(S), LAMBDA p : OnResource("Install", c, p, files[p])),
              {OnResource("Install", c, p, files[p]) : p \in S}, assigned)
<1> DEFINE s == SourceListing(S)
           n == Cardinality(S)
           f == [i \in DOMAIN s |-> OnResource("Install", c, s[i], files[s[i]])]
           X == {OnResource("Install", c, p, files[p]) : p \in S}
<1>1. IsListing(S, s) /\ \A j, k \in 1..n : j < k => SourceOrder(s[j], s[k])
  BY ListedInTurn
<1>2. \A j, k \in 1..n : j < k => s[j] # s[k]
  <2>1. \A p \in Paths : ~SourceOrder(p, p)
    BY PathsAreNumbers DEF SourceOrder
  <2>2. \A j \in 1..n : s[j] \in Paths
    BY <1>1 DEF IsListing
  <2>3. QED
    BY <1>1, <2>1, <2>2
<1>. HIDE DEF s
<1>3. /\ f \in Seq(X) /\ DOMAIN f = 1..n /\ n \in Nat
      /\ \A e \in X : \E i \in DOMAIN f : f[i] = e
      /\ \A i, j \in DOMAIN f : f[i] = f[j] => i = j
      /\ \A i \in DOMAIN f : s[i] \in S /\ f[i] = OnResource("Install", c, s[i], files[s[i]])
  BY <1>1, <1>2, BlockList
<1>. HIDE DEF f, X
<1>4. ASSUME NEW i \in DOMAIN f, NEW j \in DOMAIN f, MustPrecede(f[i], f[j], assigned)
      PROVE  Precedes(f, i, j)
  <2>0. /\ s[i] \in Paths /\ s[j] \in Paths /\ files[s[i]] \in Nat /\ files[s[j]] \in Nat
        /\ f[i] = OnResource("Install", c, s[i], files[s[i]])
        /\ f[j] = OnResource("Install", c, s[j], files[s[j]])
    BY <1>3
  <2>1. /\ f[i].path = s[i] /\ f[i].todo = "Install" /\ f[i].kind # "Component"
        /\ f[i].prio = IF KindOf[s[i]] \in {"Directory", "DropinDir"} THEN 2 ELSE 3
        /\ f[i].path # 0
    BY <2>0, PathChange
  <2>2. /\ f[j].path = s[j] /\ f[j].todo = "Install" /\ f[j].kind # "Component"
        /\ f[j].prio = IF KindOf[s[j]] \in {"Directory", "DropinDir"} THEN 2 ELSE 3
    BY <2>0, PathChange
  <2>3. s[i] = Within[s[j]] /\ Within[s[j]] # 0
    BY <1>4, <2>1, <2>2 DEF MustPrecede
  <2>4. KindOf[s[i]] \in {"Directory", "DropinDir"} /\ s[i] < s[j] /\ s[i] # Manifest
    BY <2>0, <2>3, Homes
  <2>5. i \in Nat /\ j \in Nat /\ i \in 1..n /\ j \in 1..n
    BY <1>3
  <2>6. SUFFICES ASSUME ~(i < j) PROVE FALSE
    BY <2>1, <2>2, <2>4 DEF Precedes
  <2>7. j < i
    <3>1. s[i] \in Nat /\ s[j] \in Nat
      BY <2>0, RepositoryAssumption
    <3>2. i # j
      BY <2>4, <3>1
    <3>3. QED
      BY <2>5, <2>6, <3>2
  <2>8. SourceOrder(s[j], s[i])
    BY <1>1, <2>5, <2>7
  <2>9. QED
    BY <2>0, <2>4, <2>8, RepositoryAssumption DEF SourceOrder
<1>5. Tidy(f, X, assigned)
  BY <1>3, <1>4 DEF Tidy
<1>6. QED
  BY <1>5 DEF f, X, s, MapSeq

LEMMA UpdatesTidy ==
  ASSUME NEW c \in Comps, NEW S \in SUBSET Paths, NEW files \in [Paths -> Nat], NEW assigned
  PROVE  Tidy(MapSeq(HostListing(S), LAMBDA p : OnResource("Update", c, p, files[p])),
              {OnResource("Update", c, p, files[p]) : p \in S}, assigned)
<1> DEFINE s == HostListing(S)
           n == Cardinality(S)
           f == [i \in DOMAIN s |-> OnResource("Update", c, s[i], files[s[i]])]
           X == {OnResource("Update", c, p, files[p]) : p \in S}
<1>1. IsListing(S, s) /\ \A j, k \in 1..n : j < k => HostOrder(s[j], s[k])
  BY ListedInTurn
<1>2. \A j, k \in 1..n : j < k => s[j] # s[k]
  <2>1. \A j \in 1..n : s[j] \in Paths
    BY <1>1 DEF IsListing
  <2>2. QED
    BY <1>1, <2>1, HostOrderLinear
<1>. HIDE DEF s
<1>3. /\ f \in Seq(X) /\ DOMAIN f = 1..n /\ n \in Nat
      /\ \A e \in X : \E i \in DOMAIN f : f[i] = e
      /\ \A i, j \in DOMAIN f : f[i] = f[j] => i = j
      /\ \A i \in DOMAIN f : s[i] \in S /\ f[i] = OnResource("Update", c, s[i], files[s[i]])
  BY <1>1, <1>2, BlockList
<1>. HIDE DEF f, X
<1>4. ASSUME NEW i \in DOMAIN f PROVE f[i].todo = "Update"
  BY <1>3, PathChange
<1>5. \A i, j \in DOMAIN f : ~MustPrecede(f[i], f[j], assigned)
  BY <1>4 DEF MustPrecede
<1>6. Tidy(f, X, assigned)
  BY <1>3, <1>5 DEF Tidy
<1>7. QED
  BY <1>6 DEF f, X, s, MapSeq

(* What a list of removals keeps of the order.                             *)
LEMMA RemovalOrder ==
  ASSUME NEW c \in Comps, NEW p \in Paths, NEW q \in Paths, NEW assigned,
         MustPrecede(OnResource("Remove", c, p, Absent), OnResource("Remove", c, q, Absent), assigned)
  PROVE  /\ q = Within[p] /\ q < p /\ KindOf[q] \in {"Directory", "DropinDir"}
         /\ OnResource("Remove", c, q, Absent).prio = 4
         /\ OnResource("Remove", c, p, Absent).prio = IF KindOf[p] = "Directory" THEN 4 ELSE 3
         /\ KindOf[p] = "Directory" => ~assigned /\ HostOrder(q, p)
<1> DEFINE s == OnResource("Remove", c, p, Absent)
           t == OnResource("Remove", c, q, Absent)
<1>1. /\ s.todo = "Remove" /\ s.kind = KindOf[p] /\ s.kind # "Component" /\ s.path = p
      /\ s.prio = IF KindOf[p] \in {"Directory", "DropinDir"} THEN 4 ELSE 3
  BY PathChange DEF Absent
<1>2. /\ t.todo = "Remove" /\ t.kind = KindOf[q] /\ t.kind # "Component" /\ t.path = q
      /\ t.path # 0
      /\ t.prio = IF KindOf[q] \in {"Directory", "DropinDir"} THEN 4 ELSE 3
  BY PathChange DEF Absent
<1>. HIDE DEF s, t
<1>3. q = Within[p] /\ Within[p] # 0 /\ (assigned => KindOf[p] # "Directory")
  BY <1>1, <1>2 DEF MustPrecede, s, t
<1>4. /\ q < p /\ KindOf[q] \in {"Directory", "DropinDir"} /\ KindOf[p] # "DropinDir"
      /\ KindOf[p] = "Directory" => KindOf[q] = "Directory"
      /\ q # Manifest
  BY <1>3, Homes
<1>5. KindOf[p] = "Directory" => HostOrder(q, p)
  <2>1. SUFFICES ASSUME KindOf[p] = "Directory" PROVE HostOrder(q, p)
    OBVIOUS
  <2>2. p # Manifest
    BY <2>1, RepositoryAssumption
  <2>3. ~InQuadlets(p) /\ ~InQuadlets(q)
    BY <1>4, <2>1 DEF InQuadlets, IsQuadlet, QuadletKinds
  <2>4. QED
    BY <1>4, <2>2, <2>3 DEF HostOrder
<1>6. QED
  BY <1>1, <1>2, <1>3, <1>4, <1>5 DEF s, t

LEMMA DropsTidy ==
  ASSUME NEW c \in Comps, NEW S \in SUBSET Paths
  PROVE  Tidy(MapSeq(HostListing(S), LAMBDA p : OnResource("Remove", c, p, Absent)),
              {OnResource("Remove", c, p, Absent) : p \in S}, TRUE)
<1> DEFINE s == HostListing(S)
           n == Cardinality(S)
           none == [p \in Paths |-> Absent]
           f == [i \in DOMAIN s |-> OnResource("Remove", c, s[i], none[s[i]])]
           X == {OnResource("Remove", c, p, none[p]) : p \in S}
<1>1. IsListing(S, s) /\ \A j, k \in 1..n : j < k => HostOrder(s[j], s[k])
  BY ListedInTurn
<1>2. \A j, k \in 1..n : j < k => s[j] # s[k]
  <2>1. \A j \in 1..n : s[j] \in Paths
    BY <1>1 DEF IsListing
  <2>2. QED
    BY <1>1, <2>1, HostOrderLinear
<1>. HIDE DEF s
<1>3. none \in [Paths -> Nat] /\ \A p \in Paths : none[p] = Absent
  BY DEF Absent
<1>. HIDE DEF none
<1>4. /\ f \in Seq(X) /\ DOMAIN f = 1..n /\ n \in Nat
      /\ \A e \in X : \E i \in DOMAIN f : f[i] = e
      /\ \A i, j \in DOMAIN f : f[i] = f[j] => i = j
      /\ \A i \in DOMAIN f : s[i] \in S /\ f[i] = OnResource("Remove", c, s[i], none[s[i]])
  BY <1>1, <1>2, <1>3, BlockList
<1>5. \A i \in DOMAIN f : s[i] \in Paths /\ f[i] = OnResource("Remove", c, s[i], Absent)
  BY <1>3, <1>4
<1>6. f = [i \in DOMAIN s |-> OnResource("Remove", c, s[i], Absent)]
      /\ X = {OnResource("Remove", c, p, Absent) : p \in S}
  <2>1. \A i \in DOMAIN s : none[s[i]] = Absent
    BY <1>1, <1>3 DEF IsListing
  <2>2. QED
    BY <1>3, <2>1
<1>. HIDE DEF f, X
<1>7. ASSUME NEW i \in DOMAIN f, NEW j \in DOMAIN f, MustPrecede(f[i], f[j], TRUE)
      PROVE  Precedes(f, i, j)
  <2>1. MustPrecede(OnResource("Remove", c, s[i], Absent), OnResource("Remove", c, s[j], Absent), TRUE)
    BY <1>5, <1>7
  <2>2. s[i] \in Paths /\ s[j] \in Paths
    BY <1>5
  <2>3. OnResource("Remove", c, s[j], Absent).prio = 4 /\ OnResource("Remove", c, s[i], Absent).prio = 3
    BY <2>1, <2>2, RemovalOrder
  <2>4. QED
    BY <1>5, <2>3 DEF Precedes
<1>8. Tidy(f, X, TRUE)
  BY <1>4, <1>7 DEF Tidy
<1>9. QED
  BY <1>6, <1>8 DEF s, MapSeq

LEMMA RemovalsTidy ==
  ASSUME NEW c \in Comps, NEW S \in SUBSET Paths
  PROVE  Tidy(MapSeq(BackwardListing(S), LAMBDA p : OnResource("Remove", c, p, Absent)),
              {OnResource("Remove", c, p, Absent) : p \in S}, FALSE)
<1> DEFINE s == BackwardListing(S)
           n == Cardinality(S)
           none == [p \in Paths |-> Absent]
           f == [i \in DOMAIN s |-> OnResource("Remove", c, s[i], none[s[i]])]
           X == {OnResource("Remove", c, p, none[p]) : p \in S}
<1>1. IsListing(S, s) /\ \A j, k \in 1..n : j < k => HostOrder(s[k], s[j])
  BY ListedInTurn
<1>2. \A j, k \in 1..n : j < k => s[j] # s[k]
  <2>1. \A j \in 1..n : s[j] \in Paths
    BY <1>1 DEF IsListing
  <2>2. QED
    BY <1>1, <2>1, HostOrderLinear
<1>. HIDE DEF s
<1>3. none \in [Paths -> Nat] /\ \A p \in Paths : none[p] = Absent
  BY DEF Absent
<1>. HIDE DEF none
<1>4. /\ f \in Seq(X) /\ DOMAIN f = 1..n /\ n \in Nat
      /\ \A e \in X : \E i \in DOMAIN f : f[i] = e
      /\ \A i, j \in DOMAIN f : f[i] = f[j] => i = j
      /\ \A i \in DOMAIN f : s[i] \in S /\ f[i] = OnResource("Remove", c, s[i], none[s[i]])
  BY <1>1, <1>2, <1>3, BlockList
<1>5. \A i \in DOMAIN f : s[i] \in Paths /\ f[i] = OnResource("Remove", c, s[i], Absent)
  BY <1>3, <1>4
<1>6. f = [i \in DOMAIN s |-> OnResource("Remove", c, s[i], Absent)]
      /\ X = {OnResource("Remove", c, p, Absent) : p \in S}
  <2>1. \A i \in DOMAIN s : none[s[i]] = Absent
    BY <1>1, <1>3 DEF IsListing
  <2>2. QED
    BY <1>3, <2>1
<1>. HIDE DEF f, X
<1>7. ASSUME NEW i \in DOMAIN f, NEW j \in DOMAIN f, MustPrecede(f[i], f[j], FALSE)
      PROVE  Precedes(f, i, j)
  <2>1. /\ f[j].prio = 4
        /\ f[i].prio = IF KindOf[s[i]] = "Directory" THEN 4 ELSE 3
        /\ KindOf[s[i]] = "Directory" => HostOrder(s[j], s[i])
    <3>1. /\ s[i] \in Paths /\ s[j] \in Paths
          /\ MustPrecede(OnResource("Remove", c, s[i], Absent),
                         OnResource("Remove", c, s[j], Absent), FALSE)
      BY <1>5, <1>7
    <3>2. /\ OnResource("Remove", c, s[j], Absent).prio = 4
          /\ OnResource("Remove", c, s[i], Absent).prio = IF KindOf[s[i]] = "Directory" THEN 4 ELSE 3
          /\ KindOf[s[i]] = "Directory" => HostOrder(s[j], s[i])
      BY <3>1, RemovalOrder
    <3>3. QED
      BY <1>5, <3>2
  <2>2. CASE KindOf[s[i]] # "Directory"
    BY <2>1, <2>2 DEF Precedes
  <2>3. CASE KindOf[s[i]] = "Directory"
    <3>1. i \in 1..n /\ j \in 1..n /\ i \in Nat /\ j \in Nat /\ s[i] \in Paths /\ s[j] \in Paths
      BY <1>4, <1>5
    <3>2. ~(j < i) /\ i # j
      BY <1>1, <2>1, <2>3, <3>1, HostOrderLinear
    <3>3. i < j
      BY <3>1, <3>2
    <3>4. QED
      BY <2>1, <2>3, <3>3 DEF Precedes
  <2>4. QED
    BY <2>2, <2>3
<1>8. Tidy(f, X, FALSE)
  BY <1>4, <1>7 DEF Tidy
<1>9. QED
  BY <1>6, <1>8 DEF s, MapSeq

LEMMA OneTidy ==
  ASSUME NEW e, NEW assigned, ~MustPrecede(e, e, assigned)
  PROVE  Tidy(<<e>>, {e}, assigned)
BY DEF Tidy

LEMMA FreshTidy ==
  ASSUME NEW c \in Comps, NEW files \in [Paths -> Nat]
  PROVE  Tidy(FreshResources(c, files), Installs(c, files), TRUE)
<1> DEFINE S == {p \in Paths : files[p] # Absent}
           h == OnComponent("Install", c)
           X == {OnResource("Install", c, p, files[p]) : p \in S}
           f == MapSeq(SourceListing(S), LAMBDA p : OnResource("Install", c, p, files[p]))
<1>1. FreshResources(c, files) = <<h>> \o f /\ Installs(c, files) = {h} \cup X
  BY DEF FreshResources, Installs
<1>2. Tidy(f, X, TRUE)
  BY InstallsTidy
<1>3. /\ h.todo = "Install" /\ h.kind = "Component" /\ h.path \notin Paths /\ h.prio = 2
  BY HomeChange
<1>4. ASSUME NEW x \in X
      PROVE  x.todo = "Install" /\ x.kind # "Component" /\ x.prio \in {2, 3}
  <2>1. PICK p \in S : x = OnResource("Install", c, p, files[p])
    OBVIOUS
  <2>2. p \in Paths /\ files[p] \in Nat
    OBVIOUS
  <2>3. QED
    BY <2>1, <2>2, PathChange
<1>. HIDE DEF h, X, f
<1>5. ~MustPrecede(h, h, TRUE)
  BY <1>3 DEF MustPrecede
<1>6. Tidy(<<h>>, {h}, TRUE)
  BY <1>5, OneTidy
<1>7. \A x \in {h}, y \in X : /\ MustPrecede(x, y, TRUE) => x.prio <= y.prio
                              /\ ~MustPrecede(y, x, TRUE)
  BY <1>3, <1>4 DEF MustPrecede
<1>8. {h} \cap X = {} /\ \A e \in {h} \cup X : e.prio \in Nat
  BY <1>3, <1>4
<1>. HIDE DEF S
<1>9. Tidy(<<h>> \o f, {h} \cup X, TRUE)
  <2> DEFINE H == {h}
             g == <<h>>
  <2>1. Tidy(g, H, TRUE) /\ H \cap X = {} /\ \A e \in H \cup X : e.prio \in Nat
    BY <1>6, <1>8
  <2>2. \A x \in H, y \in X : /\ MustPrecede(x, y, TRUE) => x.prio <= y.prio
                              /\ ~MustPrecede(y, x, TRUE)
    BY <1>7
  <2>. HIDE DEF H, g
  <2>3. Tidy(g \o f, H \cup X, TRUE)
    BY <1>2, <2>1, <2>2, TidyJoined
  <2>4. QED
    BY <2>3 DEF H, g
<1>10. QED
  BY <1>1, <1>9

LEMMA UpdatedTidy ==
  ASSUME NEW c \in Comps, NEW files \in [Paths -> Nat], NEW d \in Directories,
         d.data, d.version = "current"
  PROVE  Tidy(UpdatedResources(c, d, files), Needed(c, d, files, TRUE), TRUE)
<1> DEFINE D == Dropped(d, files)
           I == {p \in Paths : files[p] # Absent /\ d.at[p] = Absent}
           U == Changed(d, files)
           X == {OnResource("Remove", c, p, Absent) : p \in D}
           Y == {OnResource("Install", c, p, files[p]) : p \in I}
           Z == {OnResource("Update", c, p, files[p]) : p \in U}
           f == MapSeq(HostListing(D), LAMBDA p : OnResource("Remove", c, p, Absent))
           g == MapSeq(SourceListing(I), LAMBDA p : OnResource("Install", c, p, files[p]))
           h == MapSeq(HostListing(U), LAMBDA p : OnResource("Update", c, p, files[p]))
<1>1. UpdatedResources(c, d, files) = f \o g \o h \o <<>>
  BY DEF UpdatedResources
<1>2. Needed(c, d, files, TRUE) = X \cup Y \cup Z
  BY DEF Needed
<1>3. D \in SUBSET Paths /\ I \in SUBSET Paths /\ U \in SUBSET Paths
  BY DEF Dropped, Changed, Held
<1>4. Tidy(f, X, TRUE) /\ Tidy(g, Y, TRUE) /\ Tidy(h, Z, TRUE)
  BY <1>3, DropsTidy, InstallsTidy, UpdatesTidy
<1>5. ASSUME NEW x \in X
      PROVE  x.todo = "Remove" /\ x.kind # "Component" /\ x.prio \in Nat
  <2>1. PICK p \in D : x = OnResource("Remove", c, p, Absent)
    OBVIOUS
  <2>2. p \in Paths /\ Absent \in Nat
    BY <1>3 DEF Absent
  <2>. HIDE DEF D, X
  <2>3. QED
    BY <2>1, <2>2, PathChange
<1>6. ASSUME NEW x \in Y
      PROVE  x.todo = "Install" /\ x.kind # "Component" /\ x.prio \in Nat
  <2>1. PICK p \in I : x = OnResource("Install", c, p, files[p])
    OBVIOUS
  <2>2. p \in Paths /\ files[p] \in Nat
    OBVIOUS
  <2>. HIDE DEF I, Y
  <2>3. QED
    BY <2>1, <2>2, PathChange
<1>7. ASSUME NEW x \in Z
      PROVE  x.todo = "Update" /\ x.kind # "Component" /\ x.prio \in Nat
  <2>1. PICK p \in U : x = OnResource("Update", c, p, files[p])
    OBVIOUS
  <2>2. p \in Paths /\ files[p] \in Nat
    BY <1>3
  <2>. HIDE DEF U, Z
  <2>3. QED
    BY <2>1, <2>2, PathChange
<1>. HIDE DEF X, Y, Z, f, g, h
<1>8. \A x \in X, y \in Y : ~MustPrecede(x, y, TRUE) /\ ~MustPrecede(y, x, TRUE)
  BY <1>5, <1>6 DEF MustPrecede
<1>9. \A x \in X \cup Y, y \in Z : ~MustPrecede(x, y, TRUE) /\ ~MustPrecede(y, x, TRUE)
  BY <1>5, <1>6, <1>7 DEF MustPrecede
<1>10. X \cap Y = {} /\ (X \cup Y) \cap Z = {} /\ \A e \in X \cup Y \cup Z : e.prio \in Nat
  BY <1>5, <1>6, <1>7
<1>11. Tidy(f \o g, X \cup Y, TRUE)
  BY <1>4, <1>8, <1>10, TidyJoined
<1>12. Tidy((f \o g) \o h, (X \cup Y) \cup Z, TRUE)
  BY <1>4, <1>9, <1>10, <1>11, TidyJoined
<1>13. (f \o g) \o h \o <<>> = (f \o g) \o h
  BY <1>12, EmptySeq, ConcatEmptySeq DEF Tidy
<1>14. QED
  BY <1>1, <1>2, <1>12, <1>13

LEMMA RemovedFromHome ==
  ASSUME NEW c \in Comps, NEW p \in Paths, NEW q \in Paths,
         MustPrecede(OnResource("Remove", c, p, Absent), OnResource("Remove", c, q, Absent), FALSE)
  PROVE  q = Within[p]
BY RemovalOrder

LEMMA RemovedTidy ==
  ASSUME NEW c \in Comps, NEW files, NEW d \in Directories, d.data, d.at[Manifest] # Absent
  PROVE  Tidy(RemovedResources(c, d), Needed(c, d, files, FALSE), FALSE)
<1> DEFINE held == Held(d) \ {Manifest}
           F == {p \in held : IsFile(KindOf[p])}
           G == {p \in held : ~IsFile(KindOf[p])}
           removed(S) == MapSeq(BackwardListing(S), LAMBDA p : OnResource("Remove", c, p, Absent))
           m == OnResource("Remove", c, Manifest, Absent)
           h == OnComponent("Remove", c)
           X(S) == {OnResource("Remove", c, p, Absent) : p \in S}
<1>1. RemovedResources(c, d) = removed(F) \o removed(G) \o <<m, h>>
  BY DEF RemovedResources
<1>2. Manifest \in Held(d) /\ Held(d) \subseteq Paths /\ Absent \in Nat /\ Manifest \in Paths
  BY RepositoryAssumption DEF Held, Absent
<1>3. Needed(c, d, files, FALSE) = ((X(F) \cup X(G)) \cup {m}) \cup {h}
  <2>1. Needed(c, d, files, FALSE) = {h} \cup X(Held(d))
    BY DEF Needed
  <2>2. Held(d) = F \cup G \cup {Manifest}
    BY <1>2
  <2>3. QED
    BY <2>1, <2>2
<1>4. F \in SUBSET Paths /\ G \in SUBSET Paths
  BY <1>2
<1>5. Tidy(removed(F), X(F), FALSE) /\ Tidy(removed(G), X(G), FALSE)
  BY <1>4, RemovalsTidy
<1>6. ASSUME NEW p \in Paths
      PROVE  LET x == OnResource("Remove", c, p, Absent) IN
             /\ x.todo = "Remove" /\ x.kind = KindOf[p] /\ x.kind # "Component" /\ x.path = p
             /\ x.prio = IF KindOf[p] \in {"Directory", "DropinDir"} THEN 4 ELSE 3
  BY <1>2, PathChange
<1>7. /\ h.todo = "Remove" /\ h.kind = "Component" /\ h.prio = 4
      /\ h.path = 0 /\ h.path \notin Paths
  BY HomeChange
<1>8. KindOf[Manifest] = "Manifest" /\ Within[Manifest] = 0 /\ Manifest # 0
  BY RepositoryAssumption
<1>. HIDE DEF removed, h
<1>9. Tidy(removed(F) \o removed(G), X(F) \cup X(G), FALSE)
  <2>1. ASSUME NEW x \in X(F), NEW y \in X(G)
        PROVE  /\ MustPrecede(x, y, FALSE) => x.prio <= y.prio
               /\ ~MustPrecede(y, x, FALSE) /\ x # y
    <3>1. PICK p \in F, q \in G : x = OnResource("Remove", c, p, Absent)
                               /\ y = OnResource("Remove", c, q, Absent)
      OBVIOUS
    <3>2. p \in Paths /\ q \in Paths /\ IsFile(KindOf[p]) /\ ~IsFile(KindOf[q])
      BY <1>4, <3>1
    <3>3. KindOf[p] \notin {"Directory", "DropinDir"}
      BY <3>2 DEF IsFile, QuadletKinds
    <3>4. x.prio = 3 /\ y.prio \in {3, 4} /\ x.path = p /\ y.path = q
      BY <1>6, <3>1, <3>2, <3>3
    <3>5. ~MustPrecede(y, x, FALSE)
      BY <3>1, <3>2, <3>3, RemovalOrder
    <3>6. p # q
      BY <3>2
    <3>7. x # y /\ x.prio <= y.prio
      BY <3>4, <3>6
    <3>8. QED
      BY <3>5, <3>7
  <2>2. ASSUME NEW S \in SUBSET Paths, NEW x \in X(S) PROVE x.prio \in Nat
    BY <1>6, <2>2
  <2>3. X(F) \cap X(G) = {}
    BY <2>1
  <2>4. \A e \in X(F) \cup X(G) : e.prio \in Nat
    BY <1>4, <2>2
  <2>. HIDE DEF X
  <2>5. QED
    BY <1>5, <2>1, <2>3, <2>4, TidyJoined
<1>10. Tidy(<<m>>, {m}, FALSE)
  <2>1. ~MustPrecede(m, m, FALSE)
    BY <1>2, <1>8, RemovalOrder
  <2>. HIDE DEF m
  <2>2. QED
    BY <2>1, OneTidy
<1>11. Tidy(<<h>>, {h}, FALSE)
  <2>1. ~MustPrecede(h, h, FALSE)
    BY <1>7 DEF MustPrecede
  <2>2. QED
    BY <2>1, OneTidy
<1>12. ASSUME NEW x \in X(F) \cup X(G)
       PROVE  /\ ~MustPrecede(x, m, FALSE) /\ ~MustPrecede(m, x, FALSE)
              /\ x # m /\ x.prio \in Nat /\ x.prio <= 4 /\ x.kind # "Component" /\ x.todo = "Remove"
  <2>1. PICK p \in F \cup G : x = OnResource("Remove", c, p, Absent)
    OBVIOUS
  <2>2. p \in Paths /\ p # Manifest
    BY <1>4
  <2>3. x.path = p /\ m.path = Manifest /\ x.prio \in {3, 4} /\ x.kind # "Component" /\ x.todo = "Remove"
    BY <1>2, <1>6, <2>1, <2>2
  <2>4. ~MustPrecede(x, m, FALSE) /\ ~MustPrecede(m, x, FALSE)
    <3>1. Manifest # Within[p]
      BY <1>8, <2>2, Homes
    <3>2. p # Within[Manifest]
      BY <1>8, <2>2, RepositoryAssumption
    <3>3. ~MustPrecede(OnResource("Remove", c, p, Absent), OnResource("Remove", c, Manifest, Absent), FALSE)
      BY <1>2, <2>2, <3>1, RemovalOrder
    <3>4. ~MustPrecede(OnResource("Remove", c, Manifest, Absent), OnResource("Remove", c, p, Absent), FALSE)
      BY <1>2, <2>2, <3>2, RemovedFromHome
    <3>5. QED
      BY <2>1, <3>3, <3>4
  <2>. HIDE DEF m
  <2>5. x # m /\ x.prio \in Nat /\ x.prio <= 4
    BY <2>2, <2>3
  <2>6. QED
    BY <2>3, <2>4, <2>5
<1>13. m.prio \in Nat /\ m.prio <= 4 /\ m.kind # "Component" /\ m.todo = "Remove"
  BY <1>2, <1>6
<1>. HIDE DEF X, m
<1>14. Tidy((removed(F) \o removed(G)) \o <<m>>, (X(F) \cup X(G)) \cup {m}, FALSE)
  <2>1. (X(F) \cup X(G)) \cap {m} = {} /\ \A e \in (X(F) \cup X(G)) \cup {m} : e.prio \in Nat
    BY <1>12, <1>13
  <2>2. QED
    BY <1>9, <1>10, <1>12, <2>1, TidyJoined
<1>15. Tidy(((removed(F) \o removed(G)) \o <<m>>) \o <<h>>,
            ((X(F) \cup X(G)) \cup {m}) \cup {h}, FALSE)
  <2>1. ASSUME NEW x \in (X(F) \cup X(G)) \cup {m}
        PROVE  x.prio \in Nat /\ x.prio <= 4 /\ x.kind # "Component" /\ x.todo = "Remove"
    BY <1>12, <1>13
  <2>2. ((X(F) \cup X(G)) \cup {m}) \cap {h} = {}
    BY <1>7, <2>1
  <2>3. \A x \in (X(F) \cup X(G)) \cup {m} : /\ ~MustPrecede(h, x, FALSE)
                                             /\ x.prio <= h.prio
    BY <1>7, <2>1 DEF MustPrecede
  <2>4. \A e \in ((X(F) \cup X(G)) \cup {m}) \cup {h} : e.prio \in Nat
    BY <1>7, <2>1
  <2>5. QED
    BY <1>11, <1>14, <2>2, <2>3, <2>4, TidyJoined
<1>16. ((removed(F) \o removed(G)) \o <<m>>) \o <<h>> = removed(F) \o removed(G) \o <<m, h>>
  <2> DEFINE T == ((X(F) \cup X(G)) \cup {m}) \cup {h}
             e == removed(F) \o removed(G)
  <2>1. e \in Seq(T)
    <3> DEFINE Y == X(F) \cup X(G)
    <3>1. e \in Seq(Y)
      BY <1>9 DEF Tidy
    <3>2. Y \subseteq T
      OBVIOUS
    <3>. HIDE DEF e, Y, T
    <3>3. QED
      BY <3>1, <3>2
  <2>2. m \in T /\ h \in T
    OBVIOUS
  <2>. HIDE DEF e, T
  <2>6. ASSUME NEW x \in T, NEW y \in T PROVE <<x>> \o <<y>> = <<x, y>>
    <3>1. <<x>> \in Seq(T)
      OBVIOUS
    <3>2. <<x>> \o <<y>> = Append(<<x>>, y)
      BY <3>1, AppendIsConcat
    <3>3. Append(<<x>>, y) = <<x, y>>
      <4> DEFINE a == Append(<<x>>, y)
                 b == <<x, y>>
      <4>1. a \in Seq(T) /\ Len(a) = 2 /\ a[1] = x /\ a[2] = y
        BY <3>1, AppendProperties
      <4>2. b \in Seq(T) /\ Len(b) = 2 /\ b[1] = x /\ b[2] = y
        OBVIOUS
      <4>. HIDE DEF a, b
      <4>3. a = b
        BY <4>1, <4>2, SeqEqual
      <4>4. QED
        BY <4>3 DEF a, b
    <3>4. QED
      BY <3>2, <3>3
  <2>7. \A x \in T : <<x>> \in Seq(T)
    OBVIOUS
  <2>5. <<m>> \in Seq(T) /\ <<h>> \in Seq(T) /\ <<m>> \o <<h>> = <<m, h>>
    BY <2>2, <2>6, <2>7
  <2>3. (e \o <<m>>) \o <<h>> = e \o (<<m>> \o <<h>>)
    BY <2>1, <2>5, ConcatAssociative
  <2>4. QED
    BY <2>3, <2>5 DEF e
<1>17. QED
  BY <1>1, <1>3, <1>15, <1>16

(* The jobs for its services: a stop of a unit that exists, a start of     *)
(* what the manifest names, a restart of a container that stays.           *)
JobsFor(c, files, unit, assigned) ==
    {OnResource("Stop", c, p, Absent) : p \in {q \in Paths : Found(unit, q)}}
    \cup {OnResource("Start", c, p, Absent) :
             p \in {q \in Paths : assigned /\ q \in ServicesIn[files[Manifest]]}}
    \cup {OnResource("Restart", c, p, Absent) :
             p \in {q \in Paths : assigned /\ files[q] # Absent /\ KindOf[q] = "Container"}}

LEMMA JobsForFields ==
  ASSUME NEW c \in Comps, NEW files, NEW unit, NEW assigned, NEW e \in JobsFor(c, files, unit, assigned)
  PROVE  /\ e \in Changes /\ e.comp = c /\ e.list = "service" /\ e.path \in Paths
         /\ \/ e.todo = "Stop" /\ e.prio = 1 /\ Found(unit, e.path)
            \/ /\ e.todo \in {"Start", "Restart"} /\ e.prio = 6 /\ assigned
               /\ \/ e.path \in ServicesIn[files[Manifest]]
                  \/ files[e.path] # Absent /\ KindOf[e.path] = "Container"
<1>1. ASSUME NEW todo \in {"Start", "Stop", "Restart"}, NEW p \in Paths
      PROVE  LET x == OnResource(todo, c, p, Absent) IN
             /\ x \in Changes /\ x.comp = c /\ x.list = "service" /\ x.path = p /\ x.todo = todo
             /\ x.prio = IF todo = "Stop" THEN 1 ELSE 6
  <2>1. todo \in Todos /\ IsServiceAction(todo) /\ Absent \in Nat
    BY DEF Todos, IsServiceAction, Absent
  <2>2. DefaultPriority(KindOf[p], todo) = IF todo = "Stop" THEN 1 ELSE 6
    <3>1. CASE todo = "Stop"
      BY <3>1 DEF DefaultPriority
    <3>2. CASE todo = "Start"
      BY <3>2 DEF DefaultPriority
    <3>3. CASE todo = "Restart"
      BY <3>3 DEF DefaultPriority
    <3>4. QED
      BY <3>1, <3>2, <3>3
  <2>3. OnResource(todo, c, p, Absent).prio = DefaultPriority(KindOf[p], todo)
    BY DEF OnResource, Filed
  <2>4. QED
    BY <2>1, <2>2, <2>3, ResourceChange
<1>2. ASSUME NEW p \in Paths, Found(unit, p), e = OnResource("Stop", c, p, Absent)
      PROVE  /\ e \in Changes /\ e.comp = c /\ e.list = "service" /\ e.path = p
             /\ e.todo = "Stop" /\ e.prio = 1
  BY <1>1, <1>2
<1>3. ASSUME NEW p \in Paths, NEW todo \in {"Start", "Restart"}, e = OnResource(todo, c, p, Absent)
      PROVE  /\ e \in Changes /\ e.comp = c /\ e.list = "service" /\ e.path = p
             /\ e.todo = todo /\ e.prio = 6
  BY <1>1, <1>3
<1>4. \/ \E p \in Paths : Found(unit, p) /\ e = OnResource("Stop", c, p, Absent)
      \/ \E p \in Paths : /\ e = OnResource("Start", c, p, Absent)
                          /\ assigned /\ p \in ServicesIn[files[Manifest]]
      \/ \E p \in Paths : /\ e = OnResource("Restart", c, p, Absent)
                          /\ assigned /\ files[p] # Absent /\ KindOf[p] = "Container"
  BY DEF JobsFor
<1>5. QED
  BY <1>2, <1>3, <1>4

LEMMA ListedJobs ==
  ASSUME NEW c, NEW S \in SUBSET Paths, NEW todo, NEW X,
         \A p \in S : OnResource(todo, c, p, Absent) \in X
  PROVE  [i \in DOMAIN ByName(S) |-> OnResource(todo, c, ByName(S)[i], Absent)] \in Seq(X)
<1> DEFINE s == ByName(S)
           f == [i \in DOMAIN s |-> OnResource(todo, c, s[i], Absent)]
<1>1. IsListing(S, s)
  BY ListedByName
<1>. HIDE DEF s
<1>2. f \in Seq(X)
  BY <1>1, ListingOf
<1>3. QED
  BY <1>2 DEF s

LEMMA ServiceJobsFor ==
  ASSUME NEW c, NEW files, NEW unit, NEW assigned, NEW installed, NEW services,
         services # {} => assigned /\ services = ServicesIn[files[Manifest]]
  PROVE  ServiceActions(c, services, installed, unit) \in Seq(JobsFor(c, files, unit, assigned))
<1> DEFINE stopped == {p \in Paths : p \in installed \ services /\ Found(unit, p)}
           started == {p \in Paths : /\ p \in services
                                     /\ ~Found(unit, p) \/ unit.running[p] = Absent}
           stops == MapSeq(ByName(stopped), LAMBDA p : OnResource("Stop", c, p, Absent))
           starts == MapSeq(ByName(started), LAMBDA p : OnResource("Start", c, p, Absent))
           X == JobsFor(c, files, unit, assigned)
<1>1. ServiceActions(c, services, installed, unit) = stops \o starts
  BY DEF ServiceActions
<1>2. \A p \in stopped : OnResource("Stop", c, p, Absent) \in X
  BY DEF JobsFor
<1>3. \A p \in started : OnResource("Start", c, p, Absent) \in X
  BY DEF JobsFor
<1>4. stopped \in SUBSET Paths /\ started \in SUBSET Paths
  OBVIOUS
<1>. HIDE DEF stopped, started, X
<1>5. /\ [i \in DOMAIN ByName(stopped) |-> OnResource("Stop", c, ByName(stopped)[i], Absent)] \in Seq(X)
      /\ [i \in DOMAIN ByName(started) |-> OnResource("Start", c, ByName(started)[i], Absent)] \in Seq(X)
  BY <1>2, <1>3, <1>4, ListedJobs
<1>7. stops \in Seq(X) /\ starts \in Seq(X)
  BY <1>5 DEF MapSeq
<1>. HIDE DEF stops, starts
<1>6. QED
  BY <1>1, <1>7, ConcatProperties DEF X

LEMMA RestartJobsFor ==
  ASSUME NEW c \in Comps, NEW files \in [Paths -> Nat], NEW unit, NEW resources \in Seq(Updates(c, files))
  PROVE  TriggeredRestarts(c, files, resources) \in Seq(JobsFor(c, files, unit, TRUE))
<1> DEFINE S == Triggering(files, resources)
           X == JobsFor(c, files, unit, TRUE)
<1>1. ASSUME NEW p \in S PROVE p \in Paths /\ files[p] # Absent /\ KindOf[p] = "Container"
  <2>1. PICK i \in DOMAIN resources : resources[i].kind = "Container" /\ resources[i].path = p
    BY DEF Triggering
  <2>2. resources[i] \in Updates(c, files)
    OBVIOUS
  <2>3. KindOf[p] = "Container"
    BY <2>1, <2>2, UpdateFields
  <2>4. QED
    BY <2>3 DEF Triggering
<1>. HIDE DEF S
<1>2. \A p \in S : OnResource("Restart", c, p, Absent) \in X
  BY <1>1 DEF JobsFor
<1>3. S \in SUBSET Paths
  BY <1>1
<1>. HIDE DEF X
<1>4. [i \in DOMAIN ByName(S) |-> OnResource("Restart", c, ByName(S)[i], Absent)] \in Seq(X)
  BY <1>2, <1>3, ListedJobs
<1>5. QED
  BY <1>4 DEF TriggeredRestarts, MapSeq, S, X

LEMMA NeededFields ==
  ASSUME NEW c \in Comps, NEW files \in [Paths -> Nat], NEW d, NEW assigned \in BOOLEAN,
         NEW e \in Needed(c, d, files, assigned)
  PROVE  /\ e \in Changes /\ e.comp = c /\ e.list = "resource" /\ e.prio \in {2, 3, 4}
         /\ \/ /\ e = OnComponent("Install", c) /\ ~d.data /\ assigned
            \/ /\ e = OnComponent("Remove", c) /\ d.data /\ ~assigned
            \/ \E p \in Paths :
                  \/ e = OnResource("Install", c, p, files[p]) /\ assigned
                     /\ files[p] # Absent /\ (d.data => d.at[p] = Absent)
                  \/ e = OnResource("Update", c, p, files[p]) /\ assigned
                     /\ files[p] # Absent /\ d.data /\ d.at[p] # Absent
                  \/ e = OnResource("Remove", c, p, Absent) /\ d.data /\ d.at[p] # Absent
                     /\ (assigned => files[p] = Absent /\ p \notin Dropins)
<1>1. ASSUME NEW p \in Paths, NEW content \in Nat, NEW todo \in {"Install", "Update", "Remove"},
             e = OnResource(todo, c, p, content)
      PROVE  e \in Changes /\ e.comp = c /\ e.list = "resource" /\ e.prio \in {2, 3, 4}
  BY <1>1, PathChange
<1>2. ASSUME NEW todo \in {"Install", "Remove"}, e = OnComponent(todo, c)
      PROVE  e \in Changes /\ e.comp = c /\ e.list = "resource" /\ e.prio \in {2, 3, 4}
  BY <1>2, HomeChange
<1>3. \/ /\ e = OnComponent("Install", c) /\ ~d.data /\ assigned
      \/ /\ e = OnComponent("Remove", c) /\ d.data /\ ~assigned
      \/ \E p \in Paths :
            \/ e = OnResource("Install", c, p, files[p]) /\ assigned
               /\ files[p] # Absent /\ (d.data => d.at[p] = Absent)
            \/ e = OnResource("Update", c, p, files[p]) /\ assigned
               /\ files[p] # Absent /\ d.data /\ d.at[p] # Absent
            \/ e = OnResource("Remove", c, p, Absent) /\ d.data /\ d.at[p] # Absent
               /\ (assigned => files[p] = Absent /\ p \notin Dropins)
  <2>1. CASE ~d.data /\ assigned
    <3>1. e \in Installs(c, files)
      BY <2>1 DEF Needed
    <3>2. QED
      BY <2>1, <3>1 DEF Installs
  <2>2. CASE d.data /\ ~assigned
    <3>1. e \in {OnComponent("Remove", c)} \cup {OnResource("Remove", c, p, Absent) : p \in Held(d)}
      BY <2>2 DEF Needed
    <3>2. QED
      BY <2>2, <3>1 DEF Held
  <2>3. CASE d.data /\ assigned
    <3>1. e \in {OnResource("Remove", c, p, Absent) : p \in Dropped(d, files)}
             \cup {OnResource("Install", c, p, files[p]) :
                      p \in {q \in Paths : files[q] # Absent /\ d.at[q] = Absent}}
             \cup {OnResource("Update", c, p, files[p]) : p \in Changed(d, files)}
      BY <2>3 DEF Needed
    <3>2. CASE \E p \in Dropped(d, files) : e = OnResource("Remove", c, p, Absent)
      BY <2>3, <3>2 DEF Dropped, Held, Dropins
    <3>3. CASE \E p \in Paths : files[p] # Absent /\ d.at[p] = Absent
                                /\ e = OnResource("Install", c, p, files[p])
      BY <2>3, <3>3
    <3>4. CASE \E p \in Changed(d, files) : e = OnResource("Update", c, p, files[p])
      BY <2>3, <3>4 DEF Changed, Held
    <3>5. QED
      BY <3>1, <3>2, <3>3, <3>4
  <2>4. CASE ~d.data /\ ~assigned
    BY <2>4 DEF Needed
  <2>5. QED
    BY <2>1, <2>2, <2>3, <2>4
<1>4. \A p \in Paths : files[p] \in Nat /\ Absent \in Nat
  BY DEF Absent
<1>5. e \in Changes /\ e.comp = c /\ e.list = "resource" /\ e.prio \in {2, 3, 4}
  BY <1>1, <1>2, <1>3, <1>4
<1>6. QED
  BY <1>3, <1>5

(* The changes to a component, as the planner lists them.                  *)
Arranged(c, d, files, unit, assigned, a) ==
    LET need == Needed(c, d, files, assigned) IN
    /\ a \in Seq(need \cup JobsFor(c, files, unit, assigned))
    /\ \A e \in need : \E i \in DOMAIN a : a[i] = e
    /\ \A i, j \in DOMAIN a : a[i].list = "resource" /\ a[i] = a[j] => i = j
    /\ \A i, j \in DOMAIN a :
          a[i].list = "resource" /\ a[j].list = "resource" /\ MustPrecede(a[i], a[j], assigned)
              => Precedes(a, i, j)

LEMMA WithJobsArranged ==
  ASSUME NEW c \in Comps, NEW files \in [Paths -> Nat], NEW d, NEW unit, NEW assigned \in BOOLEAN,
         NEW f, Tidy(f, Needed(c, d, files, assigned), assigned),
         NEW jobs \in Seq(JobsFor(c, files, unit, assigned))
  PROVE  Arranged(c, d, files, unit, assigned, f \o jobs)
<1> DEFINE X == Needed(c, d, files, assigned)
           J == JobsFor(c, files, unit, assigned)
           a == f \o jobs
<1>1. f \in Seq(X)
  BY DEF Tidy
<1>2. /\ a \in Seq(X \cup J) /\ Len(f) \in Nat /\ Len(jobs) \in Nat
      /\ DOMAIN a = 1..(Len(f) + Len(jobs)) /\ DOMAIN f = 1..Len(f)
      /\ \A i \in 1..Len(f) : a[i] = f[i]
      /\ \A i \in (Len(f) + 1)..(Len(f) + Len(jobs)) : a[i] \in J
  <2>. HIDE DEF X, J
  <2>1. jobs \in Seq(J)
    BY DEF J
  <2>2. QED
    BY <1>1, <2>1, WithJobs
<1>3. ASSUME NEW i \in DOMAIN a, a[i].list = "resource" PROVE i \in 1..Len(f)
  <2>1. SUFFICES ASSUME i \notin 1..Len(f) PROVE FALSE
    OBVIOUS
  <2>2. a[i] \in J
    BY <1>2, <2>1
  <2>. HIDE DEF a, J
  <2>3. a[i].list = "service"
    BY <2>2, JobsForFields DEF J
  <2>4. QED
    BY <1>3, <2>3
<1>. HIDE DEF X, J, a
<1>4. /\ \A e \in X : \E i \in DOMAIN f : f[i] = e
      /\ \A i, j \in DOMAIN f : f[i] = f[j] => i = j
      /\ \A i, j \in DOMAIN f : MustPrecede(f[i], f[j], assigned) => Precedes(f, i, j)
  BY DEF Tidy, X
<1>5. \A e \in X : \E i \in DOMAIN a : a[i] = e
  BY <1>2, <1>4
<1>6. \A i, j \in DOMAIN a : a[i].list = "resource" /\ a[i] = a[j] => i = j
  BY <1>2, <1>3, <1>4
<1>7. \A i, j \in DOMAIN a :
          a[i].list = "resource" /\ a[j].list = "resource" /\ MustPrecede(a[i], a[j], assigned)
              => Precedes(a, i, j)
  BY <1>2, <1>3, <1>4 DEF Precedes
<1>8. QED
  BY <1>2, <1>5, <1>6, <1>7 DEF Arranged, X, J, a

LEMMA ComponentArranged ==
  ASSUME NEW c \in Comps, NEW files \in [Paths -> Nat], NEW d \in Directories, NEW unit,
         NEW assigned \in BOOLEAN, d.data => d.version = "current" /\ d.at[Manifest] # Absent
  PROVE  LET part == PlanComponent(c, d, files, unit, assigned) IN
         /\ Arranged(c, d, files, unit, assigned, part.actions)
         /\ part.reload = (Needed(c, d, files, assigned) # {})
<1> DEFINE part == PlanComponent(c, d, files, unit, assigned)
           svcs == ServicesIn[files[Manifest]]
<1>0. d.data \in BOOLEAN
  BY DEF Directories
<1>1. CASE ~d.data /\ ~assigned
  <2>1. part = [ok |-> TRUE, reload |-> FALSE, actions |-> <<>>]
    BY <1>1 DEF PlanComponent
  <2>2. Needed(c, d, files, assigned) = {}
    BY <1>1 DEF Needed
  <2>3. Arranged(c, d, files, unit, assigned, <<>>)
    BY <2>2 DEF Arranged
  <2>4. part.actions = <<>> /\ part.reload = FALSE
    BY <2>1
  <2>. HIDE DEF part
  <2>5. QED
    BY <2>2, <2>3, <2>4 DEF part
<1>2. CASE ~d.data /\ assigned
  <2> DEFINE jobs == ServiceActions(c, svcs, {}, unit)
             f == FreshResources(c, files)
  <2>1. part = [ok |-> TRUE, reload |-> TRUE, actions |-> f \o jobs]
    BY <1>2 DEF PlanComponent
  <2>2. jobs \in Seq(JobsFor(c, files, unit, assigned))
    BY <1>2, ServiceJobsFor
  <2>3. Needed(c, d, files, assigned) = Installs(c, files) /\ assigned = TRUE
    BY <1>2 DEF Needed
  <2>4. Tidy(f, Needed(c, d, files, assigned), assigned)
    BY <2>3, FreshTidy
  <2>. HIDE DEF f, jobs
  <2>5. Arranged(c, d, files, unit, assigned, f \o jobs)
    BY <2>2, <2>4, WithJobsArranged
  <2>6. Needed(c, d, files, assigned) # {}
    BY <2>3 DEF Installs
  <2>7. part.actions = f \o jobs /\ part.reload = TRUE
    BY <2>1
  <2>. HIDE DEF part
  <2>8. part.reload = (Needed(c, d, files, assigned) # {})
    BY <2>6, <2>7
  <2>9. Arranged(c, d, files, unit, assigned, part.actions)
    BY <2>5, <2>7
  <2>10. QED
    BY <2>8, <2>9 DEF part
<1>3. CASE d.data /\ ~assigned
  <2> DEFINE jobs == ServiceActions(c, {}, HostServices(d), unit)
             f == RemovedResources(c, d)
  <2>1. part = [ok |-> TRUE, reload |-> TRUE, actions |-> f \o jobs]
    BY <1>3 DEF PlanComponent
  <2>2. jobs \in Seq(JobsFor(c, files, unit, assigned))
    BY ServiceJobsFor
  <2>3. OnComponent("Remove", c) \in Needed(c, d, files, assigned) /\ assigned = FALSE
    BY <1>3 DEF Needed
  <2>4. Tidy(f, Needed(c, d, files, assigned), assigned)
    BY <1>3, <2>3, RemovedTidy
  <2>. HIDE DEF f, jobs
  <2>5. Arranged(c, d, files, unit, assigned, f \o jobs)
    BY <2>2, <2>4, WithJobsArranged
  <2>6. Needed(c, d, files, assigned) # {}
    BY <2>3
  <2>7. part.actions = f \o jobs /\ part.reload = TRUE
    BY <2>1
  <2>. HIDE DEF part
  <2>8. part.reload = (Needed(c, d, files, assigned) # {})
    BY <2>6, <2>7
  <2>9. Arranged(c, d, files, unit, assigned, part.actions)
    BY <2>5, <2>7
  <2>10. QED
    BY <2>8, <2>9 DEF part
<1>4. CASE d.data /\ assigned
  <2> DEFINE f == UpdatedResources(c, d, files)
             restarts == TriggeredRestarts(c, files, f)
             jobs == ServiceActions(c, svcs, HostServices(d), unit)
             X == Needed(c, d, files, assigned)
             J == JobsFor(c, files, unit, assigned)
  <2>1. part = [ok |-> TriggersFound(files, f, unit), reload |-> f # <<>>,
                actions |-> f \o restarts \o jobs]
    BY <1>4 DEF PlanComponent
  <2>2. f \in Seq(Updates(c, files)) /\ assigned = TRUE
    BY <1>4, UpdatedList
  <2>3. restarts \in Seq(J)
    BY <2>2, RestartJobsFor
  <2>4. jobs \in Seq(J)
    BY <1>4, ServiceJobsFor
  <2>5. Tidy(f, X, assigned)
    BY <1>4, <2>2, UpdatedTidy
  <2>. HIDE DEF f, restarts, jobs, X, J
  <2>6. restarts \o jobs \in Seq(J)
    BY <2>3, <2>4, ConcatProperties
  <2>7. Arranged(c, d, files, unit, assigned, f \o (restarts \o jobs))
    BY <2>5, <2>6, WithJobsArranged DEF X, J
  <2>8. f \o (restarts \o jobs) = f \o restarts \o jobs
    <3> DEFINE T == X \cup J
    <3>1. f \in Seq(X) /\ X \subseteq T /\ J \subseteq T
      BY <2>5 DEF Tidy
    <3>. HIDE DEF T
    <3>2. f \in Seq(T) /\ restarts \in Seq(T) /\ jobs \in Seq(T)
      BY <2>3, <2>4, <3>1
    <3>3. QED
      BY <3>2, ConcatAssociative
  <2>9. (f # <<>>) = (X # {})
    <3>1. f \in Seq(X) /\ \A e \in X : \E i \in DOMAIN f : f[i] = e
      BY <2>5 DEF Tidy
    <3>2. f # <<>> => X # {}
      BY <3>1, EmptySeq
    <3>3. X # {} => f # <<>>
      BY <3>1
    <3>4. QED
      BY <3>2, <3>3
  <2>10. part.actions = f \o restarts \o jobs /\ part.reload = (f # <<>>)
    BY <2>1
  <2>. HIDE DEF part
  <2>11. Arranged(c, d, files, unit, assigned, part.actions)
    BY <2>7, <2>8, <2>10
  <2>12. part.reload = (Needed(c, d, files, assigned) # {})
    BY <2>9, <2>10 DEF X
  <2>13. QED
    BY <2>11, <2>12 DEF part
<1>5. QED
  BY <1>0, <1>1, <1>2, <1>3, <1>4

(* The steps of a plan are the changes of its components and, if one asks  *)
(* for it, the daemon-reload, in the order of their names.                 *)
NamesChange(changes, c, i, x, s) ==
    x = <<c, i>> /\ x # ReloadStep /\ s = changes[c][i] /\ s.prio = PrioOf(changes, x)

NamesStep(changes, x, s) ==
    \/ x = ReloadStep /\ s = HostReload
    \/ \E c \in Comps : \E i \in DOMAIN changes[c] : NamesChange(changes, c, i, x, s)

ResourcePrio(changes, z) ==
    \/ z = ReloadStep /\ PrioOf(changes, z) = 0
    \/ \E c \in Comps : \E i \in DOMAIN changes[c] :
          /\ z = <<c, i>> /\ z # ReloadStep /\ PrioOf(changes, z) = changes[c][i].prio
          /\ changes[c][i].list = "resource"

(* What the names say of the steps.                                        *)
StepsNamed(changes, steps, order, RC) ==
    /\ steps \in Seq(Changes \cup {HostReload}) /\ DOMAIN steps \subseteq Nat
    /\ \A k \in DOMAIN steps : NamesStep(changes, order[k], steps[k])
    /\ \A k \in DOMAIN steps : (steps[k].list = "resource") <=> (order[k] \in RC)
    /\ \A c \in Comps : \A i \in DOMAIN changes[c] : changes[c][i].list = "resource" =>
          \E k \in DOMAIN steps : order[k] = <<c, i>> /\ steps[k] = changes[c][i]
    /\ ReloadStep \in RC => \E k \in DOMAIN steps : order[k] = ReloadStep /\ steps[k] = HostReload
    /\ \A j, k \in DOMAIN steps : j < k =>
          order[j] # order[k] /\ StepBefore(changes, RC, order[j], order[k])
    /\ \A z \in RC : ResourcePrio(changes, z)
    /\ \A c \in Comps : \A i \in DOMAIN changes[c] :
          /\ i \in Nat /\ <<c, i>> # ReloadStep
          /\ PrioOf(changes, <<c, i>>) = changes[c][i].prio
          /\ changes[c][i].list = "resource" => <<c, i>> \in RC

ChangesOfComps(changes) ==
    /\ DOMAIN changes = Comps
    /\ \A c \in Comps : /\ changes[c] \in Seq(Changes)
                       /\ \A i \in DOMAIN changes[c] : changes[c][i].comp = c

LEMMA NamesOfSteps ==
  ASSUME NEW changes, ChangesOfComps(changes), NEW reload \in BOOLEAN,
         NEW steps, steps = Steps(changes, reload), NEW order, order = StepOrder(changes, reload),
         NEW RC, RC = ResourceChanges(changes, reload)
  PROVE  /\ StepsNamed(changes, steps, order, RC)
         /\ (ReloadStep \in RC) <=> (reload = TRUE)
<1>18. /\ DOMAIN changes = Comps
       /\ \A c \in Comps : /\ changes[c] \in Seq(Changes)
                          /\ \A i \in DOMAIN changes[c] : changes[c][i].comp = c
  BY DEF ChangesOfComps
<1>1. IsChanges(changes)
  <2>1. IsFiniteSet(Comps) /\ Comps \subseteq Nat \ {0}
    BY MateriaAssumption
  <2>2. ASSUME NEW c \in Comps PROVE \E n \in Nat : DOMAIN changes[c] = 1..n
    BY <1>18
  <2>3. Paths \cup {0} \subseteq Nat
    BY RepositoryAssumption
  <2>4. \A e \in Changes : e.prio \in Nat /\ e.path \in Nat
    BY <2>3 DEF Changes
  <2>5. \A c \in Comps : \A i \in DOMAIN changes[c] : changes[c][i] \in Changes
    BY <1>18
  <2>6. QED
    BY <1>18, <2>1, <2>2, <2>4, <2>5 DEF IsChanges
<1>2. /\ \E n \in Nat : steps \in [1..n -> {ChangeAt(changes, x) : x \in AllChanges(changes, reload)}]
                        /\ DOMAIN order = 1..n
      /\ \A k \in DOMAIN steps : /\ order[k] \in AllChanges(changes, reload)
                                 /\ steps[k] = ChangeAt(changes, order[k])
      /\ \A x \in AllChanges(changes, reload) : \E k \in DOMAIN steps : order[k] = x
      /\ \A j, k \in DOMAIN steps : j < k =>
            order[j] # order[k] /\ StepBefore(changes, RC, order[j], order[k])
  BY <1>1, StepsOfChanges
<1>3. ASSUME NEW c \in Comps, NEW i \in DOMAIN changes[c]
      PROVE  /\ i \in Nat /\ <<c, i>> # ReloadStep
             /\ ChangeAt(changes, <<c, i>>) = changes[c][i]
             /\ PrioOf(changes, <<c, i>>) = changes[c][i].prio
             /\ changes[c][i].list = "resource" <=> <<c, i>> \in RC
             /\ changes[c][i] \in Changes
  <2>1. <<c, i>> \in ChangesOn(changes, changes[c][i].list)
    BY <1>18, NamedChanges
  <2>2. /\ i \in Nat /\ <<c, i>> # ReloadStep
        /\ ChangeAt(changes, <<c, i>>) = changes[c][i]
    BY <1>1, <2>1, ChangeNames
  <2>3. <<c, i>> \in RC <=> <<c, i>> \in ChangesOn(changes, "resource")
    BY <2>2 DEF ResourceChanges
  <2>4. <<c, i>> \in ChangesOn(changes, "resource") => changes[c][i].list = "resource"
    BY DEF ChangesOn
  <2>5. QED
    BY <1>18, <2>1, <2>2, <2>3, <2>4 DEF PrioOf
<1>4. ASSUME NEW l, NEW x \in ChangesOn(changes, l)
      PROVE  \E c \in Comps : \E i \in DOMAIN changes[c] : x = <<c, i>> /\ changes[c][i].list = l
  <2>1. /\ x = <<x[1], x[2]>> /\ x[1] \in Comps /\ x[2] \in DOMAIN changes[x[1]]
        /\ ChangeAt(changes, x) = changes[x[1]][x[2]] /\ ChangeAt(changes, x).list = l
    BY <1>1, <1>18, ChangeNames
  <2>2. QED
    BY <2>1
<1>5. RC = ChangesOn(changes, "resource") \cup (IF reload THEN {ReloadStep} ELSE {})
  BY DEF ResourceChanges
<1>6. ASSUME NEW z \in RC PROVE ResourcePrio(changes, z)
  <2>1. CASE z \in ChangesOn(changes, "resource")
    BY <1>3, <1>4, <2>1 DEF ResourcePrio
  <2>2. CASE z \notin ChangesOn(changes, "resource")
    BY <1>5, <2>2 DEF ResourcePrio, PrioOf, ChangeAt, HostReload
  <2>3. QED
    BY <2>1, <2>2
<1>7. ASSUME NEW x \in AllChanges(changes, reload)
      PROVE  (x = ReloadStep /\ x \in RC) \/ \E c \in Comps : \E i \in DOMAIN changes[c] : x = <<c, i>>
  <2>1. x \in RC \/ x \in ChangesOn(changes, "service")
    BY DEF AllChanges, ServiceChanges
  <2>2. QED
    BY <1>4, <1>5, <2>1
<1>8. ChangeAt(changes, ReloadStep) = HostReload /\ HostReload.list = "resource"
  BY DEF ChangeAt, HostReload
<1>9. ASSUME NEW k \in DOMAIN steps
      PROVE  /\ NamesStep(changes, order[k], steps[k])
             /\ (steps[k].list = "resource") <=> (order[k] \in RC)
             /\ steps[k] \in Changes \cup {HostReload}
  <2>1. order[k] \in AllChanges(changes, reload) /\ steps[k] = ChangeAt(changes, order[k])
    BY <1>2
  <2>2. CASE order[k] = ReloadStep /\ order[k] \in RC
    BY <1>8, <2>1, <2>2 DEF NamesStep
  <2>3. ASSUME NEW c \in Comps, NEW i \in DOMAIN changes[c], order[k] = <<c, i>>
        PROVE  /\ NamesStep(changes, order[k], steps[k])
               /\ (steps[k].list = "resource") <=> (order[k] \in RC)
               /\ steps[k] \in Changes \cup {HostReload}
    <3>1. steps[k] = changes[c][i] /\ NamesChange(changes, c, i, order[k], steps[k])
      BY <1>3, <2>1, <2>3 DEF NamesChange
    <3>2. steps[k] \in Changes /\ ((steps[k].list = "resource") <=> (order[k] \in RC))
      BY <1>3, <2>3, <3>1
    <3>3. QED
      BY <3>1, <3>2 DEF NamesStep
  <2>4. QED
    BY <1>7, <2>1, <2>2, <2>3
<1>10. RC \subseteq AllChanges(changes, reload)
  BY DEF AllChanges
<1>11. ASSUME NEW c \in Comps, NEW i \in DOMAIN changes[c], changes[c][i].list = "resource"
      PROVE  \E k \in DOMAIN steps : order[k] = <<c, i>> /\ steps[k] = changes[c][i]
  <2>1. <<c, i>> \in RC /\ ChangeAt(changes, <<c, i>>) = changes[c][i]
    BY <1>3, <1>11
  <2>2. PICK k \in DOMAIN steps : order[k] = <<c, i>>
    BY <1>2, <1>10, <2>1
  <2>3. steps[k] = ChangeAt(changes, order[k])
    BY <1>2
  <2>4. QED
    BY <2>1, <2>2, <2>3
<1>12. ASSUME ReloadStep \in RC
       PROVE  \E k \in DOMAIN steps : order[k] = ReloadStep /\ steps[k] = HostReload
  BY <1>2, <1>8, <1>10, <1>12
<1>13. steps \in Seq(Changes \cup {HostReload}) /\ DOMAIN steps \subseteq Nat
  <2>1. PICK n \in Nat : steps \in [1..n -> {ChangeAt(changes, x) : x \in AllChanges(changes, reload)}]
    BY <1>2
  <2>2. steps \in [1..n -> Changes \cup {HostReload}]
    BY <1>9, <2>1
  <2>3. QED
    BY <2>2, SequenceOf
<1>14. (ReloadStep \in RC) <=> (reload = TRUE)
  <2>1. ReloadStep \notin ChangesOn(changes, "resource")
    BY <1>3, <1>4
  <2>2. QED
    BY <1>5, <2>1
<1>15. \A c \in Comps : \A i \in DOMAIN changes[c] :
         /\ i \in Nat /\ <<c, i>> # ReloadStep
         /\ PrioOf(changes, <<c, i>>) = changes[c][i].prio
         /\ changes[c][i].list = "resource" => <<c, i>> \in RC
  BY <1>3
<1>16. \A j, k \in DOMAIN steps : j < k =>
         order[j] # order[k] /\ StepBefore(changes, RC, order[j], order[k])
  BY <1>2
<1>. HIDE DEF NamesStep, ResourcePrio
<1>17. QED
  BY <1>6, <1>9, <1>11, <1>12, <1>13, <1>14, <1>15, <1>16 DEF StepsNamed

(* The whole plan: every change the components need, each once, in the     *)
(* order the file system asks for; the stops before them all, the          *)
(* daemon-reload after them all, the starts last.                          *)
Orderly(hosts, files, units, mine, steps) ==
    LET need == [c \in Comps |-> Needed(c, hosts[c], files[c], mine[c])]
        jobs == [c \in Comps |-> JobsFor(c, files[c], units[c], mine[c])]
    IN
    /\ \A k \in DOMAIN steps :
          steps[k] = HostReload \/ \E c \in Comps : steps[k] \in need[c] \cup jobs[c]
    /\ \A c \in Comps : \A e \in need[c] : \E k \in DOMAIN steps : steps[k] = e
    /\ \A j, k \in DOMAIN steps : steps[j].list = "resource" /\ steps[j] = steps[k] => j = k
    /\ \A c \in Comps : \A j, k \in DOMAIN steps :
          steps[j] \in need[c] /\ steps[k] \in need[c] /\ MustPrecede(steps[j], steps[k], mine[c])
              => j < k
    /\ \A j, k \in DOMAIN steps : steps[j].list = "service" /\ steps[k].list = "resource" =>
          IF steps[j].todo = "Stop" THEN j < k ELSE k < j
    /\ \A k \in DOMAIN steps : steps[k].list = "resource" =>
          \E m \in DOMAIN steps : steps[m] = HostReload /\ k <= m

(* Of two places one is the earlier.                                       *)
LEMMA OneIsLess == \A j, k \in Nat : j # k => j < k \/ k < j
OBVIOUS

LEMMA StepsArranged ==
  ASSUME NEW hosts, NEW files \in [Comps -> [Paths -> Nat]], NEW units,
         NEW mine \in [Comps -> BOOLEAN], NEW changes, DOMAIN changes = Comps,
         \A c \in Comps : Arranged(c, hosts[c], files[c], units[c], mine[c], changes[c]),
         NEW reload, reload = \E c \in Comps : Needed(c, hosts[c], files[c], mine[c]) # {}
  PROVE  Orderly(hosts, files, units, mine, Steps(changes, reload))
<1> DEFINE need == [c \in Comps |-> Needed(c, hosts[c], files[c], mine[c])]
           jobs == [c \in Comps |-> JobsFor(c, files[c], units[c], mine[c])]
           steps == Steps(changes, reload)
           order == StepOrder(changes, reload)
           RC == ResourceChanges(changes, reload)
<1>0. reload \in BOOLEAN
  OBVIOUS
<1>16. ASSUME NEW c \in Comps, NEW e \in need[c]
       PROVE  e \in Changes /\ e.comp = c /\ e.list = "resource" /\ e.prio \in {2, 3, 4}
  <2>1. files[c] \in [Paths -> Nat] /\ mine[c] \in BOOLEAN /\ e \in Needed(c, hosts[c], files[c], mine[c])
    OBVIOUS
  <2>. HIDE DEF need
  <2>2. QED
    BY <2>1, NeededFields
<1>17. ASSUME NEW c \in Comps, NEW e \in jobs[c]
       PROVE  /\ e \in Changes /\ e.comp = c /\ e.list = "service"
              /\ e.prio = IF e.todo = "Stop" THEN 1 ELSE 6
  <2>1. e \in JobsFor(c, files[c], units[c], mine[c])
    OBVIOUS
  <2>. HIDE DEF jobs
  <2>2. /\ e \in Changes /\ e.comp = c /\ e.list = "service"
        /\ (e.todo = "Stop" /\ e.prio = 1) \/ (e.todo \in {"Start", "Restart"} /\ e.prio = 6)
    BY <2>1, JobsForFields
  <2>3. QED
    BY <2>2
<1>18. ASSUME NEW c \in Comps
       PROVE  /\ changes[c] \in Seq(need[c] \cup jobs[c])
              /\ \A e \in need[c] : \E i \in DOMAIN changes[c] : changes[c][i] = e
              /\ \A i, j \in DOMAIN changes[c] :
                    changes[c][i].list = "resource" /\ changes[c][i] = changes[c][j] => i = j
              /\ \A i, j \in DOMAIN changes[c] :
                    changes[c][i].list = "resource" /\ changes[c][j].list = "resource"
                    /\ MustPrecede(changes[c][i], changes[c][j], mine[c])
                        => Precedes(changes[c], i, j)
  <2>1. Arranged(c, hosts[c], files[c], units[c], mine[c], changes[c])
    OBVIOUS
  <2>2. QED
    BY <2>1 DEF Arranged
<1>. HIDE DEF need, jobs
<1>1. \A c \in Comps : \A e \in need[c] : \E i \in DOMAIN changes[c] : changes[c][i] = e
  BY <1>18
<1>19. ASSUME NEW c \in Comps
       PROVE  /\ changes[c] \in Seq(Changes)
              /\ \A i \in DOMAIN changes[c] : changes[c][i].comp = c
              /\ \A i \in DOMAIN changes[c] : changes[c][i] \in need[c] \cup jobs[c]
  <2>1. need[c] \cup jobs[c] \subseteq Changes /\ \A e \in need[c] \cup jobs[c] : e.comp = c
    BY <1>16, <1>17
  <2>2. changes[c] \in Seq(need[c] \cup jobs[c])
    BY <1>18
  <2> DEFINE X == need[c] \cup jobs[c]
             a == changes[c]
  <2>. HIDE DEF X, a
  <2>3. a \in Seq(X) /\ X \subseteq Changes /\ \A e \in X : e.comp = c
    BY <2>1, <2>2 DEF X, a
  <2>4. a \in Seq(Changes) /\ \A i \in DOMAIN a : a[i].comp = c /\ a[i] \in X
    BY <2>3
  <2>5. QED
    BY <2>4 DEF a, X
<1>2. \A c \in Comps : \A i \in DOMAIN changes[c] :
         changes[c][i].comp = c /\ changes[c][i] \in need[c] \cup jobs[c]
  BY <1>19
<1>20. \A c \in Comps : \A i, j \in DOMAIN changes[c] :
          changes[c][i].list = "resource" /\ changes[c][i] = changes[c][j] => i = j
  BY <1>18
<1>21. \A c \in Comps : \A i, j \in DOMAIN changes[c] :
          changes[c][i].list = "resource" /\ changes[c][j].list = "resource"
          /\ MustPrecede(changes[c][i], changes[c][j], mine[c])
              => Precedes(changes[c], i, j)
  BY <1>18
<1>32. StepsNamed(changes, steps, order, RC) /\ ((ReloadStep \in RC) <=> (reload = TRUE))
  <2>1. /\ steps = Steps(changes, reload) /\ order = StepOrder(changes, reload)
        /\ RC = ResourceChanges(changes, reload)
    OBVIOUS
  <2>2. ChangesOfComps(changes) /\ reload \in BOOLEAN
    BY <1>0, <1>19 DEF ChangesOfComps
  <2>. HIDE DEF steps, order, RC
  <2>4. QED
    BY ONLY <2>1, <2>2, NamesOfSteps
<1>. HIDE DEF steps, order, RC
<1>23. /\ steps \in Seq(Changes \cup {HostReload}) /\ DOMAIN steps \subseteq Nat
       /\ \A k \in DOMAIN steps : NamesStep(changes, order[k], steps[k])
       /\ \A k \in DOMAIN steps : (steps[k].list = "resource") <=> (order[k] \in RC)
       /\ \A c \in Comps : \A i \in DOMAIN changes[c] : changes[c][i].list = "resource" =>
             \E k \in DOMAIN steps : order[k] = <<c, i>> /\ steps[k] = changes[c][i]
       /\ ReloadStep \in RC => \E k \in DOMAIN steps : order[k] = ReloadStep /\ steps[k] = HostReload
       /\ \A j, k \in DOMAIN steps : j < k =>
             order[j] # order[k] /\ StepBefore(changes, RC, order[j], order[k])
       /\ \A z \in RC : ResourcePrio(changes, z)
       /\ \A c \in Comps : \A i \in DOMAIN changes[c] :
             /\ i \in Nat /\ <<c, i>> # ReloadStep
             /\ PrioOf(changes, <<c, i>>) = changes[c][i].prio
             /\ changes[c][i].list = "resource" => <<c, i>> \in RC
       /\ (ReloadStep \in RC) <=> (reload = TRUE)
  BY <1>32 DEF StepsNamed
<1>3. /\ DOMAIN steps \subseteq Nat
      /\ \A c \in Comps : \A i \in DOMAIN changes[c] : changes[c][i].list = "resource" =>
            \E k \in DOMAIN steps : order[k] = <<c, i>> /\ steps[k] = changes[c][i]
  BY <1>23
<1>24. \A k \in DOMAIN steps :
          \/ order[k] = ReloadStep /\ steps[k] = HostReload
          \/ \E c \in Comps : \E i \in DOMAIN changes[c] :
               /\ order[k] = <<c, i>> /\ order[k] # ReloadStep /\ steps[k] = changes[c][i]
               /\ steps[k].prio = PrioOf(changes, order[k])
  BY <1>23 DEF NamesStep, NamesChange
<1>25. \A j, k \in DOMAIN steps : j < k =>
          order[j] # order[k] /\ StepBefore(changes, RC, order[j], order[k])
  BY <1>23
<1>26. \A c \in Comps : \A i \in DOMAIN changes[c] :
         /\ i \in Nat /\ <<c, i>> # ReloadStep
         /\ PrioOf(changes, <<c, i>>) = changes[c][i].prio
         /\ changes[c][i].list = "resource" => <<c, i>> \in RC
  BY <1>23
<1>27. \A z \in RC : \/ z = ReloadStep /\ PrioOf(changes, z) = 0
                     \/ \E c \in Comps : \E i \in DOMAIN changes[c] :
                           /\ z = <<c, i>> /\ z # ReloadStep /\ PrioOf(changes, z) = changes[c][i].prio
                           /\ changes[c][i].list = "resource"
  BY <1>23 DEF ResourcePrio
<1>4. /\ \A c \in Comps : c # 0
      /\ HostReload.comp = 0 /\ HostReload.list = "resource" /\ HostReload.todo = "Reload"
  BY MateriaAssumption DEF HostReload
<1>5. ASSUME NEW k \in DOMAIN steps
      PROVE  steps[k] = HostReload \/ \E c \in Comps : steps[k] \in need[c] \cup jobs[c]
  BY <1>2, <1>24
<1>6. ASSUME NEW c \in Comps, NEW e \in need[c] PROVE \E k \in DOMAIN steps : steps[k] = e
  <2>1. PICK i \in DOMAIN changes[c] : changes[c][i] = e
    BY <1>1
  <2>2. changes[c][i].list = "resource"
    BY <1>16, <2>1
  <2>3. PICK k \in DOMAIN steps : order[k] = <<c, i>> /\ steps[k] = changes[c][i]
    BY <1>3, <2>2
  <2>4. QED
    BY <2>1, <2>3
<1>7. \A k \in DOMAIN steps : steps[k].list = "resource" <=> order[k] \in RC
  BY <1>23
<1>28. ASSUME NEW k \in DOMAIN steps, steps[k] = HostReload PROVE order[k] = ReloadStep
  <2>1. SUFFICES ASSUME NEW c \in Comps, NEW i \in DOMAIN changes[c], steps[k] = changes[c][i]
                 PROVE  FALSE
    BY <1>24
  <2>2. changes[c][i].comp = c
    BY <1>2
  <2>3. QED
    BY <1>4, <1>28, <2>1, <2>2
<1>8. \A j, k \in DOMAIN steps : order[j] = order[k] => j = k
  <2>1. \A j, k \in Nat : j # k => j < k \/ k < j
    BY OneIsLess
  <2>2. QED
    BY <1>25, <1>3, <2>1
<1>9. ASSUME NEW j \in DOMAIN steps, NEW k \in DOMAIN steps, steps[j].list = "resource", steps[j] = steps[k]
      PROVE  j = k
  <2>1. CASE steps[j] = HostReload
    <3>1. order[j] = ReloadStep /\ order[k] = ReloadStep
      BY <1>28, <1>9, <2>1
    <3>2. QED
      BY <1>8, <3>1
  <2>2. CASE steps[j] # HostReload
    <3>1a. PICK c \in Comps : \E i \in DOMAIN changes[c] : order[j] = <<c, i>> /\ steps[j] = changes[c][i]
      BY <1>24, <2>2
    <3>1. PICK i \in DOMAIN changes[c] : order[j] = <<c, i>> /\ steps[j] = changes[c][i]
      BY <3>1a
    <3>2a. PICK b \in Comps : \E h \in DOMAIN changes[b] : order[k] = <<b, h>> /\ steps[k] = changes[b][h]
      BY <1>24, <1>9, <2>2
    <3>2. PICK h \in DOMAIN changes[b] : order[k] = <<b, h>> /\ steps[k] = changes[b][h]
      BY <3>2a
    <3>3. b = c
      <4>1. changes[c][i].comp = c /\ changes[b][h].comp = b
        BY <1>2
      <4>2. QED
        BY <1>9, <3>1, <3>2, <4>1
    <3>4. h = i
      BY <1>20, <1>9, <3>1, <3>2, <3>3
    <3>5. QED
      BY <1>8, <3>1, <3>2, <3>3, <3>4
  <2>3. QED
    BY <2>1, <2>2
<1>10. ASSUME NEW c \in Comps, NEW k \in DOMAIN steps, steps[k] \in need[c]
       PROVE  \E i \in DOMAIN changes[c] :
                 order[k] = <<c, i>> /\ steps[k] = changes[c][i] /\ order[k] \in RC
  <2>1. steps[k].comp = c /\ steps[k].list = "resource"
    BY <1>16, <1>10
  <2>2. steps[k] # HostReload
    BY <1>4, <2>1
  <2>3a. PICK b \in Comps : \E i \in DOMAIN changes[b] : order[k] = <<b, i>> /\ steps[k] = changes[b][i]
    BY <1>24, <2>2
  <2>3. PICK i \in DOMAIN changes[b] : order[k] = <<b, i>> /\ steps[k] = changes[b][i]
    BY <2>3a
  <2>4. b = c
    BY <1>2, <2>1, <2>3
  <2>5. QED
    BY <1>7, <2>1, <2>3, <2>4
<1>11. ASSUME NEW c \in Comps, NEW j \in DOMAIN steps, NEW k \in DOMAIN steps,
              steps[j] \in need[c], steps[k] \in need[c],
              MustPrecede(steps[j], steps[k], mine[c])
       PROVE  j < k
  <2>1. PICK i \in DOMAIN changes[c] :
           order[j] = <<c, i>> /\ steps[j] = changes[c][i] /\ order[j] \in RC
    BY <1>10, <1>11
  <2>2. PICK h \in DOMAIN changes[c] :
           order[k] = <<c, h>> /\ steps[k] = changes[c][h] /\ order[k] \in RC
    BY <1>10, <1>11
  <2>3. steps[j].list = "resource" /\ steps[k].list = "resource"
    BY <1>16, <1>11
  <2>4. Precedes(changes[c], i, h)
    BY <1>21, <1>11, <2>1, <2>2, <2>3
  <2>5. /\ i \in Nat /\ h \in Nat /\ j \in Nat /\ k \in Nat
        /\ changes[c][i].prio \in Nat /\ changes[c][h].prio \in Nat /\ c \in Nat
    <3>1. steps[j].prio \in {2, 3, 4} /\ steps[k].prio \in {2, 3, 4}
      BY <1>16, <1>11
    <3>2. i \in Nat /\ h \in Nat /\ j \in Nat /\ k \in Nat
      BY <1>26, <1>3
    <3>3. c \in Nat
      BY MateriaAssumption
    <3>4. QED
      BY <2>1, <2>2, <3>1, <3>2, <3>3
  <2>6. SUFFICES ASSUME ~(j < k) PROVE FALSE
    OBVIOUS
  <2>7. CASE j = k
    <3>1. i = h
      BY <2>1, <2>2, <2>7
    <3>2. QED
      BY <2>4, <2>5, <3>1 DEF Precedes
  <2>8. CASE k < j
    <3>1. ResourceBefore(changes, <<c, h>>, <<c, i>>)
      BY <1>25, <2>1, <2>2, <2>8 DEF StepBefore
    <3>2. \/ changes[c][h].prio < changes[c][i].prio
          \/ changes[c][h].prio = changes[c][i].prio /\ h < i
      BY <1>26, <2>5, <3>1 DEF ResourceBefore
    <3>3. QED
      BY <2>4, <2>5, <3>2 DEF Precedes
  <2>9. QED
    BY <2>5, <2>6, <2>7, <2>8
<1>12. \A z \in RC : \/ z = ReloadStep /\ PrioOf(changes, z) = 0
                     \/ z # ReloadStep /\ PrioOf(changes, z) \in {2, 3, 4}
  <2>1. ASSUME NEW c \in Comps, NEW i \in DOMAIN changes[c], changes[c][i].list = "resource"
        PROVE  changes[c][i].prio \in {2, 3, 4}
    <3>1. changes[c][i] \notin jobs[c]
      BY <1>17, <2>1
    <3>2. QED
      BY <1>16, <1>2, <3>1
  <2>2. SUFFICES ASSUME NEW z \in RC, ~(z = ReloadStep /\ PrioOf(changes, z) = 0)
                 PROVE  z # ReloadStep /\ PrioOf(changes, z) \in {2, 3, 4}
    OBVIOUS
  <2>3. PICK c \in Comps : \E i \in DOMAIN changes[c] :
           /\ z = <<c, i>> /\ z # ReloadStep /\ PrioOf(changes, z) = changes[c][i].prio
           /\ changes[c][i].list = "resource"
    BY <1>27, <2>2
  <2>4. QED
    BY <2>1, <2>3
<1>13. ASSUME reload PROVE \E z \in RC : z # ReloadStep
  <2>1. PICK c \in Comps : need[c] # {}
    BY <1>13 DEF need
  <2>2. PICK i \in DOMAIN changes[c] : changes[c][i] \in need[c]
    BY <1>1, <2>1
  <2>3. changes[c][i].list = "resource"
    BY <1>16, <2>2
  <2>4. QED
    BY <1>26, <2>3
<1>14. ASSUME NEW j \in DOMAIN steps, NEW k \in DOMAIN steps,
              steps[j].list = "service", steps[k].list = "resource"
       PROVE  IF steps[j].todo = "Stop" THEN j < k ELSE k < j
  <2>1. order[k] \in RC /\ order[j] \notin RC
    BY <1>7, <1>14
  <2>2a. PICK c \in Comps : \E i \in DOMAIN changes[c] :
           /\ order[j] = <<c, i>> /\ steps[j] = changes[c][i]
           /\ steps[j].prio = PrioOf(changes, order[j])
    BY <1>24, <1>4, <1>14
  <2>2. PICK i \in DOMAIN changes[c] :
           /\ order[j] = <<c, i>> /\ steps[j] = changes[c][i]
           /\ steps[j].prio = PrioOf(changes, order[j])
    BY <2>2a
  <2>3. steps[j] \in jobs[c]
    BY <1>16, <1>2, <1>14, <2>2
  <2>4. PrioOf(changes, order[j]) = IF steps[j].todo = "Stop" THEN 1 ELSE 6
    BY <1>17, <2>2, <2>3
  <2>5. j \in Nat /\ k \in Nat /\ j # k
    BY <1>3, <1>14
  <2>6. CASE steps[j].todo = "Stop"
    <3>1. SUFFICES ASSUME k < j PROVE FALSE
      BY <2>5, <2>6
    <3>2. ~ServiceFirst(changes, RC, order[j], order[k])
      BY <1>25, <2>1, <3>1 DEF StepBefore
    <3>3. CASE order[k] # ReloadStep
      <4>1. PrioOf(changes, order[k]) \in {2, 3, 4}
        BY <1>12, <2>1, <3>3
      <4>2. PrioOf(changes, order[j]) <= PrioOf(changes, order[k])
        BY <2>4, <2>6, <4>1
      <4>3. QED
        BY <2>1, <3>2, <4>2 DEF ServiceFirst
    <3>4. CASE order[k] = ReloadStep
      <4>1. reload
        BY <1>23, <2>1, <3>4
      <4>2. PICK z \in RC : z # ReloadStep
        BY <1>13, <4>1
      <4>3. ResourceBefore(changes, z, order[k])
        BY <3>4, <4>2 DEF ResourceBefore
      <4>4. PrioOf(changes, z) \in {2, 3, 4}
        BY <1>12, <4>2
      <4>5. PrioOf(changes, order[j]) <= PrioOf(changes, z)
        BY <2>4, <2>6, <4>4
      <4>6. QED
        BY <3>2, <4>2, <4>3, <4>5 DEF ServiceFirst
    <3>5. QED
      BY <3>3, <3>4
  <2>7. CASE steps[j].todo # "Stop"
    <3>1. SUFFICES ASSUME j < k PROVE FALSE
      BY <2>5, <2>7
    <3>2. ServiceFirst(changes, RC, order[j], order[k])
      BY <1>25, <2>1, <3>1 DEF StepBefore
    <3>3. PICK z \in RC : PrioOf(changes, order[j]) <= PrioOf(changes, z)
      BY <3>2 DEF ServiceFirst
    <3>4. PrioOf(changes, z) \in {0, 2, 3, 4}
      BY <1>12
    <3>5. QED
      BY <2>4, <2>7, <3>3, <3>4
  <2>8. QED
    BY <2>6, <2>7
<1>15. ASSUME NEW k \in DOMAIN steps, steps[k].list = "resource"
       PROVE  \E m \in DOMAIN steps : steps[m] = HostReload /\ k <= m
  <2>1. CASE order[k] = ReloadStep
    <3>1. steps[k] = HostReload /\ k \in Nat
      BY <1>24, <1>3, <1>26, <2>1
    <3>2. k <= k
      BY <3>1
    <3>3. QED
      BY <3>1, <3>2
  <2>2. CASE order[k] # ReloadStep
    <3>1a. PICK c \in Comps : \E i \in DOMAIN changes[c] : steps[k] = changes[c][i]
      BY <1>24, <2>2
    <3>1. PICK i \in DOMAIN changes[c] : steps[k] = changes[c][i]
      BY <3>1a
    <3>2. steps[k] \in need[c]
      BY <1>17, <1>2, <1>15, <3>1
    <3>3. reload
      BY <3>2 DEF need
    <3>4. PICK m \in DOMAIN steps : order[m] = ReloadStep /\ steps[m] = HostReload
      BY <1>23, <3>3
    <3>5. order[m] \in RC /\ order[k] \in RC
      BY <1>4, <1>7, <1>15, <3>4
    <3>6. ~(m < k)
      BY <1>25, <3>4, <3>5 DEF StepBefore, ResourceBefore
    <3>7. k <= m
      BY <1>3, <3>6
    <3>8. QED
      BY <3>4, <3>7
  <2>3. QED
    BY <2>1, <2>2
<1>29. /\ need = [c \in Comps |-> Needed(c, hosts[c], files[c], mine[c])]
       /\ jobs = [c \in Comps |-> JobsFor(c, files[c], units[c], mine[c])]
       /\ steps = Steps(changes, reload)
  BY DEF need, jobs, steps
<1>30. /\ \A k \in DOMAIN steps :
             steps[k] = HostReload \/ \E c \in Comps : steps[k] \in need[c] \cup jobs[c]
       /\ \A c \in Comps : \A e \in need[c] : \E k \in DOMAIN steps : steps[k] = e
       /\ \A j, k \in DOMAIN steps : steps[j].list = "resource" /\ steps[j] = steps[k] => j = k
       /\ \A c \in Comps : \A j, k \in DOMAIN steps :
             steps[j] \in need[c] /\ steps[k] \in need[c] /\ MustPrecede(steps[j], steps[k], mine[c])
                 => j < k
  <2>1. \A k \in DOMAIN steps :
           steps[k] = HostReload \/ \E c \in Comps : steps[k] \in need[c] \cup jobs[c]
    BY <1>5
  <2>2. \A c \in Comps : \A e \in need[c] : \E k \in DOMAIN steps : steps[k] = e
    BY <1>6
  <2>3. \A j, k \in DOMAIN steps : steps[j].list = "resource" /\ steps[j] = steps[k] => j = k
    BY <1>9
  <2>4. \A c \in Comps : \A j, k \in DOMAIN steps :
           steps[j] \in need[c] /\ steps[k] \in need[c] /\ MustPrecede(steps[j], steps[k], mine[c])
               => j < k
    BY <1>11
  <2>5. QED
    BY <2>1, <2>2, <2>3, <2>4
<1>31. /\ \A j, k \in DOMAIN steps : steps[j].list = "service" /\ steps[k].list = "resource" =>
             IF steps[j].todo = "Stop" THEN j < k ELSE k < j
       /\ \A k \in DOMAIN steps : steps[k].list = "resource" =>
             \E m \in DOMAIN steps : steps[m] = HostReload /\ k <= m
  BY <1>14, <1>15
<1>. HIDE DEF need, jobs, steps
<1>22. QED
  BY ONLY <1>29, <1>30, <1>31 DEF Orderly

(* The hosts Plan meets when nothing was interrupted.                      *)
LEMMA OrderlyPlan ==
  ASSUME NEW hosts \in [Comps -> Directories], NEW files \in [Comps -> [Paths -> Nat]],
         NEW units, NEW assigned \in SUBSET Comps,
         \A c \in Comps : hosts[c].data => hosts[c].version = "current" /\ hosts[c].at[Manifest] # Absent,
         PlanHost(hosts, files, units, assigned).ok
  PROVE  /\ Orderly(hosts, files, units, [c \in Comps |-> c \in assigned],
                    PlanHost(hosts, files, units, assigned).steps)
         /\ \A c \in assigned : files[c][Manifest] # Absent
<1> DEFINE mine == [c \in Comps |-> c \in assigned]
           part == [c \in Comps |->
                       PlanComponent(c, hosts[c], files[c], units[c], c \in assigned)]
           changes == [c \in Comps |-> part[c].actions]
           reload == \E c \in Comps : part[c].reload
           installed == {c \in Comps : hosts[c].data}
           good == /\ \A c \in installed : Loads(hosts[c])
                   /\ \A c \in assigned : files[c][Manifest] # Absent
                   /\ \A c \in Comps : part[c].ok
                   /\ ValidSteps(Steps(changes, reload), installed)
           plan == PlanHost(hosts, files, units, assigned)
<1>1. plan = IF good THEN [ok |-> TRUE, steps |-> Steps(changes, reload)]
                     ELSE [ok |-> FALSE, steps |-> <<>>]
  BY DEF PlanHost
<1>2. ASSUME NEW c \in Comps
      PROVE  /\ Arranged(c, hosts[c], files[c], units[c], mine[c], part[c].actions)
             /\ part[c].reload = (Needed(c, hosts[c], files[c], mine[c]) # {})
  <2>1. part[c] = PlanComponent(c, hosts[c], files[c], units[c], mine[c])
    OBVIOUS
  <2>2. /\ files[c] \in [Paths -> Nat] /\ hosts[c] \in Directories /\ mine[c] \in BOOLEAN
        /\ hosts[c].data => hosts[c].version = "current" /\ hosts[c].at[Manifest] # Absent
    OBVIOUS
  <2>. HIDE DEF part, mine
  <2>3. LET p == PlanComponent(c, hosts[c], files[c], units[c], mine[c]) IN
        /\ Arranged(c, hosts[c], files[c], units[c], mine[c], p.actions)
        /\ p.reload = (Needed(c, hosts[c], files[c], mine[c]) # {})
    BY <2>2, ComponentArranged
  <2>4. QED
    BY <2>1, <2>3
<1>3. DOMAIN changes = Comps /\ \A c \in Comps : changes[c] = part[c].actions
  OBVIOUS
<1>4. mine \in [Comps -> BOOLEAN]
  OBVIOUS
<1>5. good => \A c \in assigned : files[c][Manifest] # Absent
  OBVIOUS
<1>. HIDE DEF part, mine
<1>6. reload = \E c \in Comps : Needed(c, hosts[c], files[c], mine[c]) # {}
  BY <1>2
<1>. HIDE DEF changes, reload, good, plan
<1>7. good /\ plan.steps = Steps(changes, reload)
  <2>1. plan.ok
    BY DEF plan
  <2>2. CASE ~good
    <3>1. plan.ok = FALSE
      BY <1>1, <2>2
    <3>2. QED
      BY <2>1, <3>1
  <2>3. CASE good
    BY <1>1, <2>3
  <2>4. QED
    BY <2>2, <2>3
<1>8. \A c \in Comps : Arranged(c, hosts[c], files[c], units[c], mine[c], changes[c])
  BY <1>2, <1>3
<1>9. Orderly(hosts, files, units, mine, Steps(changes, reload))
  BY <1>3, <1>4, <1>6, <1>8, StepsArranged
<1>10. QED
  BY <1>5, <1>7, <1>9 DEF plan, mine

=============================================================================
