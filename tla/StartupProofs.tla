---------------------------- MODULE StartupProofs ----------------------------
(***************************************************************************)
(* Proofs about Startup, and ConfigLoad in it, for every set of files,     *)
(* whatever they include and define, and every environment.                *)
(***************************************************************************)
EXTENDS Startup, SequenceLemmas

------------------------------------------------------------------------------
(* Sorting a set of numbers. *)

\* The place of a number in the order.
Place(S, x) == Cardinality({y \in S : y <= x})

\* Each number has its own place, and all places are taken.
LEMMA Places ==
  ASSUME NEW S, S \subseteq Nat, IsFiniteSet(S), NEW n, n = Cardinality(S)
  PROVE  /\ n \in Nat
         /\ \A x \in S : Place(S, x) \in 1..n
         /\ \A x \in S : \A y \in S : Place(S, x) = Place(S, y) => x = y
         /\ \A k \in 1..n : \E x \in S : Place(S, x) = k
<1> DEFINE B(x) == {y \in S : y <= x}
           place == [x \in S |-> Place(S, x)]
<1>0. n \in Nat
  BY FS_CardinalityType
<1>1. \A x \in S : IsFiniteSet(B(x)) /\ Cardinality(B(x)) \in Nat /\ Cardinality(B(x)) <= n
  BY FS_Subset, FS_CardinalityType
<1>2. ASSUME NEW x \in S
      PROVE  Place(S, x) \in 1..n
  <2>1. B(x) # {}
    OBVIOUS
  <2>2. Cardinality(B(x)) # 0
    <3> HIDE DEF B
    <3>. QED
      BY <1>1, <2>1, FS_EmptySet
  <2>. QED
    BY <1>0, <1>1, <2>2 DEF Place
<1>3. ASSUME NEW x \in S, NEW y \in S, x < y
      PROVE  Place(S, x) # Place(S, y)
  <2>0. x \in Nat /\ y \in Nat /\ \A z \in S : z \in Nat
    OBVIOUS
  <2>1. B(x) \in SUBSET B(y) /\ y \in B(y) /\ y \notin B(x)
    <3>1. \A z \in S : z <= x => z <= y
      BY <1>3, <2>0
    <3>2. y <= y /\ ~(y <= x)
      BY <1>3, <2>0
    <3>. QED
      BY <3>1, <3>2
  <2>2. IsFiniteSet(B(y))
    BY <1>1
  <2>3. Cardinality(B(y)) # Cardinality(B(x))
    <3> HIDE DEF B
    <3>. QED
      BY <2>1, <2>2, FS_Subset
  <2>. QED
    BY <2>3 DEF Place
<1>4. \A x \in S : \A y \in S : Place(S, x) = Place(S, y) => x = y
  <2> SUFFICES ASSUME NEW x \in S, NEW y \in S, Place(S, x) = Place(S, y), x # y
               PROVE  FALSE
    OBVIOUS
  <2>1. x < y \/ y < x
    OBVIOUS
  <2>. QED
    BY <1>3, <2>1
<1>5. place \in Injection(S, 1..n)
  <2>1. place \in [S -> 1..n] /\ \A x, y \in S : place[x] = place[y] => x = y
    BY <1>2, <1>4
  <2> HIDE DEF place
  <2>. QED
    BY <2>1, Fun_IsInj
<1>6. IsFiniteSet(1..n) /\ Cardinality(1..n) = n
  <2>1. 1 \in Int /\ n \in Int
    BY <1>0
  <2>2. IsFiniteSet(1..n) /\ Cardinality(1..n) = IF 1 > n THEN 0 ELSE n - 1 + 1
    BY <2>1, FS_Interval
  <2>. QED
    BY <1>0, <2>2
<1>7. place \in Surjection(S, 1..n)
  <2> HIDE DEF place
  <2>. QED
    BY <1>5, <1>6, FS_Injection
<1>8. \A k \in 1..n : \E x \in S : place[x] = k
  <2> HIDE DEF place
  <2>. QED
    BY <1>7 DEF Surjection
<1>. QED
  BY <1>0, <1>2, <1>4, <1>8

\* InOrder puts each number in its place.
LEMMA InOrderPlaces ==
  ASSUME NEW S, S \subseteq Nat, IsFiniteSet(S), NEW n, n = Cardinality(S)
  PROVE  /\ n \in Nat
         /\ InOrder(S) \in [1..n -> S]
         /\ \A k \in 1..n : Place(S, InOrder(S)[k]) = k
         /\ \A x \in S : Place(S, x) \in 1..n /\ InOrder(S)[Place(S, x)] = x
<1>1. /\ n \in Nat
      /\ \A x \in S : Place(S, x) \in 1..n
      /\ \A x \in S : \A y \in S : Place(S, x) = Place(S, y) => x = y
      /\ \A k \in 1..n : \E x \in S : Place(S, x) = k
  BY Places
<1>2. InOrder(S) = [k \in 1..n |-> CHOOSE x \in S : Place(S, x) = k]
  BY DEF InOrder, Place
<1>3. \A k \in 1..n : InOrder(S)[k] \in S /\ Place(S, InOrder(S)[k]) = k
  <2> SUFFICES ASSUME NEW k \in 1..n
               PROVE  InOrder(S)[k] \in S /\ Place(S, InOrder(S)[k]) = k
    OBVIOUS
  <2>1. InOrder(S)[k] = CHOOSE x \in S : Place(S, x) = k
    BY <1>2
  <2>. QED
    BY <1>1, <2>1
<1>4. InOrder(S) \in [1..n -> S]
  BY <1>2, <1>3
<1>. QED
  BY <1>1, <1>3, <1>4

\* p is q with x as its next element.
Extended(p, q, n, x) == p[n + 1] = x /\ \A k \in 1..n : p[k] = q[k]

\* A number greater than all others goes last.
LEMMA InOrderNext ==
  ASSUME NEW S, S \subseteq Nat, IsFiniteSet(S), NEW n \in Nat, n = Cardinality(S),
         NEW m \in Nat, \A x \in S : x < m
  PROVE  /\ Cardinality(S \cup {m}) = n + 1
         /\ Extended(InOrder(S \cup {m}), InOrder(S), n, m)
<1> DEFINE U == S \cup {m}
<1>1. m \notin S
  OBVIOUS
<1>2. IsFiniteSet(U) /\ Cardinality(U) = n + 1 /\ U \subseteq Nat /\ n \in Nat
  BY <1>1, FS_AddElement, FS_CardinalityType
<1>3. /\ InOrder(S) \in [1..n -> S]
      /\ \A k \in 1..n : Place(S, InOrder(S)[k]) = k
  BY InOrderPlaces
<1>4. /\ InOrder(U) \in [1..(n + 1) -> U]
      /\ \A x \in U : Place(U, x) \in 1..(n + 1) /\ InOrder(U)[Place(U, x)] = x
  <2> HIDE DEF U
  <2>. QED
    BY <1>2, InOrderPlaces
<1>5. Place(U, m) = n + 1
  <2>0. \A y \in U : y \in Nat /\ y <= m
    OBVIOUS
  <2>1. {y \in U : y <= m} = U
    BY <2>0
  <2>. QED
    BY <1>2, <2>1 DEF Place
<1>6. ASSUME NEW x \in S
      PROVE  Place(U, x) = Place(S, x)
  <2>1. x \in Nat /\ x < m
    OBVIOUS
  <2>2. {y \in U : y <= x} = {y \in S : y <= x}
    BY <2>1
  <2>. QED
    BY <2>2 DEF Place
<1>7. InOrder(U)[n + 1] = m
  BY <1>4, <1>5
<1>8. ASSUME NEW k \in 1..n
      PROVE  InOrder(U)[k] = InOrder(S)[k]
  <2>1. PICK x \in S : x = InOrder(S)[k]
    BY <1>3
  <2>2. Place(U, x) = k
    BY <1>3, <1>6, <2>1
  <2>. QED
    BY <1>4, <2>1, <2>2
<1>. QED
  BY <1>2, <1>7, <1>8 DEF Extended

------------------------------------------------------------------------------
(* First occurrences. *)

\* Where an element of a sequence occurs for the first time.
New(s) == {i \in DOMAIN s : \A j \in 1..(i - 1) : s[j] # s[i]}

\* Firsts picks the elements at those places, in order.
LEMMA NewFinite ==
  ASSUME NEW T, NEW s \in Seq(T)
  PROVE  /\ New(s) \subseteq Nat /\ New(s) \subseteq 1..Len(s) /\ IsFiniteSet(New(s))
         /\ Cardinality(New(s)) \in Nat
         /\ DOMAIN InOrder(New(s)) = 1..Cardinality(New(s))
         /\ \A k \in 1..Cardinality(New(s)) : InOrder(New(s))[k] \in New(s)
         /\ Firsts(s) = [k \in 1..Cardinality(New(s)) |-> s[InOrder(New(s))[k]]]
<1>1. Len(s) \in Nat /\ DOMAIN s = 1..Len(s)
  OBVIOUS
<1>2. New(s) \subseteq 1..Len(s)
  BY <1>1 DEF New
<1>3. New(s) \subseteq Nat
  BY <1>1, <1>2
<1>4. IsFiniteSet(New(s))
  <2>1. 1 \in Int /\ Len(s) \in Int
    BY <1>1
  <2>. QED
    BY <1>2, <2>1, FS_Interval, FS_Subset
<1>5. PICK n : n = Cardinality(New(s))
  OBVIOUS
<1>6. n \in Nat /\ InOrder(New(s)) \in [1..n -> New(s)]
  BY <1>3, <1>4, <1>5, InOrderPlaces
<1>7. Firsts(s) = [k \in DOMAIN InOrder(New(s)) |-> s[InOrder(New(s))[k]]]
  BY DEF Firsts, New
<1>8. DOMAIN InOrder(New(s)) = 1..n
  BY <1>6
<1>. QED
  BY <1>2, <1>3, <1>4, <1>5, <1>6, <1>7, <1>8

\* They have the elements of the sequence.
LEMMA FirstsElements ==
  ASSUME NEW T, NEW s \in Seq(T)
  PROVE  Firsts(s) \in Seq(T) /\ ToSet(Firsts(s)) = ToSet(s)
<1>1. Len(s) \in Nat /\ DOMAIN s = 1..Len(s) /\ \A i \in 1..Len(s) : s[i] \in T
  OBVIOUS
<1>2. PICK n \in Nat : n = Cardinality(New(s))
  BY NewFinite
<1>3. PICK q : q = InOrder(New(s))
  OBVIOUS
<1>4. /\ Firsts(s) = [k \in 1..n |-> s[q[k]]]
      /\ \A k \in 1..n : q[k] \in New(s) /\ q[k] \in 1..Len(s)
  BY <1>2, <1>3, NewFinite
<1>5. \A x \in New(s) : \E k \in 1..n : q[k] = x
  <2> SUFFICES ASSUME NEW x \in New(s) PROVE \E k \in 1..n : q[k] = x
    OBVIOUS
  <2>1. Place(New(s), x) \in 1..n /\ q[Place(New(s), x)] = x
    BY <1>2, <1>3, NewFinite, InOrderPlaces
  <2>. QED
    BY <2>1
<1>6. Firsts(s) \in Seq(T)
  <2>1. \A k \in 1..n : s[q[k]] \in T
    BY <1>1, <1>4
  <2>2. Firsts(s) \in [1..n -> T]
    BY <1>4, <2>1
  <2>. QED
    BY <1>2, <2>2
<1>7. DOMAIN Firsts(s) = 1..n /\ \A k \in 1..n : Firsts(s)[k] = s[q[k]]
  BY <1>4
<1>8. ASSUME NEW i \in 1..Len(s)
      PROVE  \E k \in 1..n : s[q[k]] = s[i]
  <2> DEFINE Same == {j \in 1..Len(s) : s[j] = s[i]}
  <2>1. PICK j \in Same : \A m \in Same : j <= m
    <3>1. Same \subseteq Nat /\ Same # {}
      BY <1>1
    <3> HIDE DEF Same
    <3>. QED
      BY <3>1, LeastElement
  <2>2. j \in New(s)
    <3>1. ASSUME NEW m \in 1..(j - 1)
          PROVE  s[m] # s[j]
      <4>1. m \in 1..Len(s) /\ ~(j <= m)
        BY <1>1
      <4>. QED
        BY <2>1, <4>1
    <3>. QED
      BY <1>1, <3>1 DEF New
  <2>. QED
    BY <1>5, <2>2
<1>9. ToSet(Firsts(s)) = ToSet(s)
  <2>1. ToSet(Firsts(s)) = {s[q[k]] : k \in 1..n}
    BY <1>7 DEF ToSet
  <2>2. ToSet(s) = {s[i] : i \in 1..Len(s)}
    BY <1>1 DEF ToSet
  <2>3. \A k \in 1..n : \E i \in 1..Len(s) : s[q[k]] = s[i]
    BY <1>4
  <2>4. \A z : z \in ToSet(Firsts(s)) <=> \E k \in 1..n : z = s[q[k]]
    BY <2>1
  <2>5. \A z : z \in ToSet(s) <=> \E i \in 1..Len(s) : z = s[i]
    BY <2>2
  <2>6. ASSUME NEW z \in ToSet(Firsts(s))
        PROVE  z \in ToSet(s)
    BY <2>3, <2>4, <2>5
  <2>7. ASSUME NEW z \in ToSet(s)
        PROVE  z \in ToSet(Firsts(s))
    <3>1. PICK i \in 1..Len(s) : z = s[i]
      BY <2>5
    <3>2. PICK k \in 1..n : s[q[k]] = s[i]
      BY <1>8
    <3>. QED
      BY <2>4, <3>1, <3>2
  <2>. QED
    BY <2>6, <2>7
<1>. QED
  BY <1>6, <1>9

\* An element that has occurred adds nothing; a new one comes last.
LEMMA FirstsNext ==
  ASSUME NEW T, NEW s \in Seq(T), NEW x \in T
  PROVE  Firsts(Append(s, x)) = IF x \in ToSet(s) THEN Firsts(s) ELSE Append(Firsts(s), x)
<1>1. PICK n \in Nat : n = Len(s) /\ DOMAIN s = 1..n
  OBVIOUS
<1>2. PICK y \in Seq(T) : y = Append(s, x)
  <2>1. \A U : \A q \in Seq(U) : \A z \in U : Append(q, z) \in Seq(U)
    OBVIOUS
  <2>. QED
    BY <2>1
<1>3. Len(y) = n + 1 /\ DOMAIN y = 1..(n + 1) /\ y[n + 1] = x /\ \A i \in 1..n : y[i] = s[i]
  BY <1>1, <1>2
<1>4. \A i \in 1..n : i \in New(y) <=> i \in New(s)
  BY <1>1, <1>3 DEF New
<1>5. n + 1 \in New(y) <=> x \notin ToSet(s)
  BY <1>1, <1>3 DEF New, ToSet
<1>6. New(s) \subseteq 1..n /\ New(y) \subseteq 1..(n + 1)
  BY <1>1, <1>3, NewFinite
<1>7. PICK m \in Nat : m = Cardinality(New(s))
  BY NewFinite
<1>8. PICK q : q = InOrder(New(s))
  OBVIOUS
<1>9. /\ Firsts(s) = [k \in 1..m |-> s[q[k]]]
      /\ \A k \in 1..m : q[k] \in 1..n
  BY <1>1, <1>7, <1>8, NewFinite
<1>10. CASE x \in ToSet(s)
  <2>1. New(y) = New(s)
    <3>1. \A i \in New(y) : i \in 1..n
      BY <1>5, <1>6, <1>10
    <3>. QED
      BY <1>4, <1>6, <3>1
  <2>2. Firsts(y) = [k \in 1..m |-> y[q[k]]]
    BY <1>7, <1>8, <2>1, NewFinite
  <2>3. Firsts(y) = Firsts(s)
    BY <1>3, <1>9, <2>2
  <2>. QED
    BY <1>2, <1>10, <2>3
<1>11. CASE x \notin ToSet(s)
  <2>1. New(y) = New(s) \cup {n + 1}
    BY <1>4, <1>5, <1>6, <1>11
  <2>2. PICK p : p = InOrder(New(y))
    OBVIOUS
  <2>3. /\ Cardinality(New(y)) = m + 1 /\ p[m + 1] = n + 1
        /\ \A k \in 1..m : p[k] = q[k]
    <3>1. PICK S : S = New(s)
      OBVIOUS
    <3>2. S \subseteq Nat /\ IsFiniteSet(S) /\ m = Cardinality(S)
      BY <1>7, <3>1, NewFinite
    <3>3. PICK l \in Nat : l = n + 1
      OBVIOUS
    <3>4. \A i \in S : i < l
      BY <1>6, <3>1, <3>3
    <3>5. q = InOrder(S) /\ p = InOrder(S \cup {l}) /\ New(y) = S \cup {l}
      BY <1>8, <2>1, <2>2, <3>1, <3>3
    <3>6. Cardinality(S \cup {l}) = m + 1
      BY <3>2, <3>4, <3>5, InOrderNext
    <3>7. Extended(p, q, m, l)
      BY <3>2, <3>4, <3>5, InOrderNext
    <3>. QED
      BY <3>3, <3>5, <3>6, <3>7 DEF Extended
  <2>4. Firsts(y) = [k \in 1..(m + 1) |-> y[p[k]]]
    BY <2>2, <2>3, NewFinite
  <2>5. PICK u \in Seq(T) : u = Firsts(s) /\ Len(u) = m
    <3>1. Firsts(s) \in Seq(T)
      BY FirstsElements
    <3>2. Len(Firsts(s)) = m
      BY <1>9, <3>1
    <3>. QED
      BY <3>1, <3>2
  <2>6. PICK v \in Seq(T) : v = Firsts(y) /\ Len(v) = m + 1
    <3>1. Firsts(y) \in Seq(T)
      BY FirstsElements
    <3>2. Len(Firsts(y)) = m + 1
      BY <2>4, <3>1
    <3>. QED
      BY <3>1, <3>2
  <2>7. v[m + 1] = x
    BY <1>3, <2>3, <2>4, <2>6
  <2>8. \A k \in 1..m : v[k] = u[k]
    BY <1>3, <1>9, <2>3, <2>4, <2>5, <2>6
  <2>9. v = Append(u, x)
    BY <2>5, <2>6, <2>7, <2>8
  <2>. QED
    BY <1>2, <1>11, <2>5, <2>6, <2>9
<1>. QED
  BY <1>10, <1>11

------------------------------------------------------------------------------
(* The files as a parameter: they do not change, so what is said of them before a step *)
(* and after it is the same.                                                           *)

FoundOn(d, f) == d[f].status # "absent" /\ (f \in ConfigD => d[ConfigDir].status # "broken")

MatchesOn(d, p) ==
  IF p.kind = "malformed" THEN <<Malformed>>
  ELSE InOrder({f \in p.files : p.kind = "glob" => FoundOn(d, f)})

InConfigDOn(d) ==
  IF d[ConfigDir].status = "broken" THEN <<ConfigDir>>
  ELSE InOrder({f \in ConfigD : d[f].status # "absent"})

ListedOn(d) ==
  <<Main>> \o FlattenSeq([i \in DOMAIN d[Main].text.include |->
                            MatchesOn(d, d[Main].text.include[i])])
           \o InConfigDOn(d)

DefinedOn(d, files, c) ==
  LET K == {k \in DOMAIN files : d[files[k]].text.defs[c] # None}
  IN  IF K = {} THEN None
      ELSE d[files[CHOOSE k \in K : \A m \in K : m <= k]].text.defs[c]

WrittenOn(d, files) == FlattenSeq([k \in DOMAIN files |-> d[files[k]].text.backups])

PromisedOn(d) ==
  LET all == WrittenOn(d, Firsts(ListedOn(d)))
  IN  [i \in DOMAIN all |->
         [all[i] EXCEPT !.name = Clean[@],
                        !.inline = IF all[i].ref = None THEN @
                                   ELSE DefinedOn(d, Firsts(ListedOn(d)), all[i].ref)]]

\* What LoadInv says while files are read, of the files d, the configuration c, the files
\* l read and the files t still to be read.
ReadWell(d, c, l, t) ==
  LET n    == Len(ListedOn(d)) - Len(t)
      done == Firsts(SubSeq(ListedOn(d), 1, n))
  IN  /\ n > 0 /\ t = SubSeq(ListedOn(d), n + 1, Len(ListedOn(d)))
      /\ l = ToSet(done)
      /\ \A f \in l : d[f].status = "ok"
      /\ \A x \in Comps : c.defs[x] = DefinedOn(d, done, x)

\* ... and what MergedAsDocumented says when all are.
MergedWell(d, c) ==
  /\ \A f \in ToSet(Firsts(ListedOn(d))) : d[f].status = "ok"
  /\ c.backups = PromisedOn(d)
  /\ \A x \in Comps : c.defs[x] = DefinedOn(d, Firsts(ListedOn(d)), x)

RefusedWell(d) ==
  \/ \E f \in {Main} \cup ToSet(Firsts(ListedOn(d))) : d[f].status # "ok"
  \/ \E b \in ToSet(PromisedOn(d)) :
       b.ref # None /\ DefinedOn(d, Firsts(ListedOn(d)), b.ref) = None

\* The promises of the configuration, before and after a step.
LEMMA OnDisk ==
  /\ Listed = ListedOn(disk) /\ Listed' = ListedOn(disk')
  /\ PromisedBackups = PromisedOn(disk) /\ PromisedBackups' = PromisedOn(disk')
<1>1. Listed = ListedOn(disk) /\ Listed' = ListedOn(disk')
  BY DEF Listed, ListedOn, Matches, MatchesOn, Found, FoundOn, InConfigD, InConfigDOn
<1>2. Sources = Firsts(ListedOn(disk)) /\ Sources' = Firsts(ListedOn(disk'))
  BY <1>1 DEF Sources
<1>. QED
  BY <1>1, <1>2 DEF PromisedBackups, PromisedOn, WrittenIn, WrittenOn, InForce, DefinedIn, DefinedOn

\* MergedAsDocumented with the files as a parameter.
LEMMA MergedIs ==
  /\ MergedAsDocumented <=>
       /\ at = "loaded" => MergedWell(disk, cfg)
       /\ at = "failed" => RefusedWell(disk)
  /\ MergedAsDocumented' <=>
       /\ at' = "loaded" => MergedWell(disk', cfg')
       /\ at' = "failed" => RefusedWell(disk')
<1>2. Sources = Firsts(ListedOn(disk)) /\ Sources' = Firsts(ListedOn(disk'))
  BY OnDisk DEF Sources
<1>. QED
  BY <1>2, OnDisk DEF MergedAsDocumented, MergedWell, RefusedWell, InForce, DefinedIn, DefinedOn

\* LoadInv with the files as a parameter.
LEMMA LoadInvIs ==
  /\ LoadInv <=>
       /\ at = "start" => loaded = {} /\ todo = <<>>
       /\ at \in {"reading", "loaded"} => ReadWell(disk, cfg, loaded, todo)
       /\ at = "reading" =>
            cfg.backups = WrittenOn(disk, Firsts(SubSeq(ListedOn(disk), 1,
                                                   Len(ListedOn(disk)) - Len(todo))))
       /\ at = "loaded" => todo = <<>>
       /\ MergedAsDocumented
  /\ LoadInv' <=>
       /\ at' = "start" => loaded' = {} /\ todo' = <<>>
       /\ at' \in {"reading", "loaded"} => ReadWell(disk', cfg', loaded', todo')
       /\ at' = "reading" =>
            cfg'.backups = WrittenOn(disk', Firsts(SubSeq(ListedOn(disk'), 1,
                                                     Len(ListedOn(disk')) - Len(todo'))))
       /\ at' = "loaded" => todo' = <<>>
       /\ MergedAsDocumented'
<1>1. LoadInv <=>
        /\ at = "start" => loaded = {} /\ todo = <<>>
        /\ at \in {"reading", "loaded"} => ReadWell(disk, cfg, loaded, todo)
        /\ at = "reading" =>
             cfg.backups = WrittenOn(disk, Firsts(SubSeq(ListedOn(disk), 1,
                                                    Len(ListedOn(disk)) - Len(todo))))
        /\ at = "loaded" => todo = <<>>
        /\ MergedAsDocumented
  BY Zenon DEF LoadInv, ReadWell, WrittenIn, WrittenOn, DefinedIn, DefinedOn, Listed,
     ListedOn, Matches, MatchesOn, Found, FoundOn, InConfigD, InConfigDOn
<1>2. LoadInv' <=>
        /\ at' = "start" => loaded' = {} /\ todo' = <<>>
        /\ at' \in {"reading", "loaded"} => ReadWell(disk', cfg', loaded', todo')
        /\ at' = "reading" =>
             cfg'.backups = WrittenOn(disk', Firsts(SubSeq(ListedOn(disk'), 1,
                                                      Len(ListedOn(disk')) - Len(todo'))))
        /\ at' = "loaded" => todo' = <<>>
        /\ MergedAsDocumented'
  BY Zenon DEF LoadInv, ReadWell, WrittenIn, WrittenOn, DefinedIn, DefinedOn, Listed,
     ListedOn, Matches, MatchesOn, Found, FoundOn, InConfigD, InConfigDOn
<1>. QED
  BY <1>1, <1>2

------------------------------------------------------------------------------
(* Types. *)

\* What a file of a considered disk says has its type.
LEMMA FileTyped ==
  ASSUME NEW d \in Disks, NEW f \in Items
  PROVE  /\ d[f].status \in {"absent", "broken", "ok"}
         /\ d[f].text \in Sections
         /\ d[f].text.include \in Seq(Patterns)
         /\ d[f].text.defs \in [Comps -> Adapters \cup {None}]
         /\ d[f].text.backups \in Seq(Entries)
         /\ d[f].text.logging \in Loggings
         /\ d[f].text.health \in BOOLEAN
<1>1. d[f] \in [status : {"absent", "broken", "ok"}, text : Sections]
  BY ConfigAssumption DEF ConfigAssumption
<1>2. PICK x \in Sections : x = d[f].text
  BY <1>1
<1>3. x.include \in Seq(Patterns)
  BY <1>2 DEF Sections
<1>4. x.defs \in [Comps -> Adapters \cup {None}]
  BY <1>2 DEF Sections
<1>5. x.backups \in Seq(Entries)
  BY <1>2 DEF Sections
<1>6. x.logging \in Loggings /\ x.health \in BOOLEAN
  BY <1>2 DEF Sections
<1>. QED
  BY <1>1, <1>2, <1>3, <1>4, <1>5, <1>6

\* Files in order are a sequence of items.
LEMMA InOrderTyped ==
  ASSUME NEW S, S \subseteq Files
  PROVE  InOrder(S) \in Seq(Items)
<1>1. S \subseteq Nat /\ IsFiniteSet(S)
  BY ConfigAssumption, FS_Subset DEF ConfigAssumption
<1>2. PICK n \in Nat : n = Cardinality(S)
  BY <1>1, FS_CardinalityType
<1>3. InOrder(S) \in [1..n -> S]
  BY <1>1, <1>2, InOrderPlaces
<1>4. PICK q : q = InOrder(S)
  OBVIOUS
<1>5. q \in [1..n -> Items]
  BY <1>3, <1>4 DEF Items
<1>6. q \in Seq(Items)
  BY <1>2, <1>5
<1>. QED
  BY <1>4, <1>6

\* FlattenSeq makes one sequence of many.
LEMMA FlattenTyped ==
  ASSUME NEW T, NEW z \in Seq(Seq(T))
  PROVE  FlattenSeq(z) \in Seq(T)
<1>1. <<>> \in Seq(T)
  OBVIOUS
<1>. QED
  BY <1>1, FlattenNext

\* What an include and config.d stand for is a sequence of items.
LEMMA MatchesTyped ==
  ASSUME NEW d
  PROVE  /\ \A p \in Patterns : MatchesOn(d, p) \in Seq(Items)
         /\ InConfigDOn(d) \in Seq(Items)
<1>1. <<Malformed>> \in Seq(Items) /\ <<ConfigDir>> \in Seq(Items)
  <2>1. Malformed \in Items /\ ConfigDir \in Items
    BY DEF Items
  <2>. QED
    BY <2>1
<1>2. ASSUME NEW p \in Patterns
      PROVE  MatchesOn(d, p) \in Seq(Items)
  <2>1. {f \in p.files : p.kind = "glob" => FoundOn(d, f)} \subseteq Files
    BY DEF Patterns
  <2>2. InOrder({f \in p.files : p.kind = "glob" => FoundOn(d, f)}) \in Seq(Items)
    BY <2>1, InOrderTyped
  <2>. QED
    BY <1>1, <2>2, Zenon DEF MatchesOn
<1>3. InConfigDOn(d) \in Seq(Items)
  <2>1. {f \in ConfigD : d[f].status # "absent"} \subseteq Files
    BY ConfigAssumption DEF ConfigAssumption
  <2>2. InOrder({f \in ConfigD : d[f].status # "absent"}) \in Seq(Items)
    BY <2>1, InOrderTyped
  <2>. QED
    BY <1>1, <2>2, Zenon DEF InConfigDOn
<1>. QED
  BY <1>2, <1>3

\* What is read after the main file.
RestOn(d) ==
  FlattenSeq([i \in DOMAIN d[Main].text.include |-> MatchesOn(d, d[Main].text.include[i])])
  \o InConfigDOn(d)

\* The list of sources begins with the main file.
LEMMA ListedTyped ==
  ASSUME NEW d \in Disks
  PROVE  /\ RestOn(d) \in Seq(Items)
         /\ ListedOn(d) \in Seq(Items)
         /\ ListedOn(d) = <<Main>> \o RestOn(d)
<1> DEFINE inc == d[Main].text.include
           all == [i \in DOMAIN inc |-> MatchesOn(d, inc[i])]
<1>1. inc \in Seq(Patterns) /\ Main \in Items
  BY ConfigAssumption, FileTyped DEF ConfigAssumption, Items
<1>2. PICK n \in Nat : DOMAIN inc = 1..n /\ \A i \in 1..n : inc[i] \in Patterns
  <2> HIDE DEF inc
  <2>. QED
    BY <1>1
<1>3. all \in Seq(Seq(Items))
  <2> HIDE DEF inc
  <2>1. \A i \in 1..n : MatchesOn(d, inc[i]) \in Seq(Items)
    BY <1>2, MatchesTyped
  <2>2. all \in [1..n -> Seq(Items)]
    BY <1>2, <2>1
  <2> HIDE DEF all
  <2>. QED
    BY <2>2
<1>4. PICK a \in Seq(Items) : a = FlattenSeq(all)
  <2> HIDE DEF all
  <2>. QED
    BY <1>3, FlattenTyped
<1>5. PICK b \in Seq(Items) : b = InConfigDOn(d)
  BY MatchesTyped
<1>6. RestOn(d) = a \o b /\ ListedOn(d) = <<Main>> \o a \o b
  BY <1>4, <1>5 DEF RestOn, ListedOn
<1>7. a \o b \in Seq(Items)
  OBVIOUS
<1>8. <<Main>> \o a \o b = <<Main>> \o (a \o b)
  BY <1>1
<1>9. <<Main>> \o (a \o b) \in Seq(Items)
  BY <1>1, <1>7
<1>. QED
  BY <1>6, <1>7, <1>8, <1>9

------------------------------------------------------------------------------
(* One file more. *)

\* A definition in the file added overrides those before it.
LEMMA DefinedNext ==
  ASSUME NEW d, NEW s \in Seq(Items), NEW f \in Items, NEW c
  PROVE  DefinedOn(d, Append(s, f), c) =
           IF d[f].text.defs[c] # None THEN d[f].text.defs[c] ELSE DefinedOn(d, s, c)
<1>1. PICK n \in Nat : n = Len(s) /\ DOMAIN s = 1..n
  OBVIOUS
<1>2. PICK y : y = Append(s, f)
  OBVIOUS
<1>3. DOMAIN y = 1..(n + 1) /\ y[n + 1] = f /\ \A k \in 1..n : y[k] = s[k]
  BY <1>1, <1>2
<1> DEFINE Says(k) == d[y[k]].text.defs[c]
           K == {k \in 1..n : d[s[k]].text.defs[c] # None}
           J == {k \in 1..(n + 1) : Says(k) # None}
<1>4. DefinedOn(d, y, c) = IF J = {} THEN None ELSE Says(CHOOSE k \in J : \A m \in J : m <= k)
  BY <1>3 DEF DefinedOn
<1>5. DefinedOn(d, s, c) =
        IF K = {} THEN None
        ELSE d[s[CHOOSE k \in K : \A m \in K : m <= k]].text.defs[c]
  BY <1>1 DEF DefinedOn
<1>6. Says(n + 1) = d[f].text.defs[c]
  BY <1>3
<1>7. CASE d[f].text.defs[c] # None
  <2>1. n + 1 \in J /\ \A m \in J : m <= n + 1
    BY <1>6, <1>7
  <2>2. \A k \in J : (\A m \in J : m <= k) => k = n + 1
    <3>1. \A k \in J : k \in Nat
      OBVIOUS
    <3> HIDE DEF J
    <3>. QED
      BY <2>1, <3>1
  <2>3. (CHOOSE k \in J : \A m \in J : m <= k) = n + 1
    <3> HIDE DEF J
    <3>. QED
      BY <2>1, <2>2
  <2>. QED
    <3> HIDE DEF J, Says
    <3>. QED
      BY <1>2, <1>4, <1>6, <1>7, <2>1, <2>3
<1>8. CASE d[f].text.defs[c] = None
  <2>1. \A k \in 1..n : Says(k) = d[s[k]].text.defs[c]
    BY <1>3
  <2>2. J = K
    <3> HIDE DEF Says
    <3>1. \A k \in 1..(n + 1) : k \in 1..n \/ k = n + 1
      OBVIOUS
    <3>2. \A k \in 1..n : k \in 1..(n + 1)
      OBVIOUS
    <3>. QED
      BY <1>6, <1>8, <2>1, <3>1, <3>2
  <2>3. CASE K = {}
    <3> HIDE DEF K, J, Says
    <3>. QED
      BY <1>2, <1>4, <1>5, <1>8, <2>2, <2>3
  <2>4. CASE K # {}
    <3>1. K \subseteq 1..n
      OBVIOUS
    <3>2. \E k \in K : \A m \in K : m <= k
      <4> DEFINE R == {n - k : k \in K}
      <4>1. R \subseteq Nat /\ R # {}
        BY <2>4, <3>1
      <4>2. PICK r \in R : \A q \in R : r <= q
        <5> HIDE DEF R
        <5>. QED
          BY <4>1, LeastElement
      <4>3. PICK k \in K : r = n - k
        BY <4>2
      <4>4. \A m \in K : n - k <= n - m
        BY <4>2, <4>3
      <4>. QED
        <5> HIDE DEF K, R
        <5>. QED
          BY <3>1, <4>4
    <3>3. (CHOOSE k \in K : \A m \in K : m <= k) \in 1..n
      <4> HIDE DEF K
      <4>. QED
        BY <3>1, <3>2
    <3>. QED
      <4> HIDE DEF K, J, Says
      <4>. QED
        BY <1>2, <1>4, <1>5, <1>8, <2>1, <2>2, <2>4, <3>3
  <2>. QED
    BY <2>3, <2>4
<1>. QED
  BY <1>7, <1>8

\* Its backups come last.
LEMMA WrittenNext ==
  ASSUME NEW d \in Disks, NEW s \in Seq(Items), NEW f \in Items
  PROVE  /\ WrittenOn(d, s) \in Seq(Entries)
         /\ WrittenOn(d, Append(s, f)) = WrittenOn(d, s) \o d[f].text.backups
<1>1. PICK n \in Nat : n = Len(s) /\ DOMAIN s = 1..n
  OBVIOUS
<1>2. \A g \in Items : d[g].text.backups \in Seq(Entries)
  BY FileTyped
<1>3. PICK y : y = Append(s, f)
  OBVIOUS
<1>4. DOMAIN y = 1..(n + 1) /\ y[n + 1] = f /\ \A k \in 1..n : y[k] = s[k] /\ s[k] \in Items
  BY <1>1, <1>3
<1> DEFINE z == [k \in 1..n |-> d[s[k]].text.backups]
           w == [k \in 1..(n + 1) |-> d[y[k]].text.backups]
<1>5. z \in Seq(Seq(Entries)) /\ Len(z) = n
  <2>1. \A k \in 1..n : d[s[k]].text.backups \in Seq(Entries)
    BY <1>2, <1>4
  <2>2. z \in [1..n -> Seq(Entries)]
    BY <2>1
  <2> HIDE DEF z
  <2>. QED
    BY <2>2
<1>6. PICK b \in Seq(Entries) : b = d[f].text.backups
  BY <1>2
<1>7. w = Append(z, b)
  <2>1. PICK v \in Seq(Seq(Entries)) : v = Append(z, b)
    <3>1. \A U : \A q \in Seq(U) : \A x \in U : Append(q, x) \in Seq(U)
      OBVIOUS
    <3> HIDE DEF z
    <3>. QED
      BY <1>5, <3>1
  <2>2. Len(v) = n + 1 /\ DOMAIN v = 1..(n + 1) /\ v[n + 1] = b /\ \A k \in 1..n : v[k] = z[k]
    <3> HIDE DEF z
    <3>. QED
      BY <1>5, <2>1
  <2>3. \A k \in 1..n : z[k] = d[s[k]].text.backups
    OBVIOUS
  <2>4. \A k \in 1..(n + 1) : w[k] = v[k]
    <3>1. \A k \in 1..(n + 1) : k \in 1..n \/ k = n + 1
      OBVIOUS
    <3>2. w[n + 1] = b
      BY <1>4, <1>6
    <3>3. \A k \in 1..n : w[k] = d[s[k]].text.backups
      BY <1>4
    <3> HIDE DEF w, z
    <3>. QED
      BY <2>2, <2>3, <3>1, <3>2, <3>3
  <2>5. DOMAIN w = 1..(n + 1) /\ w = [k \in 1..(n + 1) |-> w[k]]
    OBVIOUS
  <2>6. v = [k \in 1..(n + 1) |-> v[k]]
    BY <2>2
  <2>. QED
    <3> HIDE DEF w, z
    <3>. QED
      BY <2>1, <2>4, <2>5, <2>6
<1>8. FlattenSeq(z) \in Seq(Entries) /\ FlattenSeq(Append(z, b)) = FlattenSeq(z) \o b
  <2> HIDE DEF z
  <2>. QED
    BY <1>5, FlattenNext
<1>9. WrittenOn(d, s) = FlattenSeq(z) /\ WrittenOn(d, y) = FlattenSeq(w)
  BY <1>1, <1>4 DEF WrittenOn
<1>. QED
  <2> HIDE DEF z, w
  <2>. QED
    BY <1>3, <1>6, <1>7, <1>8, <1>9

\* A merge is a configuration again: lists are appended, definitions overridden.
LEMMA MergeTyped ==
  ASSUME NEW c \in Sections, NEW x \in Sections
  PROVE  /\ Merge(c, x) \in Sections
         /\ Merge(c, x).include = c.include \o x.include
         /\ Merge(c, x).backups = c.backups \o x.backups
         /\ \A n \in Comps :
              Merge(c, x).defs[n] = IF x.defs[n] = None THEN c.defs[n] ELSE x.defs[n]
<1>1. PICK ci \in Seq(Patterns) : ci = c.include
  BY DEF Sections
<1>2. PICK cd \in [Comps -> Adapters \cup {None}] : cd = c.defs
  BY DEF Sections
<1>3. PICK cb \in Seq(Entries) : cb = c.backups
  BY DEF Sections
<1>4. PICK cl \in Loggings : cl = c.logging
  BY DEF Sections
<1>5. PICK ch \in BOOLEAN : ch = c.health
  BY Zenon DEF Sections
<1>6. c = [include |-> ci, defs |-> cd, backups |-> cb, logging |-> cl, health |-> ch]
  BY <1>1, <1>2, <1>3, <1>4, <1>5 DEF Sections
<1>7. PICK xi \in Seq(Patterns) : xi = x.include
  BY DEF Sections
<1>8. PICK xd \in [Comps -> Adapters \cup {None}] : xd = x.defs
  BY DEF Sections
<1>9. PICK xb \in Seq(Entries) : xb = x.backups
  BY DEF Sections
<1>10. PICK xl \in Loggings : xl = x.logging
  BY DEF Sections
<1>11. PICK mi \in Seq(Patterns) : mi = ci \o xi
  <2>1. ci \o xi \in Seq(Patterns)
    BY <1>1, <1>7
  <2>. QED
    BY <2>1
<1>12. PICK mb \in Seq(Entries) : mb = cb \o xb
  <2>1. cb \o xb \in Seq(Entries)
    BY <1>3, <1>9
  <2>. QED
    BY <2>1
<1>13. PICK md \in [Comps -> Adapters \cup {None}] :
         md = [n \in Comps |-> IF xd[n] = None THEN cd[n] ELSE xd[n]]
  <2>1. \A n \in Comps : (IF xd[n] = None THEN cd[n] ELSE xd[n]) \in Adapters \cup {None}
    BY <1>2, <1>8
  <2>2. [n \in Comps |-> IF xd[n] = None THEN cd[n] ELSE xd[n]] \in [Comps -> Adapters \cup {None}]
    BY <2>1
  <2>. QED
    BY <2>2
<1>14. PICK ml \in Loggings : ml = IF xl.level THEN xl ELSE cl
  <2>1. (IF xl.level THEN xl ELSE cl) \in Loggings
    BY Zenon
  <2>. QED
    BY <2>1
<1>15. Merge(c, x) = [include |-> mi, defs |-> md, backups |-> mb, logging |-> ml, health |-> ch]
  <2>1. md = [n \in Comps |-> IF x.defs[n] = None THEN c.defs[n] ELSE x.defs[n]]
    BY <1>2, <1>8, <1>13
  <2>2. ml = IF x.logging.level THEN x.logging ELSE c.logging
    BY <1>4, <1>10, <1>14, Zenon
  <2>3. mi = c.include \o x.include /\ mb = c.backups \o x.backups
    BY <1>1, <1>3, <1>7, <1>9, <1>11, <1>12
  <2>4. Merge(c, x) = [c EXCEPT !.include = mi, !.defs = md, !.backups = mb, !.logging = ml]
    BY <2>1, <2>2, <2>3, Zenon DEF Merge
  <2>. QED
    BY <1>6, <2>4
<1>16. PICK m : m = [include |-> mi, defs |-> md, backups |-> mb, logging |-> ml, health |-> ch]
  OBVIOUS
<1>17. m \in Sections
  BY <1>16 DEF Sections
<1>18. m.include = c.include \o x.include /\ m.backups = c.backups \o x.backups
  BY <1>1, <1>3, <1>7, <1>9, <1>11, <1>12, <1>16
<1>19. \A n \in Comps : m.defs[n] = IF x.defs[n] = None THEN c.defs[n] ELSE x.defs[n]
  BY <1>2, <1>8, <1>13, <1>16
<1>. QED
  BY <1>15, <1>16, <1>17, <1>18, <1>19

\* The first n listed files have been dealt with: the configuration c is made of the files l.
ReadTo(d, c, l, n) ==
  LET done == Firsts(SubSeq(ListedOn(d), 1, n))
  IN  /\ n \in 0..Len(ListedOn(d))
      /\ l = ToSet(done)
      /\ \A f \in l : d[f].status = "ok"
      /\ \A x \in Comps : c.defs[x] = DefinedOn(d, done, x)
      /\ c.backups = WrittenOn(d, done)

\* Before the first file is read, the configuration is the empty one.
LEMMA ReadNothing ==
  ASSUME NEW d \in Disks
  PROVE  ReadTo(d, EmptyConfig, {}, 0)
<1>1. PICK L \in Seq(Items) : L = ListedOn(d)
  BY ListedTyped
<1>2. SubSeq(L, 1, 0) = <<>>
  OBVIOUS
<1>3. <<>> \in Seq(Items) /\ ToSet(<<>>) = {}
  BY DEF ToSet
<1>4. Firsts(<<>>) \in Seq(Items) /\ ToSet(Firsts(<<>>)) = {}
  BY <1>3, FirstsElements
<1>5. Firsts(<<>>) = <<>>
  <2>1. PICK s \in Seq(Items) : s = Firsts(<<>>)
    BY <1>4
  <2>2. \A i \in DOMAIN s : s[i] \in ToSet(s)
    BY DEF ToSet
  <2>3. Len(s) = 0
    BY <1>4, <2>1, <2>2
  <2>4. \A q \in Seq(Items) : Len(q) = 0 => q = <<>>
    OBVIOUS
  <2>. QED
    BY <2>1, <2>3, <2>4
<1>6. WrittenOn(d, <<>>) = <<>>
  <2>1. [k \in DOMAIN <<>> |-> d[<<>>[k]].text.backups] = <<>>
    OBVIOUS
  <2>. QED
    BY <2>1, FlattenNothing DEF WrittenOn
<1>7. \A x \in Comps : DefinedOn(d, <<>>, x) = None
  <2>1. DOMAIN <<>> = {}
    OBVIOUS
  <2>. QED
    BY <2>1 DEF DefinedOn
<1>8. EmptyConfig.backups = <<>> /\ \A x \in Comps : EmptyConfig.defs[x] = None
  BY DEF EmptyConfig
<1>9. 0 \in 0..Len(L)
  OBVIOUS
<1>. QED
  BY <1>1, <1>2, <1>3, <1>5, <1>6, <1>7, <1>8, <1>9 DEF ReadTo

\* A file that is new is merged; one that is not, is passed over.
LEMMA ReadStep ==
  ASSUME NEW d \in Disks, NEW c \in Sections, NEW l, NEW n \in Nat,
         ReadTo(d, c, l, n), n < Len(ListedOn(d)), NEW f \in Items, f = ListedOn(d)[n + 1]
  PROVE  /\ f \notin l /\ d[f].status = "ok" => ReadTo(d, Merge(c, d[f].text), l \cup {f}, n + 1)
         /\ f \in l => ReadTo(d, c, l, n + 1)
<1>1. PICK L \in Seq(Items) : L = ListedOn(d)
  BY ListedTyped
<1>2. PICK s \in Seq(Items) : s = SubSeq(L, 1, n)
  <2>1. \A k \in 1..n : L[k] \in Items
    BY <1>1
  <2>2. SubSeq(L, 1, n) \in Seq(Items)
    BY <1>1, <2>1
  <2>. QED
    BY <2>2
<1>3. SubSeq(L, 1, n + 1) = Append(s, f)
  <2>1. Len(s) = n /\ \A k \in 1..n : s[k] = L[k]
    BY <1>1, <1>2
  <2>2. PICK y \in Seq(Items) : y = Append(s, f)
    <3>1. \A U : \A q \in Seq(U) : \A x \in U : Append(q, x) \in Seq(U)
      OBVIOUS
    <3>. QED
      BY <3>1
  <2>3. Len(y) = n + 1 /\ y[n + 1] = f /\ \A k \in 1..n : y[k] = s[k]
    BY <2>1, <2>2
  <2>4. PICK z : z = SubSeq(L, 1, n + 1)
    OBVIOUS
  <2>5. z \in Seq(Items) /\ Len(z) = n + 1 /\ \A k \in 1..(n + 1) : z[k] = L[k]
    BY <1>1, <2>4
  <2>6. \A k \in 1..(n + 1) : z[k] = y[k]
    BY <1>1, <2>1, <2>3, <2>5
  <2>7. z = y
    BY <2>2, <2>3, <2>5, <2>6
  <2>. QED
    BY <2>2, <2>4, <2>7
<1>4. PICK q \in Seq(Items) : q = Firsts(s) /\ ToSet(q) = ToSet(s)
  BY FirstsElements
<1>5. /\ l = ToSet(q)
      /\ \A g \in l : d[g].status = "ok"
      /\ \A x \in Comps : c.defs[x] = DefinedOn(d, q, x)
      /\ c.backups = WrittenOn(d, q)
  BY <1>1, <1>2, <1>4 DEF ReadTo
<1>6. PICK p : p = Firsts(Append(s, f)) /\ p = IF f \in l THEN q ELSE Append(q, f)
  BY <1>4, <1>5, FirstsNext
<1>7. n + 1 \in 0..Len(L)
  BY <1>1
<1>8. CASE f \in l
  <2>1. p = q
    BY <1>6, <1>8
  <2>. QED
    BY <1>1, <1>3, <1>5, <1>6, <1>7, <1>8, <2>1 DEF ReadTo
<1>9. CASE f \notin l /\ d[f].status = "ok"
  <2>1. PICK m : m = Merge(c, d[f].text)
    OBVIOUS
  <2>2. /\ m.backups = c.backups \o d[f].text.backups
        /\ \A x \in Comps :
             m.defs[x] = IF d[f].text.defs[x] = None THEN c.defs[x] ELSE d[f].text.defs[x]
    BY <2>1, FileTyped, MergeTyped
  <2>3. p = Append(q, f)
    BY <1>6, <1>9
  <2>4. ToSet(p) = l \cup {f}
    <3>1. Append(s, f) \in Seq(Items)
      <4>1. \A U : \A u \in Seq(U) : \A x \in U : Append(u, x) \in Seq(U)
        OBVIOUS
      <4>. QED
        BY <4>1
    <3>2. ToSet(p) = ToSet(Append(s, f))
      BY <1>6, <3>1, FirstsElements
    <3>3. ToSet(Append(s, f)) = ToSet(s) \cup {f}
      <4>1. PICK k \in Nat : k = Len(s) /\ DOMAIN s = 1..k
        OBVIOUS
      <4>2. PICK y : y = Append(s, f)
        OBVIOUS
      <4>3. DOMAIN y = 1..(k + 1) /\ y[k + 1] = f /\ \A i \in 1..k : y[i] = s[i]
        BY <4>1, <4>2
      <4>4. \A i \in 1..(k + 1) : i \in 1..k \/ i = k + 1
        BY <4>1
      <4>5. \A i \in 1..k : i \in 1..(k + 1)
        BY <4>1
      <4>6. \A v : v \in ToSet(y) <=> \E i \in 1..(k + 1) : v = y[i]
        BY <4>3 DEF ToSet
      <4>7. \A v : v \in ToSet(s) <=> \E i \in 1..k : v = s[i]
        BY <4>1 DEF ToSet
      <4>8. \A v : v \in ToSet(y) <=> v \in ToSet(s) \/ v = f
        BY <4>1, <4>3, <4>4, <4>5, <4>6, <4>7
      <4>. QED
        BY <4>2, <4>8
    <3>. QED
      BY <1>4, <1>5, <3>2, <3>3
  <2>5. \A x \in Comps : m.defs[x] = DefinedOn(d, p, x)
    <3> SUFFICES ASSUME NEW x \in Comps PROVE m.defs[x] = DefinedOn(d, p, x)
      OBVIOUS
    <3>1. DefinedOn(d, Append(q, f), x) =
            IF d[f].text.defs[x] # None THEN d[f].text.defs[x] ELSE DefinedOn(d, q, x)
      BY DefinedNext
    <3>. QED
      BY <1>5, <2>2, <2>3, <3>1
  <2>6. m.backups = WrittenOn(d, p)
    BY <1>5, <2>2, <2>3, WrittenNext
  <2>7. \A g \in l \cup {f} : d[g].status = "ok"
    BY <1>5, <1>9
  <2>8. ReadTo(d, m, l \cup {f}, n + 1)
    BY <1>1, <1>3, <1>6, <1>7, <2>4, <2>5, <2>6, <2>7 DEF ReadTo
  <2>. QED
    BY <1>9, <2>1, <2>8
<1>. QED
  BY <1>8, <1>9

\* What LoadInv says while files are read.
ReadInv(d, c, l, t) ==
  /\ ReadWell(d, c, l, t)
  /\ c.backups = WrittenOn(d, Firsts(SubSeq(ListedOn(d), 1, Len(ListedOn(d)) - Len(t))))

\* ReadInv says that a part of the list is read and the rest still to be read.
LEMMA ReadInvIs ==
  ASSUME NEW d \in Disks, NEW c, NEW l, NEW t \in Seq(Items), NEW n \in Nat,
         n = Len(ListedOn(d)) - Len(t)
  PROVE  ReadInv(d, c, l, t) <=>
           n > 0 /\ t = SubSeq(ListedOn(d), n + 1, Len(ListedOn(d))) /\ ReadTo(d, c, l, n)
<1>1. PICK L \in Seq(Items) : L = ListedOn(d)
  BY ListedTyped
<1>2. n \in 0..Len(L)
  BY <1>1
<1>. QED
  BY <1>1, <1>2 DEF ReadInv, ReadWell, ReadTo

\* The last elements of a sequence.
LEMMA SubSeqTail ==
  ASSUME NEW T, NEW s \in Seq(T), NEW n \in 0..Len(s), NEW q, q = SubSeq(s, n + 1, Len(s))
  PROVE  /\ q \in Seq(T) /\ Len(q) = Len(s) - n
         /\ \A i \in 1..(Len(s) - n) : q[i] = s[n + i]
<1>1. \A i \in 1..Len(s) : s[i] \in T
  OBVIOUS
<1>2. q = [i \in 1..(Len(s) - n) |-> s[(n + 1) + i - 1]]
  BY DEF SubSeq
<1>3. \A i \in 1..(Len(s) - n) : (n + 1) + i - 1 = n + i /\ n + i \in 1..Len(s)
  OBVIOUS
<1>4. q \in [1..(Len(s) - n) -> T]
  BY <1>1, <1>2, <1>3
<1>5. Len(s) - n \in Nat
  OBVIOUS
<1>6. q \in Seq(T) /\ Len(q) = Len(s) - n
  BY <1>4, <1>5
<1>. QED
  BY <1>2, <1>3, <1>6

\* config.go:162-176: the main file is the first of the list.
LEMMA ReadFirst ==
  ASSUME NEW d \in Disks, d[Main].status = "ok"
  PROVE  ReadInv(d, Merge(EmptyConfig, d[Main].text), {Main}, RestOn(d))
<1>1. PICK L \in Seq(Items), R \in Seq(Items) : L = ListedOn(d) /\ R = RestOn(d) /\ L = <<Main>> \o R
  BY ListedTyped
<1>2. Main \in Items
  BY ConfigAssumption DEF ConfigAssumption, Items
<1>3. Len(L) = Len(R) + 1 /\ L[1] = Main /\ R = SubSeq(L, 2, Len(L))
  <2>1. Len(L) = Len(R) + 1 /\ L[1] = Main /\ \A i \in 1..Len(R) : L[i + 1] = R[i]
    BY <1>1, <1>2
  <2>2. PICK q : q = SubSeq(L, 2, Len(L))
    OBVIOUS
  <2>3. q \in Seq(Items) /\ Len(q) = Len(R) /\ \A i \in 1..Len(R) : q[i] = R[i]
    BY <1>1, <2>1, <2>2
  <2>. QED
    BY <1>1, <2>1, <2>2, <2>3
<1>4. EmptyConfig \in Sections
  BY DEF EmptyConfig, Sections, NoLogging, Loggings
<1>5. ReadTo(d, Merge(EmptyConfig, d[Main].text), {Main}, 1)
  <2>1. ReadTo(d, EmptyConfig, {}, 0) /\ 0 \in Nat /\ 0 < Len(L) /\ Main = L[0 + 1]
    BY <1>1, <1>3, ReadNothing
  <2>2. Main \notin {} /\ {} \cup {Main} = {Main}
    OBVIOUS
  <2>3. ReadTo(d, Merge(EmptyConfig, d[Main].text), {} \cup {Main}, 0 + 1)
    BY <1>1, <1>2, <1>4, <2>1, <2>2, ReadStep
  <2>. QED
    BY <2>2, <2>3
<1>6. PICK n \in Nat : n = 1 /\ n > 0 /\ n = Len(L) - Len(R) /\ n + 1 = 2
  BY <1>1, <1>3
<1>7. PICK m : m = Merge(EmptyConfig, d[Main].text)
  OBVIOUS
<1>8. R = SubSeq(L, n + 1, Len(L)) /\ ReadTo(d, m, {Main}, n)
  BY <1>3, <1>5, <1>6, <1>7
<1>9. ReadInv(d, m, {Main}, R)
  BY <1>1, <1>6, <1>8, ReadInvIs
<1>. QED
  BY <1>1, <1>7, <1>9

\* Each further file of the list is merged or passed over.
LEMMA ReadAnother ==
  ASSUME NEW d \in Disks, NEW c \in Sections, NEW l, NEW t \in Seq(Items), t # <<>>,
         ReadInv(d, c, l, t)
  PROVE  /\ Tail(t) \in Seq(Items) /\ Head(t) \in Items /\ Head(t) \in ToSet(ListedOn(d))
         /\ Head(t) \notin l /\ d[Head(t)].status = "ok" =>
              ReadInv(d, Merge(c, d[Head(t)].text), l \cup {Head(t)}, Tail(t))
         /\ Head(t) \in l => ReadInv(d, c, l, Tail(t))
<1>1. PICK L \in Seq(Items) : L = ListedOn(d)
  BY ListedTyped
<1>2. PICK n : n = Len(L) - Len(t)
  OBVIOUS
<1>3. n \in Nat /\ n > 0 /\ t = SubSeq(L, n + 1, Len(L))
  <2>1. n \in Int
    BY <1>1, <1>2
  <2>2. n > 0 /\ t = SubSeq(L, n + 1, Len(L))
    BY <1>1, <1>2 DEF ReadInv, ReadWell
  <2>. QED
    BY <2>1, <2>2
<1>4. ReadTo(d, c, l, n)
  BY <1>1, <1>2, <1>3, ReadInvIs
<1>5. Len(t) > 0
  <2>1. \A q \in Seq(Items) : Len(q) = 0 => q = <<>>
    OBVIOUS
  <2>2. Len(t) \in Nat /\ Len(t) # 0
    BY <2>1
  <2>. QED
    BY <2>2
<1>6. PICK f \in Items, r \in Seq(Items) : f = Head(t) /\ r = Tail(t)
  <2>1. Head(t) \in Items /\ Tail(t) \in Seq(Items)
    BY <1>5
  <2>. QED
    BY <2>1
<1>7. n < Len(L) /\ f = L[n + 1]
  <2>1. n < Len(L)
    BY <1>1, <1>2, <1>5
  <2>2. f = t[1]
    BY <1>6
  <2>3. t[1] = L[n + 1]
    BY <1>1, <1>3, <2>1
  <2>. QED
    BY <2>1, <2>2, <2>3
<1>8. r = SubSeq(L, (n + 1) + 1, Len(L)) /\ n + 1 = Len(L) - Len(r)
  <2>1. Len(r) = Len(t) - 1 /\ \A i \in 1..Len(r) : r[i] = t[i + 1]
    BY <1>5, <1>6
  <2>2. \A i \in 1..Len(t) : t[i] = L[n + i]
    <3>1. n \in 0..Len(L) /\ Len(L) - n = Len(t)
      BY <1>2, <1>3, <1>7
    <3>. QED
      BY <1>3, <3>1, SubSeqTail
  <2>3. PICK q : q = SubSeq(L, (n + 1) + 1, Len(L))
    OBVIOUS
  <2>4. q \in Seq(Items) /\ Len(q) = Len(r) /\ \A i \in 1..Len(r) : q[i] = L[n + 1 + i]
    <3>1. PICK m \in 0..Len(L) : m = n + 1 /\ Len(L) - m = Len(r)
      BY <1>2, <1>3, <1>7, <2>1
    <3>2. q = SubSeq(L, m + 1, Len(L))
      BY <2>3, <3>1
    <3>. QED
      BY <3>1, <3>2, SubSeqTail
  <2>5. \A i \in 1..Len(r) : i \in Nat /\ i + 1 \in 1..Len(t) /\ n + (i + 1) = n + 1 + i
    BY <1>3, <2>1
  <2>6. \A i \in 1..Len(r) : r[i] = q[i]
    BY <2>1, <2>2, <2>4, <2>5
  <2>7. r = q
    BY <1>6, <2>4, <2>6
  <2>. QED
    BY <1>1, <1>2, <2>1, <2>3, <2>7
<1>9. f \in ToSet(L)
  <2>1. n + 1 \in DOMAIN L
    BY <1>1, <1>3, <1>7
  <2>. QED
    BY <1>7, <2>1 DEF ToSet
<1>10. /\ f \notin l /\ d[f].status = "ok" => ReadTo(d, Merge(c, d[f].text), l \cup {f}, n + 1)
       /\ f \in l => ReadTo(d, c, l, n + 1)
  BY <1>1, <1>3, <1>4, <1>6, <1>7, ReadStep
<1>11. PICK k \in Nat : k = n + 1 /\ k > 0
  BY <1>3
<1>12. \A m, v : ReadTo(d, m, v, k) => ReadInv(d, m, v, r)
  BY <1>1, <1>6, <1>8, <1>11, ReadInvIs
<1>. QED
  BY <1>1, <1>6, <1>9, <1>10, <1>11, <1>12

\* All files are read.
LEMMA ReadAll ==
  ASSUME NEW d \in Disks, NEW c, NEW l, ReadInv(d, c, l, <<>>)
  PROVE  /\ \A f \in ToSet(Firsts(ListedOn(d))) : d[f].status = "ok"
         /\ \A x \in Comps : c.defs[x] = DefinedOn(d, Firsts(ListedOn(d)), x)
         /\ c.backups = WrittenOn(d, Firsts(ListedOn(d)))
<1>1. PICK L \in Seq(Items) : L = ListedOn(d)
  BY ListedTyped
<1>2. PICK n \in Nat : n = Len(L) /\ n = Len(L) - Len(<<>>)
  OBVIOUS
<1>3. ReadTo(d, c, l, n)
  <2>1. <<>> \in Seq(Items)
    OBVIOUS
  <2>. QED
    BY <1>1, <1>2, <2>1, ReadInvIs
<1>4. SubSeq(L, 1, n) = L
  BY <1>1, <1>2
<1>. QED
  BY <1>1, <1>3, <1>4 DEF ReadTo

\* config.go:232, 317: resolved, the configuration holds what is promised.
LEMMA ResolveWell ==
  ASSUME NEW d \in Disks, NEW c \in Sections, NEW l, NEW r, ReadInv(d, c, l, <<>>), Resolves(c),
         r = [c EXCEPT !.backups = [i \in DOMAIN @ |-> Resolved(c, @[i])]]
  PROVE  r \in Sections /\ ReadWell(d, r, l, <<>>) /\ MergedWell(d, r)
<1>1. PICK ci \in Seq(Patterns) : ci = c.include
  BY DEF Sections
<1>2. PICK cd \in [Comps -> Adapters \cup {None}] : cd = c.defs
  BY DEF Sections
<1>3. PICK cb \in Seq(Entries) : cb = c.backups
  BY DEF Sections
<1>4. PICK cl \in Loggings : cl = c.logging
  BY DEF Sections
<1>5. PICK ch \in BOOLEAN : ch = c.health
  BY Zenon DEF Sections
<1>6. c = [include |-> ci, defs |-> cd, backups |-> cb, logging |-> cl, health |-> ch]
  BY <1>1, <1>2, <1>3, <1>4, <1>5 DEF Sections
<1>7. PICK n \in Nat : DOMAIN cb = 1..n /\ \A i \in 1..n : cb[i] \in Entries /\ cb[i] \in ToSet(cb)
  <2>1. PICK n \in Nat : n = Len(cb)
    OBVIOUS
  <2>2. DOMAIN cb = 1..n
    BY <2>1
  <2>3. \A i \in 1..n : cb[i] \in Entries
    BY <2>1
  <2>4. \A i \in 1..n : cb[i] \in ToSet(cb)
    BY <2>2 DEF ToSet
  <2>. QED
    BY <2>2, <2>3, <2>4
<1>8. \A i \in 1..n : cb[i].ref # None => cb[i].ref \in Comps /\ cd[cb[i].ref] \in Adapters
  <2> SUFFICES ASSUME NEW i \in 1..n, cb[i].ref # None
               PROVE  cb[i].ref \in Comps /\ cd[cb[i].ref] \in Adapters
    OBVIOUS
  <2>1. PICK e \in Entries : e = cb[i] /\ e \in ToSet(c.backups) /\ e.ref # None
    BY <1>3, <1>7
  <2>2. e.ref \in Comps
    BY <2>1 DEF Entries
  <2>3. cd[e.ref] # None
    BY <1>2, <2>1 DEF Resolves
  <2>. QED
    BY <1>2, <2>1, <2>2, <2>3
<1>9. PICK b : b = [i \in 1..n |-> Resolved(c, cb[i])]
  OBVIOUS
<1>10. r = [include |-> ci, defs |-> cd, backups |-> b, logging |-> cl, health |-> ch]
  <2>1. b = [i \in DOMAIN c.backups |-> Resolved(c, c.backups[i])]
    BY <1>3, <1>7, <1>9
  <2>2. r = [c EXCEPT !.backups = b]
    BY <2>1, Zenon
  <2>. QED
    BY <1>6, <2>2
<1>11. \A i \in 1..n : Resolved(c, cb[i]) \in Entries
  <2> SUFFICES ASSUME NEW i \in 1..n PROVE Resolved(c, cb[i]) \in Entries
    OBVIOUS
  <2>1. PICK e \in Entries : e = cb[i]
    BY <1>7
  <2>2. PICK v : v = IF e.ref = None THEN e.inline ELSE c.defs[e.ref]
    OBVIOUS
  <2>3. v \in Adapters
    BY <1>2, <1>8, <2>1, <2>2 DEF Entries
  <2>4. PICK m \in Names : m = Clean[e.name]
    BY ConfigAssumption DEF ConfigAssumption, Entries
  <2>5. Resolved(c, e) = [e EXCEPT !.name = m, !.inline = v]
    BY <2>2, <2>4, Zenon DEF Resolved
  <2>6. [e EXCEPT !.name = m, !.inline = v] \in Entries
    BY <2>3 DEF Entries
  <2>. QED
    BY <2>1, <2>5, <2>6
<1>12. b \in Seq(Entries)
  <2>1. b \in [1..n -> Entries]
    BY <1>9, <1>11
  <2>. QED
    BY <2>1
<1>13. r \in Sections
  <2>1. PICK bb \in Seq(Entries) : bb = b
    BY <1>12
  <2>2. r = [include |-> ci, defs |-> cd, backups |-> bb, logging |-> cl, health |-> ch]
    BY <1>10, <2>1
  <2>3. PICK v : v = [include |-> ci, defs |-> cd, backups |-> bb, logging |-> cl, health |-> ch]
    OBVIOUS
  <2>4. v \in Sections
    BY <2>3, SMTT(30) DEF Sections
  <2>. QED
    BY <2>2, <2>3, <2>4
<1>14. r.defs = c.defs /\ r.backups = b
  BY <1>2, <1>10
<1>15. ReadWell(d, r, l, <<>>)
  BY <1>14 DEF ReadInv, ReadWell
<1>16. PICK F : F = Firsts(ListedOn(d))
  OBVIOUS
<1>17. /\ \A f \in ToSet(F) : d[f].status = "ok"
       /\ \A x \in Comps : c.defs[x] = DefinedOn(d, F, x)
       /\ cb = WrittenOn(d, F)
  BY <1>3, <1>16, ReadAll
<1>18. b = PromisedOn(d)
  <2> DEFINE Of(i) == [cb[i] EXCEPT !.name = Clean[@],
                          !.inline = IF cb[i].ref = None THEN @ ELSE DefinedOn(d, F, cb[i].ref)]
  <2>1. PromisedOn(d) = [i \in 1..n |-> Of(i)]
    BY <1>7, <1>16, <1>17 DEF PromisedOn
  <2>2. ASSUME NEW i \in 1..n
        PROVE  Resolved(c, cb[i]) = Of(i)
    <3>1. cb[i].ref # None => c.defs[cb[i].ref] = DefinedOn(d, F, cb[i].ref)
      BY <1>8, <1>17
    <3>. QED
      BY <3>1, Zenon DEF Resolved
  <2> HIDE DEF Of
  <2>. QED
    BY <1>9, <2>1, <2>2
<1>19. MergedWell(d, r)
  BY <1>14, <1>16, <1>17, <1>18 DEF MergedWell
<1>. QED
  BY <1>13, <1>15, <1>19

\* A reference that cannot be resolved is one that nothing defines.
LEMMA ResolveFails ==
  ASSUME NEW d \in Disks, NEW c \in Sections, NEW l, ReadInv(d, c, l, <<>>), ~Resolves(c)
  PROVE  RefusedWell(d)
<1>1. PICK F : F = Firsts(ListedOn(d))
  OBVIOUS
<1>2. PICK cb \in Seq(Entries) : cb = c.backups
  BY DEF Sections
<1>3. /\ \A x \in Comps : c.defs[x] = DefinedOn(d, F, x)
      /\ cb = WrittenOn(d, F)
  BY <1>1, <1>2, ReadAll
<1>4. PICK e \in ToSet(cb) : e.ref # None /\ c.defs[e.ref] = None
  BY <1>2 DEF Resolves
<1>5. PICK i \in DOMAIN cb : e = cb[i] /\ e \in Entries
  <2>1. PICK i \in DOMAIN cb : e = cb[i]
    BY DEF ToSet
  <2>2. cb[i] \in Entries
    OBVIOUS
  <2>. QED
    BY <2>1, <2>2
<1>6. e.ref \in Comps
  BY <1>4, <1>5 DEF Entries
<1>7. PICK v : v = [e EXCEPT !.name = Clean[@],
                       !.inline = IF e.ref = None THEN @ ELSE DefinedOn(d, F, e.ref)]
  OBVIOUS
<1>8. v.ref = e.ref
  BY <1>5, <1>7 DEF Entries
<1>9. v \in ToSet(PromisedOn(d))
  <2>1. PICK p : p = PromisedOn(d)
    OBVIOUS
  <2>2. i \in DOMAIN p /\ p[i] = v
    BY <1>1, <1>3, <1>5, <1>7, <2>1 DEF PromisedOn
  <2>. QED
    BY <2>1, <2>2 DEF ToSet
<1>. QED
  BY <1>1, <1>3, <1>4, <1>6, <1>8, <1>9 DEF RefusedWell

------------------------------------------------------------------------------
(* The loading. *)

\* LoadInv, of the files d, the configuration c, the files l read, the files t still to be
\* read and the place a where the loading stands.
LoadWell(d, c, l, t, a) ==
  /\ a = "start" => l = {} /\ t = <<>>
  /\ a = "reading" => ReadInv(d, c, l, t)
  /\ a = "loaded" => ReadWell(d, c, l, t) /\ t = <<>> /\ MergedWell(d, c)
  /\ a = "failed" => RefusedWell(d)

\* LoadInv before and after a step.
LEMMA LoadInvWell ==
  /\ LoadInv <=> LoadWell(disk, cfg, loaded, todo, at)
  /\ LoadInv' <=> LoadWell(disk', cfg', loaded', todo', at')
BY LoadInvIs, MergedIs DEF LoadWell, ReadInv

\* The main file is among the sources, which are the files of the list.
LEMMA MainListed ==
  ASSUME NEW d \in Disks
  PROVE  /\ Main \in Items /\ Main \in ToSet(Firsts(ListedOn(d)))
         /\ ToSet(Firsts(ListedOn(d))) = ToSet(ListedOn(d))
<1>1. PICK L \in Seq(Items), R \in Seq(Items) : L = ListedOn(d) /\ L = <<Main>> \o R
  BY ListedTyped
<1>2. Main \in Items
  BY ConfigAssumption DEF ConfigAssumption, Items
<1>3. Len(L) = 1 + Len(R) /\ L[1] = Main
  BY <1>1, <1>2
<1>4. 1 \in DOMAIN L
  BY <1>1, <1>3
<1>5. Main \in ToSet(L)
  BY <1>3, <1>4 DEF ToSet
<1>. QED
  BY <1>1, <1>2, <1>5, FirstsElements

\* A step of the loading.
LEMMA LoadKeeps ==
  ASSUME LoadTypeOK, LoadInv, at = "start" => cfg = EmptyConfig, Load
  PROVE  LoadTypeOK' /\ LoadInv' /\ disk' = disk /\ at' # "start"
<1>1. disk \in Disks
  BY DEF LoadTypeOK
<1>2. cfg \in Sections
  BY DEF LoadTypeOK
<1>3. loaded \subseteq Items
  BY DEF LoadTypeOK
<1>4. todo \in Seq(Items)
  BY DEF LoadTypeOK
<1>5. LoadWell(disk, cfg, loaded, todo, at)
  BY LoadInvWell
<1>6. Main \in Items /\ EmptyConfig \in Sections
  BY MainListed, <1>1 DEF EmptyConfig, Sections, NoLogging, Loggings
<1> SUFFICES /\ disk' = disk /\ at' \in {"reading", "loaded", "failed"}
             /\ cfg' \in Sections
             /\ loaded' \subseteq Items
             /\ todo' \in Seq(Items)
             /\ LoadWell(disk, cfg', loaded', todo', at')
  <2>1. LoadTypeOK' <=> /\ disk' \in Disks
                        /\ cfg' \in Sections
                        /\ loaded' \subseteq Items
                        /\ todo' \in Seq(Items)
                        /\ at' \in {"start", "reading", "loaded", "failed"}
    BY DEF LoadTypeOK
  <2>. QED
    BY <1>1, <2>1, LoadInvWell
<1>7. ASSUME NEW f \in Items, Refuse(f), f \in ToSet(ListedOn(disk)) \cup {Main}
      PROVE  /\ disk' = disk /\ at' \in {"reading", "loaded", "failed"}
             /\ cfg' \in Sections
             /\ loaded' \subseteq Items
             /\ todo' \in Seq(Items)
             /\ LoadWell(disk, cfg', loaded', todo', at')
  <2>1. disk' = disk /\ cfg' = cfg /\ todo' = todo /\ loaded' = loaded \cup {f} /\ at' = "failed"
    BY <1>7 DEF Refuse
  <2>2. RefusedWell(disk)
    BY <1>1, <1>7, MainListed DEF Refuse, RefusedWell
  <2>3. LoadWell(disk, cfg, loaded \cup {f}, todo, "failed")
    BY <2>2 DEF LoadWell
  <2>. QED
    BY <1>2, <1>3, <1>4, <2>1, <2>3
<1>8. CASE LoadMain
  <2>1. cfg = EmptyConfig /\ loaded = {}
    BY <1>5, <1>8 DEF LoadMain, LoadWell
  <2>2. CASE Refuse(Main)
    BY <1>6, <1>7, <2>2
  <2>3. CASE ~Refuse(Main)
    <3>1. disk[Main].status = "ok" /\ loaded' = {Main} /\ cfg' = Merge(EmptyConfig, disk[Main].text)
          /\ disk' = disk /\ at' = "reading"
      BY <1>8, <2>1, <2>3 DEF LoadMain, TakeIn
    <3>2. PICK t \in Seq(Patterns) : t = disk[Main].text.include
      BY <1>1, <1>6, FileTyped
    <3>3. PICK m \in Sections : m = Merge(EmptyConfig, disk[Main].text) /\ m.include = t
      <4>1. /\ Merge(EmptyConfig, disk[Main].text) \in Sections
            /\ Merge(EmptyConfig, disk[Main].text).include = EmptyConfig.include \o t
        BY <1>1, <1>6, <3>2, FileTyped, MergeTyped
      <4>2. EmptyConfig.include = <<>>
        BY DEF EmptyConfig
      <4>3. <<>> \o t = t
        OBVIOUS
      <4>. QED
        BY <4>1, <4>2, <4>3
    <3>4. todo' = FlattenSeq([i \in DOMAIN t |-> Matches(t[i])]) \o InConfigD
      <4>1. todo' = FlattenSeq([i \in DOMAIN cfg'.include |-> Matches(cfg'.include[i])]) \o InConfigD
        BY <1>8, <2>3 DEF LoadMain
      <4>2. cfg'.include = t
        BY <3>1, <3>3
      <4>. QED
        BY <4>1, <4>2
    <3>5. RestOn(disk) = FlattenSeq([i \in DOMAIN t |-> Matches(t[i])]) \o InConfigD
      BY <3>2, Zenon DEF RestOn, Matches, MatchesOn, Found, FoundOn, InConfigD,
         InConfigDOn
    <3>6. RestOn(disk) \in Seq(Items) /\ ReadInv(disk, m, {Main}, RestOn(disk))
      BY <1>1, <3>1, <3>3, ListedTyped, ReadFirst
    <3>7. LoadWell(disk, m, {Main}, RestOn(disk), "reading")
      BY <3>6 DEF LoadWell
    <3>. QED
      BY <1>6, <3>1, <3>3, <3>4, <3>5, <3>6, <3>7
  <2>. QED
    BY <2>2, <2>3
<1>9. CASE at = "reading" /\ todo # <<>>
  <2>1. ReadInv(disk, cfg, loaded, todo)
    BY <1>5, <1>9 DEF LoadWell
  <2>2. PICK f \in Items : f = Head(todo)
    BY <1>1, <1>2, <1>4, <1>9, <2>1, ReadAnother
  <2>3. PICK r \in Seq(Items) : r = Tail(todo)
    BY <1>1, <1>2, <1>4, <1>9, <2>1, ReadAnother
  <2>4. /\ f \in ToSet(ListedOn(disk))
        /\ f \notin loaded /\ disk[f].status = "ok" =>
             ReadInv(disk, Merge(cfg, disk[f].text), loaded \cup {f}, r)
        /\ f \in loaded => ReadInv(disk, cfg, loaded, r)
    BY <1>1, <1>2, <1>4, <1>9, <2>1, <2>2, <2>3, ReadAnother
  <2>5. CASE Refuse(f)
    BY <1>7, <2>4, <2>5
  <2>6. CASE LoadNext /\ ~Refuse(f)
    <3>1. /\ f \notin loaded /\ disk[f].status = "ok" /\ loaded' = loaded \cup {f}
          /\ cfg' = Merge(cfg, disk[f].text) /\ todo' = r /\ disk' = disk /\ at' = "reading"
      BY <1>9, <2>2, <2>3, <2>6 DEF LoadNext, TakeIn
    <3>2. PICK m \in Sections : m = Merge(cfg, disk[f].text)
      BY <1>1, <1>2, FileTyped, MergeTyped
    <3>3. LoadWell(disk, m, loaded \cup {f}, r, "reading")
      BY <2>4, <3>1, <3>2 DEF LoadWell
    <3>. QED
      BY <1>3, <3>1, <3>2, <3>3
  <2>7. CASE SkipLoaded
    <3>1. f \in loaded /\ todo' = r /\ disk' = disk /\ cfg' = cfg /\ loaded' = loaded /\ at' = "reading"
      BY <1>9, <2>2, <2>3, <2>7 DEF SkipLoaded
    <3>2. LoadWell(disk, cfg, loaded, r, "reading")
      BY <2>4, <3>1 DEF LoadWell
    <3>. QED
      BY <1>2, <1>3, <3>1, <3>2
  <2>8. LoadNext \/ SkipLoaded
    BY <1>9 DEF Load, LoadMain, Resolve
  <2>. QED
    BY <2>5, <2>6, <2>7, <2>8
<1>10. CASE Resolve
  <2>1. at = "reading" /\ todo = <<>> /\ disk' = disk /\ loaded' = loaded /\ todo' = <<>>
    BY <1>10 DEF Resolve
  <2>2. ReadInv(disk, cfg, loaded, <<>>)
    BY <1>5, <2>1 DEF LoadWell
  <2>3. CASE Resolves(cfg)
    <3>1. PICK r : r = [cfg EXCEPT !.backups = [i \in DOMAIN @ |-> Resolved(cfg, @[i])]]
      OBVIOUS
    <3>2. cfg' = r /\ at' = "loaded"
      BY <1>10, <2>3, <3>1 DEF Resolve
    <3>3. r \in Sections /\ ReadWell(disk, r, loaded, <<>>) /\ MergedWell(disk, r)
      BY <1>1, <1>2, <2>2, <2>3, <3>1, ResolveWell
    <3>4. LoadWell(disk, r, loaded, <<>>, "loaded")
      BY <3>3 DEF LoadWell
    <3>. QED
      BY <1>3, <1>4, <2>1, <3>2, <3>3, <3>4
  <2>4. CASE ~Resolves(cfg)
    <3>1. cfg' = cfg /\ at' = "failed"
      BY <1>10, <2>4 DEF Resolve
    <3>2. LoadWell(disk, cfg, loaded, <<>>, "failed")
      BY <1>1, <1>2, <2>2, <2>4, ResolveFails DEF LoadWell
    <3>. QED
      BY <1>2, <1>3, <1>4, <2>1, <3>1, <3>2
  <2>. QED
    BY <2>3, <2>4
<1>11. LoadMain \/ (at = "reading" /\ todo # <<>>) \/ Resolve
  BY DEF Load, LoadNext, SkipLoaded
<1>. QED
  BY <1>8, <1>9, <1>10, <1>11

------------------------------------------------------------------------------
(* The process. *)

\* What no step changes.
Frozen == disk' = disk /\ given' = given /\ env' = env /\ mode' = mode

\* A configuration made of the environment.
LEMMA EnvTyped ==
  ASSUME TypeOK
  PROVE  env.entry \in Entries /\ env.health \in BOOLEAN /\ EnvConfig \in Sections
         /\ EnvConfig.backups = <<env.entry>>
<1>1. env \in [status : {"unset", "unusable", "usable"}, entry : Entries, health : BOOLEAN]
  BY StartupAssumption DEF StartupAssumption, TypeOK
<1>2. PICK e \in Entries : e = env.entry
  BY <1>1
<1>3. PICK h : h = env.health
  OBVIOUS
<1>4. h \in BOOLEAN
  BY <1>1, <1>3, Zenon
<1>5. PICK g \in [Comps -> Adapters \cup {None}] : g = [c \in Comps |-> None]
  OBVIOUS
<1>6. PICK i, s, n, w : i = <<>> /\ s = <<e>> /\ n = NoLogging /\ w = FALSE
  OBVIOUS
<1>7. EmptyConfig = [include |-> i, defs |-> g, backups |-> i, logging |-> n, health |-> w]
  BY <1>5, <1>6, Zenon DEF EmptyConfig
<1>8. EnvConfig = [EmptyConfig EXCEPT !.backups = s, !.health = h]
  BY <1>2, <1>3, <1>6, Zenon DEF EnvConfig
<1>9. EnvConfig = [include |-> i, defs |-> g, backups |-> s, logging |-> n, health |-> h]
  BY <1>7, <1>8
<1>10. EnvConfig \in Sections
  <2>1. i \in Seq(Patterns) /\ s \in Seq(Entries)
    BY <1>2, <1>6
  <2>2. n \in Loggings
    BY <1>6 DEF NoLogging, Loggings
  <2>. QED
    BY <1>4, <1>5, <1>9, <2>1, <2>2, Zenon DEF Sections
<1>11. EnvConfig.backups = <<env.entry>>
  BY <1>2, <1>6, <1>9
<1>. QED
  BY <1>2, <1>3, <1>4, <1>10, <1>11, Zenon

\* The files keep telling the same.
LEMMA FrozenPromises ==
  ASSUME Frozen
  PROVE  /\ FromFile' <=> FromFile
         /\ Promised' = Promised
         /\ Sound' <=> Sound
<1>1. FromFile' <=> FromFile
  BY DEF Frozen, FromFile
<1>2. Promised' = Promised
  BY <1>1, OnDisk DEF Frozen, Promised
<1>3. Sources' = Sources
  BY OnDisk DEF Frozen, Sources
<1>4. PICK P : P = Promised
  OBVIOUS
<1>5. PICK S : S = Sources
  OBVIOUS
<1>6. Sound <=> /\ FromFile => \A f \in {Main} \cup ToSet(S) : disk[f].status = "ok"
                /\ P # <<>>
                /\ \A b \in ToSet(P) : b.name # Unnamed /\ b.wellFormed /\ b.inline \in Accepted
  BY <1>4, <1>5 DEF Sound
<1>7. Sound' <=> /\ FromFile' => \A f \in {Main} \cup ToSet(S) : disk'[f].status = "ok"
                 /\ P # <<>>
                 /\ \A b \in ToSet(P) : b.name # Unnamed /\ b.wellFormed /\ b.inline \in Accepted
  BY <1>2, <1>3, <1>4, <1>5 DEF Sound
<1>. QED
  BY <1>1, <1>2, <1>6, <1>7 DEF Frozen

\* Past the loading.
Loaded == phase \in {"have", "logging", "starting", "running", "serving"}

\* Past the loading, a configuration that is valid is sound.
LEMMA HoldsPromised ==
  ASSUME TypeOK, LoadInv, SourceInv, Loaded
  PROVE  /\ cfg.backups = Promised
         /\ Valid(cfg) => Sound
<1>1. CASE FromFile
  <2>1. at = "loaded"
    BY <1>1 DEF SourceInv, Loaded
  <2>2. MergedWell(disk, cfg) /\ disk \in Disks
    BY <2>1, LoadInvWell DEF LoadWell, TypeOK, LoadTypeOK
  <2>3. cfg.backups = Promised
    BY <1>1, <2>2, OnDisk DEF MergedWell, Promised
  <2>4. Sources = Firsts(ListedOn(disk))
    BY OnDisk DEF Sources
  <2>5. \A f \in {Main} \cup ToSet(Sources) : disk[f].status = "ok"
    BY <2>2, <2>4, MainListed DEF MergedWell
  <2>. QED
    BY <2>3, <2>5 DEF Valid, Sound
<1>2. CASE ~FromFile
  <2>1. cfg.backups = Promised
    BY <1>2 DEF SourceInv, Loaded, Promised
  <2>. QED
    BY <1>2, <2>1 DEF Valid, Sound
<1>. QED
  BY <1>1, <1>2

\* Types, the loading and what is frozen, over each step.
LEMMA TypeKeeps ==
  ASSUME TypeOK, LoadInv, SourceInv, [Next]_vars
  PROVE  TypeOK' /\ LoadInv' /\ Frozen /\ ran' \in Seq(BOOLEAN)
<1>1. ran \in Seq(BOOLEAN)
  BY DEF TypeOK
<1>2. LoadTypeOK
  BY DEF TypeOK
<1>3. /\ given \in BOOLEAN /\ env \in Envs /\ mode \in Modes
      /\ phase \in {"flags", "loading", "have", "logging", "starting", "running", "serving", "ended"}
      /\ health \in BOOLEAN /\ code \in {0, 1}
  BY Zenon DEF TypeOK
<1>4. cfg.health \in BOOLEAN
  <2>1. \A c \in Sections : c.health \in BOOLEAN
    BY Zenon DEF Sections
  <2>. QED
    BY <1>2, <2>1, Zenon DEF LoadTypeOK
<1>5. LoadTypeOK' /\ LoadInv' /\ disk' = disk
  <2>1. CASE UNCHANGED loadVars
    <3>1. LoadTypeOK'
      BY <1>2, <2>1 DEF LoadTypeOK, loadVars
    <3>2. LoadWell(disk', cfg', loaded', todo', at')
      BY <2>1, LoadInvWell DEF loadVars
    <3>. QED
      BY <2>1, <3>1, <3>2, LoadInvWell DEF loadVars
  <2>2. CASE LoadFromEnv /\ ~UNCHANGED loadVars
    <3>1. phase = "flags" /\ cfg' = EnvConfig /\ disk' = disk /\ loaded' = loaded /\ todo' = todo
          /\ at' = at
      BY <2>2 DEF LoadFromEnv
    <3>2. at = "start"
      BY <3>1 DEF SourceInv
    <3>3. LoadTypeOK'
      <4>1. cfg' \in Sections
        BY <3>1, EnvTyped
      <4>. QED
        BY <1>2, <3>1, <4>1 DEF LoadTypeOK
    <3>4. loaded = {} /\ todo = <<>>
      BY <3>2, LoadInvWell DEF LoadWell
    <3>5. LoadWell(disk', cfg', loaded', todo', at')
      BY <3>1, <3>2, <3>4 DEF LoadWell
    <3>. QED
      BY <3>1, <3>3, <3>5, LoadInvWell
  <2>3. CASE ReadFiles
    <3>1. Load /\ (at = "start" => cfg = EmptyConfig)
      BY <2>3 DEF ReadFiles, SourceInv
    <3>. QED
      BY <1>2, <3>1, LoadKeeps
  <2>. QED
    BY <2>1, <2>2, <2>3
       DEF Next, FindConfig, LoadEnds, Show, Test, OpenLog, Restore, DryRun, BeginRuns, RunNext,
           EndRuns, StartHealth, StartScheduler, Signal, Ended, vars
<1>6. given' = given /\ env' = env /\ mode' = mode
  BY DEF Next, FindConfig, LoadFromEnv, ReadFiles, LoadEnds, Show, Test, OpenLog, Restore, DryRun,
         BeginRuns, RunNext, EndRuns, StartHealth, StartScheduler, Signal, Ended, vars, mainVars,
         Exit, Proceed
<1>7. phase' \in {"flags", "loading", "have", "logging", "starting", "running", "serving", "ended"}
      /\ code' \in {0, 1}
  BY <1>3 DEF Next, FindConfig, LoadFromEnv, ReadFiles, LoadEnds, Show, Test, OpenLog, Restore, DryRun,
         BeginRuns, RunNext, EndRuns, StartHealth, StartScheduler, Signal, Ended, vars, mainVars,
         Exit, Proceed
<1>8. health' \in BOOLEAN
  <2>1. health' = health \/ health' = FALSE \/ health' = cfg.health
    BY DEF Next, FindConfig, LoadFromEnv, ReadFiles, LoadEnds, Show, Test, OpenLog, Restore, DryRun,
         BeginRuns, RunNext, EndRuns, StartHealth, StartScheduler, Signal, Ended, vars, mainVars,
         Exit, Proceed
  <2>. QED
    BY <1>3, <1>4, <2>1, Zenon
<1>9. ran' \in Seq(BOOLEAN)
  <2>1. CASE RunNext
    <3>1. PICK ok \in BOOLEAN : ran' = Append(ran, ok)
      BY <2>1 DEF RunNext
    <3>2. \A U : \A q \in Seq(U) : \A x \in U : Append(q, x) \in Seq(U)
      OBVIOUS
    <3>. QED
      BY <1>1, <3>1, <3>2, Zenon
  <2>2. CASE ~RunNext
    <3>1. ran' = ran
      BY <2>2 DEF Next, FindConfig, LoadFromEnv, ReadFiles, LoadEnds, Show, Test, OpenLog, Restore,
         DryRun, BeginRuns, EndRuns, StartHealth, StartScheduler, Signal, Ended, vars, mainVars,
         Exit, Proceed
    <3>. QED
      BY <1>1, <3>1
  <2>. QED
    BY <2>1, <2>2
<1>10. TypeOK'
  BY <1>3, <1>5, <1>6, <1>7, <1>8, <1>9, Zenon DEF TypeOK
<1>. QED
  BY <1>5, <1>6, <1>9, <1>10 DEF Frozen

\* The source of the configuration, over each step.
LEMMA SourceKeeps ==
  ASSUME TypeOK, LoadInv, SourceInv, [Next]_vars
  PROVE  SourceInv'
<1>1. Frozen /\ (FromFile' <=> FromFile)
  BY TypeKeeps, FrozenPromises
<1>2. CASE FindConfig
  BY <1>1, <1>2 DEF FindConfig, Proceed, loadVars, SourceInv
<1>3. CASE LoadFromEnv
  <2>1. CASE phase' = "have"
    <3>1. phase = "flags" /\ ~FromFile /\ cfg' = EnvConfig
      BY <1>3, <2>1 DEF LoadFromEnv, Exit
    <3>2. cfg'.backups = <<env.entry>>
      BY <3>1, EnvTyped
    <3>. QED
      BY <1>1, <2>1, <3>1, <3>2 DEF SourceInv, Frozen
  <2>2. CASE phase' = "ended"
    BY <2>2 DEF SourceInv
  <2>. QED
    BY <1>3, <2>1, <2>2 DEF LoadFromEnv, Proceed, Exit
<1>4. CASE ReadFiles
  <2>1. at' # "start" /\ phase = "loading" /\ phase' = "loading"
    <3>1. Load /\ (at = "start" => cfg = EmptyConfig) /\ LoadTypeOK
      BY <1>4 DEF ReadFiles, SourceInv, TypeOK
    <3>. QED
      BY <1>4, <3>1, LoadKeeps DEF ReadFiles, mainVars
  <2>. QED
    BY <1>1, <2>1 DEF SourceInv
<1>5. CASE LoadEnds
  <2>1. UNCHANGED loadVars /\ phase = "loading"
    BY <1>5 DEF LoadEnds
  <2>2. (phase' = "have" /\ at = "loaded") \/ phase' = "ended"
    BY <1>5 DEF LoadEnds, Proceed, Exit
  <2>. QED
    BY <1>1, <2>1, <2>2 DEF SourceInv, loadVars
<1>6. CASE UNCHANGED vars
  BY <1>1, <1>6 DEF SourceInv, vars, loadVars, mainVars, Frozen
<1>7. CASE Loaded /\ UNCHANGED loadVars
           /\ phase' \in {"have", "logging", "starting", "running", "serving", "ended"}
  BY <1>1, <1>7 DEF SourceInv, Loaded, loadVars, Frozen
<1>8. ASSUME Show \/ Test \/ OpenLog \/ Restore \/ DryRun \/ BeginRuns \/ RunNext \/ EndRuns
             \/ StartHealth \/ StartScheduler \/ Signal
      PROVE  Loaded /\ UNCHANGED loadVars
             /\ phase' \in {"have", "logging", "starting", "running", "serving", "ended"}
  BY <1>8 DEF Show, Test, OpenLog, Restore, DryRun, BeginRuns, RunNext, EndRuns, StartHealth,
              StartScheduler, Signal, Loaded, Exit, Proceed
<1>. QED
  BY <1>2, <1>3, <1>4, <1>5, <1>6, <1>7, <1>8 DEF Next, Ended

\* What the modes check first, over each step.
LEMMA ModeKeeps ==
  ASSUME TypeOK, LoadInv, SourceInv, ModeInv, [Next]_vars
  PROVE  ModeInv'
<1>1. mode' = mode /\ ran \in Seq(BOOLEAN)
  BY TypeKeeps DEF Frozen, TypeOK
<1>2. PICK n \in Nat : n = Len(ran)
  BY <1>1
<1>3. PICK b : b = cfg.backups
  OBVIOUS
<1>4. b \in Seq(Entries)
  <2>1. \A c \in Sections : c.backups \in Seq(Entries)
    BY DEF Sections
  <2>. QED
    BY <1>3, <2>1 DEF TypeOK, LoadTypeOK
<1>5. CASE phase' \notin {"starting", "serving", "running", "ended"}
  <2>1. ran' = ran /\ phase \notin {"running", "ended"}
    BY <1>5 DEF Next, FindConfig, LoadFromEnv, ReadFiles, LoadEnds, Show, Test, OpenLog, Restore,
         DryRun, BeginRuns, RunNext, EndRuns, StartHealth, StartScheduler, Signal, Ended, vars,
         mainVars, Exit, Proceed
  <2>. QED
    BY <1>5, <2>1 DEF ModeInv
<1>6. CASE phase' = "ended"
  BY <1>6 DEF ModeInv
<1>7. CASE StartHealth
  <2>1. phase = "logging" /\ mode = "daemon" /\ phase' = "starting" /\ ran' = ran
    BY <1>7 DEF StartHealth
  <2>. QED
    BY <1>1, <2>1 DEF ModeInv
<1>8. CASE StartScheduler /\ phase' # "ended"
  <2>1. /\ phase = "starting" /\ phase' = "serving" /\ Valid(cfg) /\ EntriesMakeable
        /\ cfg' = cfg /\ ran' = ran
    BY <1>8 DEF StartScheduler, Proceed, Exit, loadVars
  <2>2. Valid(cfg)' /\ EntriesMakeable'
    BY <2>1 DEF Valid, EntriesMakeable
  <2>. QED
    BY <1>1, <2>1, <2>2 DEF ModeInv
<1>9. CASE BeginRuns /\ phase' # "ended"
  <2>1. /\ phase = "logging" /\ phase' = "running" /\ mode \in {"once", "run-now"} /\ Valid(cfg)
        /\ cfg' = cfg /\ ran' = ran
    BY <1>9 DEF BeginRuns, Proceed, Exit, loadVars
  <2>2. Valid(cfg)'
    BY <2>1 DEF Valid
  <2>3. ran = <<>>
    BY <2>1 DEF ModeInv
  <2>4. Len(ran') <= Len(cfg'.backups)
    BY <1>3, <1>4, <2>1, <2>3
  <2>. QED
    BY <1>1, <2>1, <2>2, <2>4 DEF ModeInv
<1>10. CASE RunNext
  <2>1. PICK ok \in BOOLEAN : ran' = Append(ran, ok)
    BY <1>10 DEF RunNext
  <2>2. phase = "running" /\ phase' = "running" /\ cfg' = cfg /\ Len(ran) < Len(cfg.backups)
    BY <1>10 DEF RunNext, loadVars
  <2>3. Valid(cfg)'
    BY <2>2 DEF Valid, ModeInv
  <2>4. Len(ran') = n + 1
    BY <1>1, <1>2, <2>1
  <2>5. Len(ran') <= Len(cfg'.backups)
    BY <1>2, <1>3, <1>4, <2>2, <2>4
  <2>. QED
    BY <1>1, <2>2, <2>3, <2>5 DEF ModeInv
<1>11. CASE phase' = phase /\ cfg' = cfg /\ ran' = ran
  <2>1. (Valid(cfg)' <=> Valid(cfg)) /\ (EntriesMakeable' <=> EntriesMakeable)
    BY <1>11 DEF Valid, EntriesMakeable
  <2>. QED
    BY <1>1, <1>11, <2>1 DEF ModeInv
<1>. QED
  BY <1>5, <1>6, <1>7, <1>8, <1>9, <1>10, <1>11
     DEF Next, FindConfig, LoadFromEnv, ReadFiles, LoadEnds, Show, Test, OpenLog, Restore, DryRun,
         EndRuns, Signal, Ended, vars, loadVars, mainVars, Exit, Proceed

\* The exit code, over each step.
LEMMA ExitKeeps ==
  ASSUME TypeOK, LoadInv, SourceInv, ModeInv, ExitTellsOutcome, [Next]_vars
  PROVE  ExitTellsOutcome'
<1>1. Frozen /\ Promised' = Promised
  BY TypeKeeps, FrozenPromises
<1>2. PICK P : P = Promised /\ P = Promised'
  BY <1>1
<1> DEFINE Tells(c, r) ==
             /\ c = 0 <=> r # <<>> /\ Len(r) = Len(P) /\ FALSE \notin ToSet(r)
             /\ r # <<>> => Len(r) = Len(P)
<1>3. /\ ExitTellsOutcome <=> (phase = "ended" /\ mode \in {"once", "run-now"} => Tells(code, ran))
      /\ ExitTellsOutcome' <=> (phase' = "ended" /\ mode \in {"once", "run-now"} => Tells(code', ran'))
  BY <1>1, <1>2 DEF ExitTellsOutcome, Frozen
<1>4. SUFFICES ASSUME phase' = "ended", mode \in {"once", "run-now"}
               PROVE  Tells(code', ran')
  BY <1>3
<1>5. CASE EndRuns
  <2>1. /\ phase = "running" /\ Len(ran) = Len(cfg.backups) /\ ran' = ran
        /\ code' = IF FALSE \in ToSet(ran) THEN 1 ELSE 0
    BY <1>5 DEF EndRuns, Exit
  <2>2. cfg.backups = P /\ Valid(cfg)
    BY <1>2, <2>1, HoldsPromised DEF Loaded, ModeInv
  <2>3. Len(ran) = Len(P) /\ ran # <<>>
    <3>1. cfg.backups \in Seq(Entries)
      <4>1. \A c \in Sections : c.backups \in Seq(Entries)
        BY DEF Sections
      <4>. QED
        BY <4>1 DEF TypeOK, LoadTypeOK
    <3>2. \A q \in Seq(Entries) : Len(q) = 0 => q = <<>>
      OBVIOUS
    <3>3. Len(P) # 0
      BY <2>2, <3>1, <3>2 DEF Valid
    <3>4. Len(<<>>) = 0
      OBVIOUS
    <3>. QED
      BY <2>1, <2>2, <3>3, <3>4
  <2>4. CASE FALSE \in ToSet(ran)
    <3>1. code' = 1
      BY <2>1, <2>4
    <3>2. Tells(1, ran)
      <4>1. 1 # 0
        OBVIOUS
      <4>. QED
        BY <2>3, <2>4, <4>1, Zenon
    <3> HIDE DEF Tells
    <3>. QED
      BY <2>1, <3>1, <3>2
  <2>5. CASE FALSE \notin ToSet(ran)
    <3>1. code' = 0
      BY <2>1, <2>5
    <3>2. Tells(0, ran)
      BY <2>3, <2>5
    <3> HIDE DEF Tells
    <3>. QED
      BY <2>1, <3>1, <3>2
  <2>. QED
    BY <2>4, <2>5
<1>6. CASE phase # "ended" /\ code' = 1 /\ ran' = ran /\ phase # "running"
  <2>1. ran = <<>>
    BY <1>6 DEF ModeInv
  <2>. QED
    BY <1>6, <2>1
<1>7. CASE phase' = phase /\ code' = code /\ ran' = ran
  <2>1. Tells(code, ran)
    BY <1>3, <1>4, <1>7
  <2> HIDE DEF Tells
  <2>. QED
    BY <1>7, <2>1
<1>8. /\ ~Show /\ ~Test /\ ~Restore /\ ~DryRun /\ ~StartHealth
      /\ ~StartScheduler /\ ~Signal
  BY <1>4 DEF Show, Test, Restore, DryRun, StartHealth, StartScheduler, Signal, ModeInv
<1>9. CASE LoadFromEnv \/ LoadEnds \/ OpenLog \/ BeginRuns
  <2>1. phase # "ended" /\ code' = 1 /\ ran' = ran /\ phase # "running"
    BY <1>4, <1>9 DEF LoadFromEnv, LoadEnds, OpenLog, BeginRuns, Exit, Proceed
  <2>. QED
    BY <1>6, <2>1
<1>10. CASE FindConfig \/ ReadFiles \/ RunNext
  <2>1. phase' # "ended"
    BY <1>10 DEF FindConfig, ReadFiles, RunNext, Proceed, mainVars
  <2>. QED
    BY <1>4, <2>1
<1>11. CASE UNCHANGED vars
  BY <1>7, <1>11 DEF vars, mainVars
<1>. QED
  BY <1>5, <1>8, <1>9, <1>10, <1>11 DEF Next, Ended

\* What has been checked, over each step.
LEMMA StartedKeeps ==
  ASSUME TypeOK, LoadInv, SourceInv, ModeInv, StartedIsChecked, [Next]_vars
  PROVE  StartedIsChecked'
<1>1. Frozen /\ Promised' = Promised /\ (Sound' <=> Sound)
  BY TypeKeeps, FrozenPromises
<1>2. PICK P : P = Promised /\ P = Promised'
  BY <1>1
<1> DEFINE AllMakeable == \A b \in ToSet(P) : b.inline \in Makeable
           Serves(p, c) == p = "serving" \/ (p = "ended" /\ c = 0 /\ mode \in {"daemon", "dry-run"})
<1>3. /\ StartedIsChecked <=>
           /\ ran # <<>> => Sound
           /\ Serves(phase, code) => Sound /\ AllMakeable
      /\ StartedIsChecked' <=>
           /\ ran' # <<>> => Sound
           /\ Serves(phase', code') => Sound /\ AllMakeable
  BY <1>1, <1>2 DEF StartedIsChecked, Frozen
<1>4. ASSUME Loaded, Valid(cfg), EntriesMakeable
      PROVE  Sound /\ AllMakeable
  BY <1>2, <1>4, HoldsPromised DEF EntriesMakeable
<1>5. ran' # <<>> => Sound
  <2>1. CASE RunNext
    BY <2>1, HoldsPromised DEF RunNext, Loaded, ModeInv
  <2>2. CASE ~RunNext
    <3>1. ran' = ran
      BY <2>2 DEF Next, FindConfig, LoadFromEnv, ReadFiles, LoadEnds, Show, Test, OpenLog, Restore,
         DryRun, BeginRuns, EndRuns, StartHealth, StartScheduler, Signal, Ended, vars, mainVars,
         Exit, Proceed
    <3>. QED
      BY <1>3, <3>1
  <2>. QED
    BY <2>1, <2>2
<1>6. Serves(phase', code') => Sound /\ AllMakeable
  <2> SUFFICES ASSUME Serves(phase', code') PROVE Sound /\ AllMakeable
    OBVIOUS
  <2> HIDE DEF AllMakeable
  <2>1. CASE phase' = phase /\ code' = code
    BY <1>3, <2>1
  <2>2. CASE StartScheduler
    <3>1. phase = "starting" /\ Valid(cfg) /\ EntriesMakeable
      BY <2>2 DEF StartScheduler, Exit, Proceed
    <3>. QED
      BY <1>4, <3>1 DEF Loaded
  <2>3. CASE Signal
    <3>1. phase = "serving"
      BY <2>3 DEF Signal
    <3>. QED
      BY <1>3, <3>1
  <2>4. CASE DryRun
    <3>1. phase = "logging" /\ Valid(cfg) /\ EntriesMakeable
      BY <2>4 DEF DryRun, Exit
    <3>. QED
      BY <1>4, <3>1 DEF Loaded
  <2>5. CASE LoadFromEnv \/ LoadEnds \/ OpenLog
    <3>1. ~Serves(phase', code')
      BY <2>5 DEF LoadFromEnv, LoadEnds, OpenLog, Exit, Proceed
    <3>. QED
      BY <3>1
  <2>6. CASE Show \/ Test \/ Restore \/ BeginRuns \/ EndRuns \/ FindConfig \/ StartHealth
    <3>1. phase' # "serving"
      BY <2>6 DEF Show, Test, Restore, BeginRuns, EndRuns, FindConfig, StartHealth, Exit, Proceed
    <3>2. phase' = "ended" => mode \notin {"daemon", "dry-run"}
      BY <2>6 DEF Show, Test, Restore, BeginRuns, EndRuns, FindConfig, StartHealth, Exit, Proceed,
                  ModeInv
    <3>. QED
      BY <3>1, <3>2
  <2>7. CASE ReadFiles \/ RunNext \/ UNCHANGED vars
    <3>1. phase' = phase /\ code' = code
      BY <2>7 DEF ReadFiles, RunNext, vars, mainVars
    <3>. QED
      BY <2>1, <3>1
  <2>. QED
    BY <2>2, <2>3, <2>4, <2>5, <2>6, <2>7 DEF Next, Ended
<1>. QED
  BY <1>3, <1>5, <1>6

\* A process that begins.
LEMMA StartupInit ==
  ASSUME Init
  PROVE  StartupInv
<1>1. LoadTypeOK
  BY DEF Init, LoadInit, LoadTypeOK, EmptyConfig, Sections, NoLogging, Loggings
<1>2. TypeOK
  <2>1. ran \in Seq(BOOLEAN)
    BY DEF Init
  <2>2. given \in BOOLEAN /\ env \in Envs /\ mode \in Modes
    BY Zenon DEF Init
  <2>3. /\ phase \in {"flags", "loading", "have", "logging", "starting", "running", "serving", "ended"}
        /\ code \in {0, 1}
    BY DEF Init
  <2>4. health \in BOOLEAN
    BY Zenon DEF Init
  <2>. QED
    BY <1>1, <2>1, <2>2, <2>3, <2>4, Zenon DEF TypeOK
<1>3. LoadInv
  BY LoadInvWell DEF Init, LoadInit, LoadWell
<1>4. SourceInv /\ ModeInv
  BY DEF Init, LoadInit, SourceInv, ModeInv
<1>5. ExitTellsOutcome /\ StartedIsChecked
  BY DEF Init, ExitTellsOutcome, StartedIsChecked
<1>. QED
  BY <1>2, <1>3, <1>4, <1>5 DEF StartupInv

\* The inductive invariant holds: past the loading, the configuration is the one that the
\* files, or the environment, promise.
THEOREM StartupInvariant == Spec => []StartupInv
<1>1. Init => StartupInv
  BY StartupInit
<1>2. StartupInv /\ [Next]_vars => StartupInv'
  BY TypeKeeps, SourceKeeps, ModeKeeps, ExitKeeps, StartedKeeps DEF StartupInv
<1>. QED
  BY <1>1, <1>2, PTL DEF Spec

\* A configuration that loads holds each backup of each file once and, of each component,
\* the definition that comes last.
THEOREM MergeIsDocumented == Spec => []MergedAsDocumented
<1>1. StartupInv => MergedAsDocumented
  BY DEF StartupInv, LoadInv
<1>. QED
  BY <1>1, StartupInvariant, PTL

\* The exit code of --once and --run-now says whether all backups that are promised have run
\* and succeeded.
THEOREM ExitCodesTell == Spec => []ExitTellsOutcome
<1>1. StartupInv => ExitTellsOutcome
  BY DEF StartupInv
<1>. QED
  BY <1>1, StartupInvariant, PTL

\* Nothing is run or scheduled that has not been read in full and checked.
THEOREM NothingStartsUnchecked == Spec => []StartedIsChecked
<1>1. StartupInv => StartedIsChecked
  BY DEF StartupInv
<1>. QED
  BY <1>1, StartupInvariant, PTL

==============================================================================
