-------------------------- MODULE SchedulerProofs ---------------------------
(* The lists of the scheduler, with the table of the task manager, for any *)
(* finite set of tasks, any sources and lists of any length.  First what   *)
(* the operations on one list do (compaction, the search for a slot, the   *)
(* choice of the next task), then that the calls leave the three lists     *)
(* disjoint and within the quotas, then the table, and last that nothing   *)
(* lowers what aging has raised.                                           *)
EXTENDS CoreProofs

-----------------------------------------------------------------------------
(* The lists of the scheduler *)

Place == Entry \cup {Hole}

(* Two entries of a list are of different tasks.                           *)
Distinct(list) == \A i, j \in Active(list) : list[i].task = list[j].task => i = j


LEMMA PlacesOf ==
  ASSUME NEW list \in Seq(Place)
  PROVE  /\ Len(list) \in Nat /\ DOMAIN list = 1..Len(list)
         /\ Active(list) \subseteq 1..Len(list)
         /\ \A i \in Active(list) : list[i] \in Entry /\ list[i] # Hole
  BY DEF Place, Active

(* compact_array as a loop over the places up to n.                        *)
PackedUpTo(list, n, f) ==
  \A m \in 0..n : f[m] = IF m = 0 THEN <<>>
                         ELSE IF list[m] = Hole THEN f[m - 1] ELSE Append(f[m - 1], list[m])
Packing(list, f) ==
  f = [m \in 0..Len(list) |->
         IF m = 0 THEN <<>>
         ELSE IF list[m] = Hole THEN f[m - 1] ELSE Append(f[m - 1], list[m])]

(* There is such a loop: were there none up to some place, there would be  *)
(* a first one it cannot come to.                                          *)
LEMMA PackingExists ==
  ASSUME NEW list \in Seq(Place)
  PROVE  \E f : Packing(list, f)
<1> DEFINE Short == {n \in Nat : ~ \E f : DOMAIN f = 0..n /\ PackedUpTo(list, n, f)}
<1>1. Short = {}
  <2> SUFFICES ASSUME Short # {} PROVE FALSE OBVIOUS
  <2>1. PICK n \in Short : \A m \in Short : n <= m
    BY HasLeast
  <2>2. n # 0
    <3> DEFINE f == [m \in 0..0 |-> <<>>]
    <3>1. DOMAIN f = 0..0 /\ PackedUpTo(list, 0, f)
      BY DEF PackedUpTo
    <3> HIDE DEF f
    <3> QED BY <2>1, <3>1
  <2>3. n - 1 \in Nat /\ n - 1 \notin Short
    BY <2>1, <2>2
  <2>4. PICK f : DOMAIN f = 0..(n - 1) /\ PackedUpTo(list, n - 1, f)
    BY <2>3
  <2> DEFINE next == IF list[n] = Hole THEN f[n - 1] ELSE Append(f[n - 1], list[n])
             g == [m \in 0..n |-> IF m = n THEN next ELSE f[m]]
  <2>5. DOMAIN g = 0..n /\ g[n] = next /\ \A m \in 0..(n - 1) : g[m] = f[m]
    BY <2>1
  <2>6. ASSUME NEW m \in 0..n
        PROVE  g[m] = IF m = 0 THEN <<>>
                      ELSE IF list[m] = Hole THEN g[m - 1] ELSE Append(g[m - 1], list[m])
    <3>1. CASE m = n
      <4>1. n - 1 \in 0..(n - 1) /\ g[n - 1] = f[n - 1]
        BY <2>1, <2>3, <2>5
      <4> QED BY <2>2, <2>5, <3>1, <4>1
    <3>2. CASE m # n
      <4>1. m \in 0..(n - 1) /\ (m # 0 => m - 1 \in 0..(n - 1))
        BY <2>1, <3>2
      <4> HIDE DEF g
      <4> QED BY <2>4, <2>5, <4>1 DEF PackedUpTo
    <3> QED BY <3>1, <3>2
  <2> HIDE DEF g
  <2>7. PackedUpTo(list, n, g)
    BY <2>6 DEF PackedUpTo
  <2> QED BY <2>1, <2>5, <2>7
<1>2. PICK f : DOMAIN f = 0..Len(list) /\ PackedUpTo(list, Len(list), f)
  <2>1. Len(list) \in Nat
    BY PlacesOf
  <2> QED BY <1>1, <2>1
<1> DEFINE g == [m \in 0..Len(list) |-> f[m]]
<1>3. ASSUME NEW m \in 0..Len(list)
      PROVE  /\ g[m] = f[m]
             /\ m # 0 => m - 1 \in 0..Len(list) /\ g[m - 1] = f[m - 1]
  BY PlacesOf
<1> HIDE DEF g
<1>4. Packing(list, g)
  <2>1. g = [m \in 0..Len(list) |-> g[m]]
    BY DEF g
  <2>2. \A m \in 0..Len(list) :
          g[m] = IF m = 0 THEN <<>>
                 ELSE IF list[m] = Hole THEN g[m - 1] ELSE Append(g[m - 1], list[m])
    BY <1>2, <1>3 DEF PackedUpTo
  <2> QED BY <2>1, <2>2 DEF Packing
<1> QED BY <1>4

(* What the loop has packed when it has passed place n.                    *)
PackedTo(list, n, s) ==
  /\ s \in Seq(Entry) /\ Len(s) <= n
  /\ \A k \in 1..Len(s) : \E i \in 1..n : list[i] # Hole /\ s[k] = list[i]
  /\ \A i \in 1..n : list[i] # Hole => \E k \in 1..Len(s) : s[k] = list[i]
  /\ Distinct(list) => \A j, k \in 1..Len(s) : s[j].task = s[k].task => j = k

LEMMA PackedOne ==
  ASSUME NEW list \in Seq(Place), NEW n \in 1..Len(list), NEW s, PackedTo(list, n - 1, s)
  PROVE  PackedTo(list, n, IF list[n] = Hole THEN s ELSE Append(s, list[n]))
<1>1. /\ Len(list) \in Nat /\ n \in Nat /\ n - 1 \in Nat /\ s \in Seq(Entry)
      /\ Len(s) \in Nat /\ Len(s) <= n - 1 /\ DOMAIN list = 1..Len(list)
      /\ \A i \in 1..(n - 1) : i \in 1..n /\ i \in 1..Len(list) /\ i # n
      /\ \A i \in 1..n : i = n \/ i \in 1..(n - 1)
  BY PlacesOf DEF PackedTo
<1>2. CASE list[n] = Hole
  <2>1. /\ \A k \in 1..Len(s) : \E i \in 1..n : list[i] # Hole /\ s[k] = list[i]
        /\ \A i \in 1..n : list[i] # Hole => \E k \in 1..Len(s) : s[k] = list[i]
    BY <1>1, <1>2 DEF PackedTo
  <2>2. Len(s) <= n
    BY <1>1
  <2> QED BY <1>1, <1>2, <2>1, <2>2 DEF PackedTo
<1>3. CASE list[n] # Hole
  <2> DEFINE e == list[n]
             r == Append(s, e)
             l == Len(s) + 1
  <2>1. e \in Entry /\ n \in Active(list)
    BY <1>1, <1>3 DEF Place, Active
  <2>2. /\ r \in Seq(Entry) /\ Len(r) = l /\ r[l] = e /\ l \in 1..l /\ l <= n
        /\ \A k \in 1..Len(s) : r[k] = s[k] /\ k \in 1..l
        /\ \A k \in 1..l : k = l \/ k \in 1..Len(s)
    BY <1>1, <2>1
  <2> HIDE DEF e, r, l
  <2>3. \A k \in 1..l : \E i \in 1..n : list[i] # Hole /\ r[k] = list[i]
    <3> SUFFICES ASSUME NEW k \in 1..l PROVE \E i \in 1..n : list[i] # Hole /\ r[k] = list[i]
      OBVIOUS
    <3>1. CASE k = l
      BY <1>1, <1>3, <2>2, <3>1 DEF e
    <3>2. CASE k \in 1..Len(s)
      <4>1. PICK i \in 1..(n - 1) : list[i] # Hole /\ s[k] = list[i]
        BY <3>2 DEF PackedTo
      <4> QED BY <1>1, <2>2, <3>2, <4>1
    <3> QED BY <2>2, <3>1, <3>2
  <2>4. \A i \in 1..n : list[i] # Hole => \E k \in 1..l : r[k] = list[i]
    <3> SUFFICES ASSUME NEW i \in 1..n, list[i] # Hole PROVE \E k \in 1..l : r[k] = list[i]
      OBVIOUS
    <3>1. CASE i = n
      BY <2>2, <3>1 DEF e
    <3>2. CASE i \in 1..(n - 1)
      <4>1. PICK k \in 1..Len(s) : s[k] = list[i]
        BY <3>2 DEF PackedTo
      <4> QED BY <2>2, <4>1
    <3> QED BY <1>1, <3>1, <3>2
  <2>5. ASSUME Distinct(list), NEW k \in 1..Len(s) PROVE s[k].task # e.task
    <3>1. PICK i \in 1..(n - 1) : list[i] # Hole /\ s[k] = list[i]
      BY <2>5 DEF PackedTo
    <3>2. i \in Active(list) /\ i # n
      BY <1>1, <3>1 DEF Active
    <3> QED BY <2>1, <2>5, <3>1, <3>2 DEF Distinct, e
  <2>6. ASSUME Distinct(list), NEW j \in 1..l, NEW k \in 1..l, r[j].task = r[k].task PROVE j = k
    <3>1. \A p, q \in 1..Len(s) : s[p].task = s[q].task => p = q
      BY <2>6 DEF PackedTo
    <3> QED BY <2>2, <2>5, <2>6, <3>1
  <2>7. PackedTo(list, n, r)
    BY <2>2, <2>3, <2>4, <2>6 DEF PackedTo
  <2> QED BY <1>3, <2>7 DEF r, e
<1> QED BY <1>2, <1>3

LEMMA CompactIs ==
  ASSUME NEW list \in Seq(Place)
  PROVE  PackedTo(list, Len(list), Compact(list))
<1> DEFINE f == CHOOSE g : Packing(list, g)
<1>1. Compact(list) = f[Len(list)]
  BY DEF Compact, Packing
<1>2. Packing(list, f)
  BY PackingExists
<1> HIDE DEF f
<1>3. Len(list) \in Nat
  BY PlacesOf
<1>4. \A m \in 0..Len(list) :
        f[m] = IF m = 0 THEN <<>>
               ELSE IF list[m] = Hole THEN f[m - 1] ELSE Append(f[m - 1], list[m])
  BY <1>2 DEF Packing
<1> DEFINE Wrong == {n \in 0..Len(list) : ~PackedTo(list, n, f[n])}
<1>5. Wrong = {}
  <2> SUFFICES ASSUME Wrong # {} PROVE FALSE OBVIOUS
  <2>0. Wrong \in SUBSET Nat
    BY <1>3
  <2>1. PICK n \in Wrong : \A m \in Wrong : n <= m
    BY <2>0, HasLeast
  <2>2. n # 0
    <3>1. PackedTo(list, 0, <<>>)
      <4>1. <<>> \in Seq(Entry) /\ Len(<<>>) = 0 /\ \A i \in 1..0 : FALSE
        OBVIOUS
      <4> QED BY <4>1 DEF PackedTo
    <3>2. 0 \in 0..Len(list)
      BY <1>3
    <3>3. f[0] = <<>>
      BY <1>4, <3>2
    <3> QED BY <2>1, <3>1, <3>3
  <2>3. n \in 1..Len(list) /\ n - 1 \in 0..Len(list) /\ n - 1 \notin Wrong
    BY <1>3, <2>0, <2>1, <2>2
  <2>4. PackedTo(list, n - 1, f[n - 1])
    BY <2>3
  <2>5. f[n] = IF list[n] = Hole THEN f[n - 1] ELSE Append(f[n - 1], list[n])
    BY <1>4, <2>1, <2>2
  <2> QED BY <2>1, <2>3, <2>4, <2>5, PackedOne
<1>6. Len(list) \in 0..Len(list)
  BY <1>3
<1> QED BY <1>1, <1>5, <1>6

(* An entry of task t, submitted by s, is in the list.                     *)
In(list, t, s) == \E i \in Active(list) : list[i].task = t /\ list[i].source = s
Fits(list, most) == list \in Seq(Place) /\ Len(list) <= most /\ Distinct(list)

LEMMA InIs ==
  ASSUME NEW list \in Seq(Place)
  PROVE  /\ \A t : t \in TasksOf(list) <=> \E i \in Active(list) : list[i].task = t
         /\ \A t : t \in TasksOf(list) <=> \E s \in Sources : In(list, t, s)
         /\ \A t, s : In(list, t, s) => t \in Tasks /\ s \in Sources
<1>1. \A t : t \in TasksOf(list) <=> \E i \in Active(list) : list[i].task = t
  BY DEF TasksOf, Entries
<1>2. \A i \in Active(list) : list[i].task \in Tasks /\ list[i].source \in Sources
  BY PlacesOf DEF Entry
<1> QED BY <1>1, <1>2 DEF In

LEMMA IndexIs ==
  ASSUME NEW list \in Seq(Place), NEW t \in TasksOf(list)
  PROVE  IndexOf(list, t) \in Active(list) /\ list[IndexOf(list, t)].task = t
<1> DEFINE its == {i \in Active(list) : list[i].task = t}
<1>1. its # {} /\ its \in SUBSET Nat
  BY InIs, PlacesOf
<1>2. PICK i \in its : \A j \in its : i <= j
  BY <1>1, HasLeast
<1>3. \E k \in Active(list) :
        list[k].task = t /\ \A j \in Active(list) : list[j].task = t => k <= j
  BY <1>2
<1> QED BY <1>3 DEF IndexOf

LEMMA RemoveIs ==
  ASSUME NEW list \in Seq(Place), Distinct(list), NEW i \in Active(list)
  PROVE  LET r == RemoveEntry(list, i)
         IN /\ r \in Seq(Place) /\ Len(r) <= Len(list) /\ Distinct(r) /\ Active(r) = 1..Len(r)
            /\ \A t, s : In(r, t, s) => In(list, t, s)
            /\ list[i].task \notin TasksOf(r)
<1> DEFINE cut == [list EXCEPT ![i] = Hole]
           r == Compact(cut)
<1>1. /\ Len(list) \in Nat /\ DOMAIN list = 1..Len(list) /\ i \in 1..Len(list)
      /\ \A j \in Active(list) : list[j] \in Entry /\ j \in 1..Len(list)
  BY PlacesOf
<1>2. cut \in Seq(Place) /\ Len(cut) = Len(list) /\ DOMAIN cut = 1..Len(list) /\ cut[i] = Hole
      /\ \A j \in 1..Len(list) : j # i => cut[j] = list[j]
  BY <1>1 DEF Place
<1>3. Active(cut) = Active(list) \ {i} /\ \A j \in Active(cut) : cut[j] = list[j] /\ j \in 1..Len(list)
  BY <1>1, <1>2 DEF Active
<1> HIDE DEF cut
<1>4. Distinct(cut)
  BY <1>3 DEF Distinct
<1>5. PackedTo(cut, Len(cut), r)
  BY <1>2, CompactIs
<1> HIDE DEF r
<1>6. r \in Seq(Entry) /\ Len(r) \in Nat /\ Len(r) <= Len(list) /\ DOMAIN r = 1..Len(r)
      /\ \A k \in 1..Len(r) : r[k] \in Entry
  BY <1>2, <1>5 DEF PackedTo
<1>7. r \in Seq(Place)
  <2>1. \A k \in 1..Len(r) : r[k] \in Place
    BY <1>6 DEF Place
  <2> QED BY <1>6, <2>1
<1>8. Active(r) = 1..Len(r)
  BY <1>6, HoleIsNoEntry DEF Active
<1>9. Distinct(r)
  BY <1>4, <1>5, <1>8 DEF PackedTo, Distinct
<1>10. \A k \in 1..Len(r) : \E j \in Active(cut) : r[k] = list[j]
  <2> SUFFICES ASSUME NEW k \in 1..Len(r) PROVE \E j \in Active(cut) : r[k] = list[j]
    OBVIOUS
  <2>1. PICK j \in 1..Len(cut) : cut[j] # Hole /\ r[k] = cut[j]
    BY <1>5 DEF PackedTo
  <2>2. j \in Active(cut)
    BY <1>2, <2>1 DEF Active
  <2> QED BY <1>3, <2>1, <2>2
<1>11. \A t, s : In(r, t, s) => In(list, t, s)
  BY <1>3, <1>8, <1>10 DEF In
<1>12. list[i].task \notin TasksOf(r)
  <2>1. \A k \in Active(r) : r[k].task # list[i].task
    BY <1>3, <1>8, <1>10 DEF Distinct
  <2> QED BY <1>7, <2>1, InIs
<1> QED BY <1>6, <1>7, <1>8, <1>9, <1>11, <1>12 DEF RemoveEntry, r, cut

LEMMA InsertedAt ==
  ASSUME NEW list \in Seq(Place), NEW e \in Place
  PROVE  LET r == Insert(list, e)
             l == Len(list) + 1
         IN \E i \in 1..l :
              /\ r \in Seq(Place) /\ Len(r) = l /\ r[i] = e
              /\ \A k \in 1..l : k # i => r[k] = Hole \/ (k \in Active(list) /\ r[k] = list[k])
<1> DEFINE free == DOMAIN list \ Active(list)
           r == Insert(list, e)
           l == Len(list) + 1
<1>1. /\ Len(list) \in Nat /\ DOMAIN list = 1..Len(list) /\ Active(list) \subseteq 1..Len(list)
      /\ l \in Nat /\ Hole \in Place
      /\ \A k \in 1..l : k = l \/ k \in 1..Len(list)
      /\ \A k \in 1..Len(list) : k \in 1..l /\ k # l
      /\ l \in 1..l
  BY PlacesOf DEF Place
<1>2. \E i \in 1..l :
        /\ r \in Seq(Place) /\ Len(r) = l /\ r[i] = e
        /\ \A k \in 1..l : k # i => r[k] = Hole \/ (k \in Active(list) /\ r[k] = list[k])
  <2>1. CASE Active(list) = DOMAIN list
    <3>1. r = Append(list, e)
      BY <2>1 DEF Insert
    <3>2. /\ r \in Seq(Place) /\ Len(r) = l /\ r[l] = e
          /\ \A k \in 1..Len(list) : r[k] = list[k]
      BY <1>1, <3>1
    <3> QED BY <1>1, <2>1, <3>2
  <2>2. CASE Active(list) # DOMAIN list
    <3>0. \A k \in 1..Len(list) : k \in Nat
      BY <1>1
    <3>1. free # {} /\ free \in SUBSET Nat
      BY <1>1, <2>2, <3>0
    <3>2. PICK k \in free : \A j \in free : k <= j
      BY <3>1, HasLeast
    <3> DEFINE i == CHOOSE j \in free : \A m \in free : j <= m
    <3>3. i \in free
      BY <3>2
    <3>4. r = Append([list EXCEPT ![i] = e], Hole)
      BY <2>2 DEF Insert
    <3> HIDE DEF i
    <3> DEFINE p == [list EXCEPT ![i] = e]
    <3>5. p \in Seq(Place) /\ Len(p) = Len(list) /\ p[i] = e /\ i \in 1..Len(list)
          /\ \A j \in 1..Len(list) : j # i => p[j] = list[j]
      BY <1>1, <3>3
    <3> HIDE DEF p
    <3>6. /\ r \in Seq(Place) /\ Len(r) = l /\ r[l] = Hole
          /\ \A j \in 1..Len(list) : r[j] = p[j]
      BY <1>1, <3>4, <3>5 DEF p
    <3>7. \A j \in 1..Len(list) : j \in Active(list) \/ list[j] = Hole
      BY <1>1 DEF Active
    <3> HIDE DEF r, l
    <3> QED BY <1>1, <3>5, <3>6, <3>7, SMTT(30)
  <2> QED BY <2>1, <2>2
<1> QED BY <1>2

LEMMA InsertIs ==
  ASSUME NEW list \in Seq(Place), Distinct(list), NEW e \in Place,
         e # Hole => e.task \notin TasksOf(list)
  PROVE  LET r == Insert(list, e)
         IN /\ r \in Seq(Place) /\ Len(r) = Len(list) + 1 /\ Distinct(r)
            /\ \A t, s : In(r, t, s) =>
                 In(list, t, s) \/ (e # Hole /\ t = e.task /\ s = e.source)
<1> DEFINE r == Insert(list, e)
           l == Len(list) + 1
<1>1. /\ Len(list) \in Nat /\ DOMAIN list = 1..Len(list) /\ Active(list) \subseteq 1..Len(list)
      /\ l \in Nat /\ Hole \in Place
      /\ \A k \in 1..l : k = l \/ k \in 1..Len(list)
      /\ \A k \in 1..Len(list) : k \in 1..l /\ k # l
      /\ l \in 1..l
  BY PlacesOf DEF Place
<1>2. \E i \in 1..l :
        /\ r \in Seq(Place) /\ Len(r) = l /\ r[i] = e
        /\ \A k \in 1..l : k # i => r[k] = Hole \/ (k \in Active(list) /\ r[k] = list[k])
  BY InsertedAt
<1> HIDE DEF r
<1>3. PICK i \in 1..l :
        /\ r \in Seq(Place) /\ Len(r) = l /\ r[i] = e
        /\ \A k \in 1..l : k # i => r[k] = Hole \/ (k \in Active(list) /\ r[k] = list[k])
  BY <1>2
<1>4. \A k \in Active(r) : \/ k = i /\ e # Hole /\ r[k] = e
                           \/ k # i /\ k \in Active(list) /\ r[k] = list[k]
  <2>1. DOMAIN r = 1..l
    BY <1>1, <1>3
  <2> QED BY <1>3, <2>1 DEF Active
<1>5. \A k \in Active(list) : e # Hole => list[k].task # e.task
  BY InIs
<1>6. Distinct(r)
  BY <1>4, <1>5 DEF Distinct
<1>7. \A t, s : In(r, t, s) => In(list, t, s) \/ (e # Hole /\ t = e.task /\ s = e.source)
  BY <1>4 DEF In
<1> QED BY <1>3, <1>6, <1>7 DEF r

(* Both of t and s in one of three lists, and what is right about three    *)
(* lists and the tasks accepted, whichever they are.                       *)
By(r, w, b, t, s) == In(r, t, s) \/ In(w, t, s) \/ In(b, t, s)
From(r, w, b, s) == {t \in Tasks : By(r, w, b, t, s)}
Apart(list, other) == TasksOf(list) \cap TasksOf(other) = {}
TasksOfAll(r, w, b) == TasksOf(r) \cup TasksOf(w) \cup TasksOf(b)
Placed(r, w, b) ==
  /\ Fits(r, MaxReady) /\ Fits(w, MaxWaiting) /\ Fits(b, MaxBlocked)
  /\ Apart(r, w) /\ Apart(r, b) /\ Apart(w, b)
Good(r, w, b, a) ==
  /\ Placed(r, w, b)
  /\ \A s \in Sources : Cardinality(From(r, w, b, s)) <= MaxPerSource
  /\ TasksOfAll(r, w, b) \subseteq a /\ a \subseteq Tasks

LEMMA FromIsFinite ==
  ASSUME NEW r, NEW w, NEW b, NEW s
  PROVE  IsFiniteSet(From(r, w, b, s)) /\ Cardinality(From(r, w, b, s)) \in Nat
<1>1. From(r, w, b, s) \subseteq Tasks
  BY DEF From
<1>2. IsFiniteSet(From(r, w, b, s))
  BY <1>1, TaskAssumption, FS_Subset
<1> QED BY <1>2, FS_CardinalityType

(* Nothing comes in that was not there.                                    *)
LEMMA FewerIsGood ==
  ASSUME NEW r, NEW w, NEW b, NEW a, Good(r, w, b, a),
         NEW r2, NEW w2, NEW b2, NEW a2, Placed(r2, w2, b2),
         \A t, s : By(r2, w2, b2, t, s) => By(r, w, b, t, s),
         a2 \subseteq a, \A t \in TasksOfAll(r2, w2, b2) : t \in a => t \in a2
  PROVE  Good(r2, w2, b2, a2)
<1>1. ASSUME NEW s \in Sources PROVE Cardinality(From(r2, w2, b2, s)) <= MaxPerSource
  <2>1. From(r2, w2, b2, s) \subseteq From(r, w, b, s)
    BY DEF From
  <2>2. Cardinality(From(r2, w2, b2, s)) <= Cardinality(From(r, w, b, s))
    BY <2>1, FromIsFinite, FS_Subset
  <2>3. Cardinality(From(r, w, b, s)) <= MaxPerSource
    BY DEF Good
  <2> QED BY <2>2, <2>3, FromIsFinite, SchedulerAssumption
<1>2. \A t \in TasksOfAll(r2, w2, b2) : t \in TasksOfAll(r, w, b)
  <2>1. /\ r \in Seq(Place) /\ w \in Seq(Place) /\ b \in Seq(Place)
        /\ r2 \in Seq(Place) /\ w2 \in Seq(Place) /\ b2 \in Seq(Place)
    BY DEF Good, Placed, Fits
  <2>2. ASSUME NEW t \in TasksOfAll(r2, w2, b2) PROVE t \in TasksOfAll(r, w, b)
    <3>1. PICK s \in Sources : By(r2, w2, b2, t, s)
      BY <2>1, <2>2, InIs DEF TasksOfAll, By
    <3>2. By(r, w, b, t, s)
      BY <3>1
    <3> QED BY <2>1, <3>2, InIs DEF TasksOfAll, By
  <2> QED BY <2>2
<1>3. TasksOfAll(r2, w2, b2) \subseteq a2 /\ a2 \subseteq Tasks
  BY <1>2 DEF Good
<1> QED BY <1>1, <1>3 DEF Good

(* Of two lists that hold no more than two others did, each is apart from  *)
(* what was apart from these.                                              *)
LEMMA StaysApart ==
  ASSUME NEW x \in Seq(Place), NEW y \in Seq(Place), NEW z \in Seq(Place),
         NEW x2 \in Seq(Place), NEW y2 \in Seq(Place),
         \A t, s : In(x2, t, s) \/ In(y2, t, s) => In(x, t, s) \/ In(y, t, s),
         Apart(x, z), Apart(y, z)
  PROVE  Apart(x2, z) /\ Apart(y2, z)
<1>1. \A t : t \in TasksOf(x2) \/ t \in TasksOf(y2) => t \in TasksOf(x) \/ t \in TasksOf(y)
  BY InIs
<1> QED BY <1>1 DEF Apart

(* The same slots in use, by the same tasks of the same sources.           *)
Alike(list, other) ==
  /\ other \in Seq(Place) /\ Len(other) = Len(list)
  /\ \A i \in 1..Len(list) :
       /\ other[i] = Hole <=> list[i] = Hole
       /\ other[i] # Hole => /\ other[i].task = list[i].task
                             /\ other[i].source = list[i].source

LEMMA AlikeFits ==
  ASSUME NEW list, NEW most, Fits(list, most), NEW other, Alike(list, other)
  PROVE  /\ Fits(other, most) /\ Active(other) = Active(list)
         /\ \A t, s : In(other, t, s) <=> In(list, t, s)
         /\ TasksOf(other) = TasksOf(list)
<1>1. /\ list \in Seq(Place) /\ other \in Seq(Place) /\ Len(other) = Len(list)
      /\ DOMAIN list = 1..Len(list) /\ DOMAIN other = 1..Len(list)
  BY PlacesOf DEF Fits, Alike
<1>2. Active(other) = Active(list)
  BY <1>1 DEF Active, Alike
<1>3. \A i \in Active(list) : other[i].task = list[i].task /\ other[i].source = list[i].source
  BY <1>1, <1>2 DEF Active, Alike
<1>4. \A t, s : In(other, t, s) <=> In(list, t, s)
  BY <1>2, <1>3 DEF In
<1>5. Distinct(other)
  BY <1>2, <1>3 DEF Distinct, Fits
<1>6. TasksOf(other) = TasksOf(list)
  BY <1>1, <1>4, InIs
<1>7. Fits(other, most)
  BY <1>1, <1>5 DEF Fits
<1> QED BY <1>2, <1>4, <1>6, <1>7

LEMMA AlikeIsGood ==
  ASSUME NEW r, NEW w, NEW b, NEW a, Good(r, w, b, a),
         NEW r2, NEW w2, NEW b2, Alike(r, r2), Alike(w, w2), Alike(b, b2)
  PROVE  Good(r2, w2, b2, a)
<1>1. /\ Fits(r2, MaxReady) /\ \A t, s : In(r2, t, s) <=> In(r, t, s)
      /\ TasksOf(r2) = TasksOf(r)
  BY AlikeFits DEF Good, Placed
<1>2. /\ Fits(w2, MaxWaiting) /\ \A t, s : In(w2, t, s) <=> In(w, t, s)
      /\ TasksOf(w2) = TasksOf(w)
  BY AlikeFits DEF Good, Placed
<1>3. /\ Fits(b2, MaxBlocked) /\ \A t, s : In(b2, t, s) <=> In(b, t, s)
      /\ TasksOf(b2) = TasksOf(b)
  BY AlikeFits DEF Good, Placed
<1>4. Placed(r2, w2, b2)
  BY <1>1, <1>2, <1>3 DEF Good, Placed, Apart
<1>5. \A t, s : By(r2, w2, b2, t, s) => By(r, w, b, t, s)
  BY <1>1, <1>2, <1>3 DEF By
<1> QED BY <1>4, <1>5, FewerIsGood

LEMMA AlikeItself == ASSUME NEW list \in Seq(Place) PROVE Alike(list, list)
  BY DEF Alike

(* A removed task is accepted no longer.                                   *)
LEMMA RemovedIsGood ==
  ASSUME NEW r, NEW w, NEW b, NEW a, Good(r, w, b, a)
  PROVE  /\ \A i \in Active(r) : Good(RemoveEntry(r, i), w, b, a \ {r[i].task})
         /\ \A i \in Active(w) : Good(r, RemoveEntry(w, i), b, a \ {w[i].task})
         /\ \A i \in Active(b) : Good(r, w, RemoveEntry(b, i), a \ {b[i].task})
<1>1. /\ r \in Seq(Place) /\ w \in Seq(Place) /\ b \in Seq(Place)
      /\ Distinct(r) /\ Distinct(w) /\ Distinct(b)
      /\ Len(r) <= MaxReady /\ Len(w) <= MaxWaiting /\ Len(b) <= MaxBlocked
      /\ Apart(r, w) /\ Apart(r, b) /\ Apart(w, b)
  BY DEF Good, Placed, Fits
<1>2. ASSUME NEW list \in Seq(Place), Distinct(list), NEW i \in Active(list), NEW most \in Nat,
             Len(list) <= most
      PROVE  /\ Fits(RemoveEntry(list, i), most)
             /\ \A t, s : In(RemoveEntry(list, i), t, s) => In(list, t, s)
             /\ \A t \in TasksOf(RemoveEntry(list, i)) : t \in TasksOf(list) /\ t # list[i].task
             /\ list[i].task \in TasksOf(list)
  <2> DEFINE z == RemoveEntry(list, i)
  <2>1. /\ z \in Seq(Place) /\ Len(z) <= Len(list) /\ Distinct(z)
        /\ \A t, s : In(z, t, s) => In(list, t, s)
        /\ list[i].task \notin TasksOf(z)
    BY <1>2, RemoveIs
  <2> HIDE DEF z
  <2>2. \A t \in TasksOf(z) : t \in TasksOf(list)
    BY <2>1, InIs
  <2>3. list[i].task \in TasksOf(list)
    BY InIs
  <2>4. Len(z) <= most
    BY <2>1, <1>2, PlacesOf
  <2> QED BY <2>1, <2>2, <2>3, <2>4 DEF Fits, z
<1>3. MaxReady \in Nat /\ MaxWaiting \in Nat /\ MaxBlocked \in Nat
  BY SchedulerAssumption
<1>4. ASSUME NEW i \in Active(r) PROVE Good(RemoveEntry(r, i), w, b, a \ {r[i].task})
  <2> DEFINE z == RemoveEntry(r, i)
  <2>1. /\ Fits(z, MaxReady) /\ \A t, s : In(z, t, s) => In(r, t, s)
        /\ \A t \in TasksOf(z) : t \in TasksOf(r) /\ t # r[i].task
        /\ r[i].task \in TasksOf(r)
    BY <1>1, <1>2, <1>3
  <2> HIDE DEF z
  <2>2. Placed(z, w, b)
    BY <2>1 DEF Good, Placed, Apart
  <2>3. \A t, s : By(z, w, b, t, s) => By(r, w, b, t, s)
    BY <2>1 DEF By
  <2>4. \A t \in TasksOfAll(z, w, b) : t # r[i].task
    BY <1>1, <2>1 DEF TasksOfAll, Apart
  <2> QED BY <2>2, <2>3, <2>4, FewerIsGood DEF z
<1>5. ASSUME NEW i \in Active(w) PROVE Good(r, RemoveEntry(w, i), b, a \ {w[i].task})
  <2> DEFINE z == RemoveEntry(w, i)
  <2>1. /\ Fits(z, MaxWaiting) /\ \A t, s : In(z, t, s) => In(w, t, s)
        /\ \A t \in TasksOf(z) : t \in TasksOf(w) /\ t # w[i].task
        /\ w[i].task \in TasksOf(w)
    BY <1>1, <1>2, <1>3
  <2> HIDE DEF z
  <2>2. Placed(r, z, b)
    BY <2>1 DEF Good, Placed, Apart
  <2>3. \A t, s : By(r, z, b, t, s) => By(r, w, b, t, s)
    BY <2>1 DEF By
  <2>4. \A t \in TasksOfAll(r, z, b) : t # w[i].task
    BY <1>1, <2>1 DEF TasksOfAll, Apart
  <2> QED BY <2>2, <2>3, <2>4, FewerIsGood DEF z
<1>6. ASSUME NEW i \in Active(b) PROVE Good(r, w, RemoveEntry(b, i), a \ {b[i].task})
  <2> DEFINE z == RemoveEntry(b, i)
  <2>1. /\ Fits(z, MaxBlocked) /\ \A t, s : In(z, t, s) => In(b, t, s)
        /\ \A t \in TasksOf(z) : t \in TasksOf(b) /\ t # b[i].task
        /\ b[i].task \in TasksOf(b)
    BY <1>1, <1>2, <1>3
  <2> HIDE DEF z
  <2>2. Placed(r, w, z)
    BY <2>1 DEF Good, Placed, Apart
  <2>3. \A t, s : By(r, w, z, t, s) => By(r, w, b, t, s)
    BY <2>1 DEF By
  <2>4. \A t \in TasksOfAll(r, w, z) : t # b[i].task
    BY <1>1, <2>1 DEF TasksOfAll, Apart
  <2> QED BY <2>2, <2>3, <2>4, FewerIsGood DEF z
<1> QED BY <1>4, <1>5, <1>6

(* Two lists that exchanged tasks, and took none from elsewhere.           *)
Exchanged(x, y, x2, y2) ==
  /\ x2 \in Seq(Place) /\ y2 \in Seq(Place)
  /\ Distinct(x2) /\ Distinct(y2) /\ Apart(x2, y2)
  /\ \A t, s : In(x2, t, s) \/ In(y2, t, s) => In(x, t, s) \/ In(y, t, s)

LEMMA ExchangedIsGood ==
  ASSUME NEW r, NEW w, NEW b, NEW a, Good(r, w, b, a), NEW y2, NEW x2, Len(y2) <= MaxReady
  PROVE  /\ Exchanged(w, r, x2, y2) /\ Len(x2) <= MaxWaiting => Good(y2, x2, b, a)
         /\ Exchanged(b, r, x2, y2) /\ Len(x2) <= MaxBlocked => Good(y2, w, x2, a)
<1>1. /\ r \in Seq(Place) /\ w \in Seq(Place) /\ b \in Seq(Place)
      /\ Apart(r, w) /\ Apart(r, b) /\ Apart(w, b) /\ Apart(w, r) /\ Apart(b, r) /\ Apart(b, w)
  BY DEF Good, Placed, Fits, Apart
<1>2. ASSUME Exchanged(w, r, x2, y2), Len(x2) <= MaxWaiting PROVE Good(y2, x2, b, a)
  <2>1. Apart(x2, b) /\ Apart(y2, b)
    BY <1>1, <1>2, StaysApart DEF Exchanged
  <2>2. Placed(y2, x2, b)
    BY <1>2, <2>1 DEF Exchanged, Placed, Good, Fits, Apart
  <2>3. \A t, s : By(y2, x2, b, t, s) => By(r, w, b, t, s)
    BY <1>2 DEF Exchanged, By
  <2> QED BY <2>2, <2>3, FewerIsGood
<1>3. ASSUME Exchanged(b, r, x2, y2), Len(x2) <= MaxBlocked PROVE Good(y2, w, x2, a)
  <2>1. Apart(x2, w) /\ Apart(y2, w)
    BY <1>1, <1>3, StaysApart DEF Exchanged
  <2>2. Placed(y2, w, x2)
    BY <1>3, <2>1 DEF Exchanged, Placed, Good, Fits, Apart
  <2>3. \A t, s : By(y2, w, x2, t, s) => By(r, w, b, t, s)
    BY <1>3 DEF Exchanged, By
  <2> QED BY <2>2, <2>3, FewerIsGood
<1> QED BY <1>2, <1>3

(* An entry goes over from x to y.                                         *)
LEMMA GoneOver ==
  ASSUME NEW x \in Seq(Place), NEW y \in Seq(Place), Distinct(x), Distinct(y), Apart(x, y),
         NEW i \in Active(x), NEW e \in Entry, e.task = x[i].task, e.source = x[i].source
  PROVE  LET x2 == RemoveEntry(x, i)
             y2 == Insert(y, e)
         IN Exchanged(x, y, x2, y2) /\ Len(x2) <= Len(x) /\ Len(y2) = Len(y) + 1
<1> DEFINE x2 == RemoveEntry(x, i)
           y2 == Insert(y, e)
<1>1. /\ x2 \in Seq(Place) /\ Len(x2) <= Len(x) /\ Distinct(x2)
      /\ \A t, s : In(x2, t, s) => In(x, t, s)
      /\ e.task \notin TasksOf(x2)
  BY RemoveIs
<1>2. e.task \in TasksOf(x) /\ In(x, e.task, e.source)
  BY InIs DEF In
<1>3. e \in Place /\ e.task \notin TasksOf(y)
  BY <1>2 DEF Place, Apart
<1>4. /\ y2 \in Seq(Place) /\ Len(y2) = Len(y) + 1 /\ Distinct(y2)
      /\ \A t, s : In(y2, t, s) => In(y, t, s) \/ (t = e.task /\ s = e.source)
  BY <1>3, InsertIs
<1> HIDE DEF x2, y2
<1>5. \A t \in TasksOf(x2) : t \in TasksOf(x)
  BY <1>1, InIs
<1>6. \A t \in TasksOf(y2) : t \in TasksOf(y) \/ t = e.task
  BY <1>4, InIs
<1>7. Apart(x2, y2)
  BY <1>1, <1>5, <1>6 DEF Apart
<1> QED BY <1>1, <1>2, <1>4, <1>7 DEF Exchanged, x2, y2

(* A woken entry, or the one that came into its place, or none at all.     *)
LEMMA WakeExchanges ==
  ASSUME ready \in Seq(Place), Distinct(ready), Len(ready) <= MaxReady,
         NEW list \in Seq(Place), Distinct(list), Apart(list, ready),
         NEW t \in TasksOf(list), NEW r2, NEW l2, WakeFrom(list, IndexOf(list, t), r2, l2)
  PROVE  Exchanged(list, ready, l2, r2) /\ Len(l2) <= Len(list) /\ Len(r2) <= MaxReady
<1> DEFINE i == IndexOf(list, t)
           packed == RemoveEntry(list, i)
           e == [packed[i] EXCEPT !.waited = 0]
           cut == [packed EXCEPT ![i] = Hole]
<1>1. i \in Active(list) /\ i \in 1..Len(list) /\ i \in Nat
  <2>1. i \in Active(list)
    BY IndexIs
  <2> QED BY <2>1, PlacesOf
<1>2. IF Len(ready) >= MaxReady
      THEN r2 = ready /\ l2 = packed
      ELSE /\ r2 = Insert(ready, IF i <= Len(packed) THEN e ELSE Hole)
           /\ l2 = IF i <= Len(packed) THEN cut ELSE packed
  BY DEF WakeFrom
<1> HIDE DEF i
<1>3. /\ packed \in Seq(Place) /\ Len(packed) <= Len(list) /\ Distinct(packed)
      /\ Active(packed) = 1..Len(packed)
      /\ \A u, s : In(packed, u, s) => In(list, u, s)
  BY <1>1, RemoveIs
<1> HIDE DEF packed
<1>4. /\ Len(packed) \in Nat /\ DOMAIN packed = 1..Len(packed) /\ Len(list) \in Nat
      /\ Len(ready) \in Nat /\ MaxReady \in Nat
      /\ \A k \in Active(packed) : packed[k] \in Entry /\ packed[k] # Hole
  BY <1>3, PlacesOf, SchedulerAssumption
<1>5. \A u \in TasksOf(packed) : u \in TasksOf(list)
  BY <1>3, InIs
<1>6. CASE Len(ready) >= MaxReady
  <2>1. r2 = ready /\ l2 = packed
    BY <1>2, <1>6
  <2>2. Apart(packed, ready)
    BY <1>5 DEF Apart
  <2> QED BY <1>3, <2>1, <2>2 DEF Exchanged
<1>7. CASE Len(ready) < MaxReady /\ ~(i <= Len(packed))
  <2>1. r2 = Insert(ready, Hole) /\ l2 = packed
    BY <1>2, <1>4, <1>7
  <2>2. Hole \in Place
    BY DEF Place
  <2>3. /\ r2 \in Seq(Place) /\ Len(r2) = Len(ready) + 1 /\ Distinct(r2)
        /\ \A u, s : In(r2, u, s) => In(ready, u, s)
    BY <2>1, <2>2, InsertIs
  <2>4. \A u \in TasksOf(r2) : u \in TasksOf(ready)
    BY <2>3, InIs
  <2>5. Apart(packed, r2)
    BY <1>5, <2>4 DEF Apart
  <2>6. Len(r2) <= MaxReady
    BY <1>4, <1>7, <2>3
  <2> QED BY <1>3, <2>1, <2>3, <2>5, <2>6 DEF Exchanged
<1>8. CASE Len(ready) < MaxReady /\ i <= Len(packed)
  <2>1. r2 = Insert(ready, e) /\ l2 = cut
    BY <1>2, <1>4, <1>8
  <2>2. i \in 1..Len(packed)
    BY <1>1, <1>4, <1>8
  <2>3. e \in Entry /\ e.task = packed[i].task /\ e.source = packed[i].source
    <3>1. packed[i] \in Entry /\ 0 \in 0..AgeCap
      BY <1>3, <1>4, <2>2, SchedulerAssumption DEF AgeCap
    <3> QED BY <3>1 DEF Entry
  <2>4. e # Hole
    BY <2>3, HoleIsNoEntry
  <2>5. /\ cut \in Seq(Place) /\ Len(cut) = Len(packed) /\ DOMAIN cut = 1..Len(packed)
        /\ cut[i] = Hole /\ \A k \in 1..Len(packed) : k # i => cut[k] = packed[k]
    BY <1>3, <1>4, <2>2 DEF Place
  <2> HIDE DEF e, cut
  <2>6. Active(cut) = Active(packed) \ {i} /\ \A k \in Active(cut) : cut[k] = packed[k]
    BY <1>3, <1>4, <2>2, <2>5 DEF Active
  <2>7. Distinct(cut) /\ \A u, s : In(cut, u, s) => In(packed, u, s)
    BY <1>3, <2>6 DEF Distinct, In
  <2>8. e.task \notin TasksOf(cut)
    <3>1. \A k \in Active(cut) : cut[k].task # e.task
      BY <1>3, <2>2, <2>3, <2>6 DEF Distinct
    <3> QED BY <2>5, <3>1, InIs
  <2>9. In(list, e.task, e.source)
    <3>1. In(packed, e.task, e.source)
      BY <1>3, <2>2, <2>3 DEF In
    <3> QED BY <1>3, <3>1
  <2>10. e.task \in TasksOf(list) /\ e.task \notin TasksOf(ready) /\ e \in Place
    <3>1. e.task \in TasksOf(list)
      BY <2>9, InIs
    <3> QED BY <2>3, <3>1 DEF Apart, Place
  <2>11. /\ r2 \in Seq(Place) /\ Len(r2) = Len(ready) + 1 /\ Distinct(r2)
         /\ \A u, s : In(r2, u, s) => In(ready, u, s) \/ (u = e.task /\ s = e.source)
    BY <2>1, <2>10, InsertIs
  <2>12. \A u \in TasksOf(r2) : u \in TasksOf(ready) \/ u = e.task
    BY <2>11, InIs
  <2>13. \A u \in TasksOf(cut) : u \in TasksOf(list)
    BY <1>5, <2>5, <2>7, <1>3, InIs
  <2>14. Apart(cut, r2)
    BY <2>8, <2>12, <2>13 DEF Apart
  <2>15. Len(r2) <= MaxReady /\ Len(cut) <= Len(list)
    BY <1>3, <1>4, <1>8, <2>5, <2>11
  <2>16. \A u, s : In(cut, u, s) \/ In(r2, u, s) => In(list, u, s) \/ In(ready, u, s)
    BY <1>3, <2>7, <2>9, <2>11
  <2> QED BY <2>1, <2>5, <2>7, <2>11, <2>14, <2>15, <2>16 DEF Exchanged
<1> QED BY <1>4, <1>6, <1>7, <1>8

(* A new task comes in, within the quota of its source.                    *)
LEMMA NewIsGood ==
  ASSUME NEW r, NEW w, NEW b, NEW a, Good(r, w, b, a), Len(r) < MaxReady,
         NEW e \in Entry, e.task \notin TasksOfAll(r, w, b),
         Cardinality(From(r, w, b, e.source)) < MaxPerSource
  PROVE  Good(Insert(r, e), w, b, a \cup {e.task})
<1> DEFINE z == Insert(r, e)
<1>1. /\ r \in Seq(Place) /\ w \in Seq(Place) /\ b \in Seq(Place) /\ Distinct(r)
      /\ e \in Place /\ e.task \in Tasks /\ e.source \in Sources /\ e # Hole
      /\ Len(r) \in Nat /\ MaxReady \in Nat /\ MaxPerSource \in Nat
  BY PlacesOf, SchedulerAssumption, HoleIsNoEntry DEF Good, Placed, Fits, Place, Entry
<1>2. /\ e.task \notin TasksOf(r) /\ e.task \notin TasksOf(w) /\ e.task \notin TasksOf(b)
  BY DEF TasksOfAll
<1>3. /\ z \in Seq(Place) /\ Len(z) = Len(r) + 1 /\ Distinct(z)
      /\ \A t, s : In(z, t, s) => In(r, t, s) \/ (t = e.task /\ s = e.source)
  BY <1>1, <1>2, InsertIs
<1> HIDE DEF z
<1>4. \A t \in TasksOf(z) : t \in TasksOf(r) \/ t = e.task
  BY <1>1, <1>3, InIs
<1>5. Placed(z, w, b)
  <2>1. Len(z) <= MaxReady
    BY <1>1, <1>3
  <2> QED BY <1>2, <1>3, <1>4, <2>1 DEF Good, Placed, Fits, Apart
<1>6. ASSUME NEW s \in Sources PROVE Cardinality(From(z, w, b, s)) <= MaxPerSource
  <2>1. CASE s # e.source
    <3>1. From(z, w, b, s) \subseteq From(r, w, b, s)
      BY <1>3, <2>1 DEF From, By
    <3>2. Cardinality(From(z, w, b, s)) <= Cardinality(From(r, w, b, s))
      BY <3>1, FromIsFinite, FS_Subset
    <3>3. Cardinality(From(r, w, b, s)) <= MaxPerSource
      BY DEF Good
    <3> QED BY <1>1, <3>2, <3>3, FromIsFinite
  <2>2. CASE s = e.source
    <3> DEFINE old == From(r, w, b, s)
    <3>1. From(z, w, b, s) \subseteq old \cup {e.task}
      BY <1>3 DEF From, By
    <3>2. IsFiniteSet(old) /\ Cardinality(old) \in Nat /\ Cardinality(old) < MaxPerSource
      BY <2>2, FromIsFinite
    <3> HIDE DEF old
    <3>3. /\ IsFiniteSet(old \cup {e.task})
          /\ Cardinality(old \cup {e.task}) = IF e.task \in old THEN Cardinality(old)
                                              ELSE Cardinality(old) + 1
      BY <3>2, FS_AddElement
    <3>4. Cardinality(From(z, w, b, s)) <= Cardinality(old \cup {e.task})
      BY <3>1, <3>3, FS_Subset
    <3> QED BY <1>1, <3>2, <3>3, <3>4, FromIsFinite
  <2> QED BY <2>1, <2>2
<1>7. TasksOfAll(z, w, b) \subseteq a \cup {e.task} /\ a \cup {e.task} \subseteq Tasks
  BY <1>1, <1>4 DEF Good, TasksOfAll
<1> QED BY <1>5, <1>6, <1>7 DEF Good, z

(* The scheduler counts the entries of a source, not its tasks.            *)
OfSource(list, s) == {i \in Active(list) : list[i].source = s}

LEMMA FewerTasks ==
  ASSUME NEW list \in Seq(Place), NEW s
  PROVE  LET its == {t \in Tasks : In(list, t, s)}
         IN /\ IsFiniteSet(its) /\ Cardinality(its) \in Nat
            /\ Cardinality(OfSource(list, s)) \in Nat
            /\ Cardinality(its) <= Cardinality(OfSource(list, s))
<1> DEFINE task(i) == list[i].task
           of == OfSource(list, s)
<1>1. {t \in Tasks : In(list, t, s)} = {task(i) : i \in of}
  BY PlacesOf DEF In, OfSource, Entry
<1>2. of \subseteq 1..Len(list) /\ IsFiniteSet(1..Len(list))
  BY PlacesOf, FS_Interval DEF OfSource
<1>3. IsFiniteSet(of)
  BY <1>2, FS_Subset
<1> HIDE DEF of
<1>4. Cardinality({task(i) : i \in of}) <= Cardinality(of) /\ IsFiniteSet({task(i) : i \in of})
  <2> DEFINE f == [i \in of |-> task(i)]
             img == {task(i) : i \in of}
  <2>1. f \in Surjection(of, img)
    BY DEF Surjection
  <2>2. IsFiniteSet(img) /\ Cardinality(img) <= Cardinality(of)
    BY <1>3, <2>1, FS_Surjection
  <2> QED BY <2>2
<1>5. Cardinality(of) \in Nat /\ Cardinality({task(i) : i \in of}) \in Nat
  BY <1>3, <1>4, FS_CardinalityType
<1> QED BY <1>1, <1>4, <1>5 DEF of

LEMMA QuotaIsCounted ==
  ASSUME ready \in Seq(Place), waiting \in Seq(Place), blocked \in Seq(Place),
         NEW s, SourceCount(s) < MaxPerSource
  PROVE  Cardinality(From(ready, waiting, blocked, s)) < MaxPerSource
<1> DEFINE R == {t \in Tasks : In(ready, t, s)}
           W == {t \in Tasks : In(waiting, t, s)}
           B == {t \in Tasks : In(blocked, t, s)}
           r == Cardinality(OfSource(ready, s))
           w == Cardinality(OfSource(waiting, s))
           b == Cardinality(OfSource(blocked, s))
<1>1. SourceCount(s) = r + w + b
  BY DEF SourceCount, OfSource
<1>2. From(ready, waiting, blocked, s) = (R \cup W) \cup B
  BY DEF From, By
<1>3. /\ IsFiniteSet(R) /\ Cardinality(R) \in Nat /\ r \in Nat /\ Cardinality(R) <= r
      /\ IsFiniteSet(W) /\ Cardinality(W) \in Nat /\ w \in Nat /\ Cardinality(W) <= w
      /\ IsFiniteSet(B) /\ Cardinality(B) \in Nat /\ b \in Nat /\ Cardinality(B) <= b
  BY FewerTasks
<1> HIDE DEF R, W, B, r, w, b
<1>4. /\ IsFiniteSet(R \cup W)
      /\ Cardinality(R \cup W) = Cardinality(R) + Cardinality(W) - Cardinality(R \cap W)
  BY <1>3, FS_Union
<1>5. Cardinality((R \cup W) \cup B)
        = Cardinality(R \cup W) + Cardinality(B) - Cardinality((R \cup W) \cap B)
  BY <1>3, <1>4, FS_Union
<1>6. Cardinality(R \cap W) \in Nat /\ Cardinality((R \cup W) \cap B) \in Nat
  BY <1>3, <1>4, FS_Intersection, FS_CardinalityType
<1>7. MaxPerSource \in Nat
  BY SchedulerAssumption
<1> QED BY <1>1, <1>2, <1>3, <1>4, <1>5, <1>6, <1>7

(* The most urgent of the entries, by the three measures in turn.          *)
LEMMA SelectedIs ==
  ASSUME NEW list \in Seq(Place), Active(list) # {}
  PROVE  Selected(list) \in Active(list)
<1> DEFINE A == Active(list)
           prio(i) == EffectivePriority(list[i])
<1>1. /\ \A i \in A : i \in Nat /\ list[i] \in Entry
      /\ CRITICAL = 4
  BY PlacesOf DEF CRITICAL
<1>2. \A i \in A : prio(i) \in Nat /\ prio(i) <= CRITICAL
  <2> SUFFICES ASSUME NEW i \in A PROVE prio(i) \in Nat /\ prio(i) <= CRITICAL OBVIOUS
  <2>1. list[i].base \in 0..CRITICAL /\ list[i].boost \in 0..MaxBoost /\ MaxBoost \in Nat
    BY <1>1, SchedulerAssumption DEF Entry
  <2> QED BY <1>1, <2>1 DEF EffectivePriority
<1>3. PICK most \in Nat : \A i \in A : list[i].age \in Nat /\ list[i].age <= most
  <2> DEFINE n == AgeCap + Cardinality(Tasks)
  <2>1. n \in Nat
    <3>1. AgeCap \in Nat
      BY SchedulerAssumption DEF AgeCap
    <3>2. Cardinality(Tasks) \in Nat
      BY TaskAssumption, FS_CardinalityType
    <3> QED BY <3>1, <3>2
  <2>2. \A i \in A : list[i].age \in 0..n
    BY <1>1 DEF Entry
  <2> HIDE DEF n
  <2>3. \A i \in A : list[i].age \in Nat /\ list[i].age <= n
    BY <2>1, <2>2
  <2> QED BY <2>1, <2>3
<1> HIDE DEF A, prio
<1>4. PICK top \in A : \A j \in A : prio(j) <= prio(top)
  <2> DEFINE S == {CRITICAL - prio(i) : i \in A}
  <2>1. \A n \in S : n \in Nat
    BY <1>1, <1>2
  <2>2. S # {} /\ S \in SUBSET Nat
    <3>1. A # {}
      BY DEF A
    <3> QED BY <2>1, <3>1
  <2>3. PICK n \in S : \A m \in S : n <= m
    BY <2>2, HasLeast
  <2>4. PICK i \in A : n = CRITICAL - prio(i)
    BY <2>3
  <2>5. \A j \in A : CRITICAL - prio(i) <= CRITICAL - prio(j)
    BY <2>3, <2>4
  <2> QED BY <1>1, <1>2, <2>4, <2>5
<1> DEFINE T == {i \in A : prio(i) = prio(top)}
<1>5. PICK old \in T : \A j \in T : list[j].age <= list[old].age
  <2> DEFINE S == {most - list[i].age : i \in T}
  <2>1. \A n \in S : n \in Nat
    BY <1>3
  <2>2. S # {} /\ S \in SUBSET Nat
    BY <1>4, <2>1
  <2>3. PICK n \in S : \A m \in S : n <= m
    BY <2>2, HasLeast
  <2>4. PICK i \in T : n = most - list[i].age
    BY <2>3
  <2>5. \A j \in T : most - list[i].age <= most - list[j].age
    BY <2>3, <2>4
  <2>6. \A j \in T : list[j].age <= list[i].age
    BY <1>3, <2>4, <2>5
  <2> QED BY <2>4, <2>6
<1> DEFINE U == {i \in T : list[i].age = list[old].age}
<1>6. PICK first \in U : \A j \in U : first <= j
  <2>1. U # {} /\ U \in SUBSET Nat
    BY <1>1, <1>5
  <2> QED BY <2>1, HasLeast
<1>7. first \in A
  BY <1>6
<1>8. ASSUME NEW j \in A, j # first
      PROVE  \/ prio(first) > prio(j)
             \/ prio(first) = prio(j) /\ list[first].age > list[j].age
             \/ prio(first) = prio(j) /\ list[first].age = list[j].age /\ first < j
  <2>1. prio(first) = prio(top) /\ list[first].age = list[old].age
    BY <1>6
  <2>2. CASE j \notin T
    BY <1>2, <1>4, <1>7, <1>8, <2>1, <2>2
  <2>3. CASE j \in T /\ j \notin U
    BY <1>3, <1>5, <1>7, <1>8, <2>1, <2>3
  <2>4. CASE j \in U
    BY <1>1, <1>6, <1>7, <1>8, <2>1, <2>4
  <2> QED BY <2>2, <2>3, <2>4
<1>9. \E i \in Active(list) :
        \A j \in Active(list) \ {i} :
          LET p == EffectivePriority(list[i])
              q == EffectivePriority(list[j])
          IN \/ p > q
             \/ p = q /\ list[i].age > list[j].age
             \/ p = q /\ list[i].age = list[j].age /\ i < j
  BY <1>7, <1>8 DEF A, prio
<1> QED BY <1>9 DEF Selected

(* What boosting leaves alone.                                             *)
LEMMA BoostedIs ==
  ASSUME NEW e \in Entry, NEW elapsed \in Nat
  PROVE  LET d == Boosted(e, elapsed)
         IN d \in Entry /\ d.task = e.task /\ d.source = e.source /\ d.age = e.age
<1> DEFINE whole == elapsed \div Interval
           earned == IF whole > MaxBoost THEN MaxBoost ELSE whole
<1>1. whole \in Int /\ MaxBoost \in Nat
  BY SchedulerAssumption
<1>2. e.boost \in 0..MaxBoost
  BY DEF Entry
<1>3. Boosted(e, elapsed) = IF earned > e.boost THEN [e EXCEPT !.boost = earned] ELSE e
  BY DEF Boosted
<1> HIDE DEF whole
<1>4. earned > e.boost => earned \in 0..MaxBoost
  BY <1>1, <1>2
<1> HIDE DEF earned
<1>5. ASSUME earned \in 0..MaxBoost
      PROVE  LET d == [e EXCEPT !.boost = earned]
             IN d \in Entry /\ d.task = e.task /\ d.source = e.source /\ d.age = e.age
  BY <1>5 DEF Entry
<1> QED BY <1>3, <1>4, <1>5

LEMMA AlikeByPlace ==
  ASSUME NEW list \in Seq(Place), NEW other, other = [i \in DOMAIN list |-> other[i]],
         \A i \in 1..Len(list) :
           \/ list[i] = Hole /\ other[i] = Hole
           \/ /\ list[i] # Hole /\ other[i] \in Entry
              /\ other[i].task = list[i].task /\ other[i].source = list[i].source
  PROVE  Alike(list, other)
<1>1. Len(list) \in Nat /\ DOMAIN list = 1..Len(list)
  BY PlacesOf
<1>2. \A i \in 1..Len(list) : other[i] \in Place
  BY DEF Place
<1>3. other \in [1..Len(list) -> Place]
  BY <1>1, <1>2
<1>4. other \in Seq(Place)
  BY <1>1, <1>3, SeqDef
<1>5. DOMAIN other = 1..Len(list) /\ DOMAIN other = 1..Len(other) /\ Len(other) \in Nat
  BY <1>3, <1>4
<1>6. Len(other) = Len(list)
  BY <1>1, <1>5
<1> QED BY <1>4, <1>6, HoleIsNoEntry DEF Alike

LEMMA AgedIs ==
  ASSUME NEW list \in Seq(Place), NEW aged,
         \/ aged = [i \in DOMAIN list |-> IF list[i] = Hole THEN Hole
                                          ELSE Boosted(list[i], list[i].age)]
         \/ aged = [i \in DOMAIN list |-> IF list[i] = Hole THEN Hole
                                          ELSE Boosted(list[i], list[i].waited)]
  PROVE  Alike(list, aged)
<1>1. Len(list) \in Nat /\ DOMAIN list = 1..Len(list)
      /\ \A i \in 1..Len(list) : list[i] = Hole \/ list[i] \in Entry
  BY PlacesOf DEF Place
<1>2. \A e \in Entry : e.age \in Nat /\ e.waited \in Nat
  BY DEF Entry
<1>3. ASSUME NEW i \in 1..Len(list)
      PROVE  \/ list[i] = Hole /\ aged[i] = Hole
             \/ /\ list[i] # Hole /\ aged[i] \in Entry
                /\ aged[i].task = list[i].task /\ aged[i].source = list[i].source
  <2>1. CASE list[i] = Hole
    BY <1>1, <2>1
  <2>2. CASE list[i] # Hole
    <3>1. list[i] \in Entry /\ list[i].age \in Nat /\ list[i].waited \in Nat
      BY <1>1, <1>2, <2>2
    <3>2. PICK n \in Nat : aged[i] = Boosted(list[i], n)
      BY <1>1, <2>2, <3>1
    <3> DEFINE d == Boosted(list[i], n)
    <3>3. d \in Entry /\ d.task = list[i].task /\ d.source = list[i].source
      BY <3>1, BoostedIs
    <3> HIDE DEF d
    <3>4. aged[i] = d
      BY <3>2 DEF d
    <3> QED BY <2>2, <3>3, <3>4
  <2> QED BY <2>1, <2>2
<1>4. aged = [i \in DOMAIN list |-> aged[i]]
  BY <1>1
<1> QED BY <1>3, <1>4, AlikeByPlace

(* A list read again by another priority of one of its tasks.              *)
LEMMA ReprioritiseIs ==
  ASSUME NEW list \in Seq(Place), NEW t \in TasksOf(list), NEW p \in Priorities
  PROVE  Alike(list, Reprioritise(list, t, p))
<1> DEFINE i == IndexOf(list, t)
           e == [list[i] EXCEPT !.base = p, !.boost = 0]
           other == [list EXCEPT ![i] = e]
<1>1. i \in Active(list)
  BY IndexIs
<1>2. Reprioritise(list, t, p) = other
  BY DEF Reprioritise
<1> HIDE DEF i
<1>3. /\ Len(list) \in Nat /\ DOMAIN list = 1..Len(list) /\ list[i] \in Entry
      /\ \A j \in 1..Len(list) : list[j] = Hole \/ list[j] \in Entry
      /\ i \in 1..Len(list) /\ list[i] # Hole /\ MaxBoost \in Nat
  BY <1>1, PlacesOf, SchedulerAssumption DEF Place
<1>4. 0 \in 0..MaxBoost
  BY <1>3
<1>5. e \in Entry /\ e.task = list[i].task /\ e.source = list[i].source
  BY <1>3, <1>4 DEF Entry
<1> HIDE DEF e
<1>6. /\ other = [j \in DOMAIN list |-> other[j]] /\ other[i] = e
      /\ \A j \in 1..Len(list) : j # i => other[j] = list[j]
  BY <1>3
<1> HIDE DEF other
<1>7. \A j \in 1..Len(list) :
           \/ list[j] = Hole /\ other[j] = Hole
           \/ /\ list[j] # Hole /\ other[j] \in Entry
              /\ other[j].task = list[j].task /\ other[j].source = list[j].source
  BY <1>3, <1>5, <1>6
<1> QED BY <1>2, <1>6, <1>7, AlikeByPlace, ZenonT(30)

(* No more ages than tasks, so that the rank of an age has a place.        *)
AgeIn(list, t, a) == \E i \in Active(list) : list[i].task = t /\ list[i].age = a
HasAge(t, a) == AgeIn(ready, t, a) \/ AgeIn(waiting, t, a) \/ AgeIn(blocked, t, a)

LEMMA OldEnough ==
  ASSUME Placed(ready, waiting, blocked), NEW age \in 0..(AgeCap + Cardinality(Tasks))
  PROVE  Older(age) \in 0..(AgeCap + Cardinality(Tasks))
<1>1. /\ ready \in Seq(Place) /\ waiting \in Seq(Place) /\ blocked \in Seq(Place)
      /\ Distinct(ready) /\ Distinct(waiting) /\ Distinct(blocked)
      /\ Apart(ready, waiting) /\ Apart(ready, blocked) /\ Apart(waiting, blocked)
  BY DEF Placed, Fits
<1> DEFINE held == {t \in Tasks : \E a : HasAge(t, a)}
           f == [t \in held |-> CHOOSE a : HasAge(t, a)]
<1>2. \A list \in Lists : list \in Seq(Place)
  BY <1>1 DEF Lists
<1>3. \A a \in AllAges : \E t \in Tasks : HasAge(t, a)
  <2> SUFFICES ASSUME NEW a \in AllAges PROVE \E t \in Tasks : HasAge(t, a) OBVIOUS
  <2>1. PICK list \in Lists : a \in {e.age : e \in Entries(list)}
    BY DEF AllAges
  <2>2. PICK i \in Active(list) : list[i].age = a
    BY <2>1 DEF Entries
  <2>3. list[i].task \in Tasks /\ AgeIn(list, list[i].task, a)
    BY <1>2, <2>2, PlacesOf DEF AgeIn, Entry
  <2> QED BY <2>1, <2>3 DEF Lists, HasAge
<1>4. \A t, a : HasAge(t, a) => a \in AllAges
  BY DEF HasAge, AgeIn, AllAges, Lists, Entries
<1>5. \A list \in Lists : \A t, a : AgeIn(list, t, a) => t \in TasksOf(list)
  BY <1>2, InIs DEF AgeIn
<1>6. \A list \in Lists : \A t, a, c : AgeIn(list, t, a) /\ AgeIn(list, t, c) => a = c
  BY <1>1, SMTT(30) DEF AgeIn, Distinct, Lists
<1>7. \A t, a, c : HasAge(t, a) /\ HasAge(t, c) => a = c
  BY <1>1, <1>5, <1>6 DEF HasAge, Apart, Lists
<1>8. f \in Surjection(held, AllAges)
  <2>1. \A t \in held : HasAge(t, f[t])
    OBVIOUS
  <2>2. f \in [held -> AllAges]
    BY <1>4, <2>1
  <2>3. \A a \in AllAges : \E t \in held : f[t] = a
    BY <1>3, <1>7, <2>1
  <2> QED BY <2>2, <2>3 DEF Surjection
<1>9. /\ IsFiniteSet(held) /\ Cardinality(held) \in Nat /\ Cardinality(Tasks) \in Nat
      /\ Cardinality(held) <= Cardinality(Tasks)
  <2>1. held \subseteq Tasks
    OBVIOUS
  <2> HIDE DEF held
  <2> QED BY <2>1, TaskAssumption, FS_Subset, FS_CardinalityType
<1> HIDE DEF held
<1>10. IsFiniteSet(AllAges) /\ Cardinality(AllAges) <= Cardinality(held)
       /\ Cardinality(AllAges) \in Nat
  BY <1>8, <1>9, FS_Surjection, FS_CardinalityType
<1> DEFINE above == {a \in AllAges : AgeCap <= a /\ a <= age}
<1>11. above \subseteq AllAges
  OBVIOUS
<1> HIDE DEF above
<1>12. Cardinality(above) \in Nat /\ Cardinality(above) <= Cardinality(AllAges)
  BY <1>10, <1>11, FS_Subset, FS_CardinalityType
<1>13. AgeCap \in Nat
  BY SchedulerAssumption DEF AgeCap
<1>14. Older(age) = IF age + 1 <= AgeCap THEN age + 1 ELSE AgeCap + Cardinality(above)
  BY DEF Older, above
<1> QED BY <1>9, <1>10, <1>12, <1>13, <1>14

LEMMA GrowIs ==
  ASSUME Placed(ready, waiting, blocked), NEW list \in Seq(Place)
  PROVE  Alike(list, Grow(list))
<1> DEFINE other == Grow(list)
<1>1. Len(list) \in Nat /\ DOMAIN list = 1..Len(list) /\ AgeCap \in Nat
      /\ \A i \in 1..Len(list) : list[i] = Hole \/ list[i] \in Entry
  BY PlacesOf, SchedulerAssumption DEF Place, AgeCap
<1>2. other = [i \in DOMAIN list |->
                 IF list[i] = Hole THEN Hole
                 ELSE [list[i] EXCEPT !.age = Older(list[i].age),
                        !.waited = IF list[i].waited < AgeCap THEN list[i].waited + 1
                                   ELSE list[i].waited]]
  BY DEF Grow
<1> HIDE DEF other
<1>3. ASSUME NEW i \in 1..Len(list), list[i] # Hole
      PROVE  /\ other[i] \in Entry
             /\ other[i].task = list[i].task /\ other[i].source = list[i].source
  <2> DEFINE e == list[i]
             late == IF e.waited < AgeCap THEN e.waited + 1 ELSE e.waited
             old == Older(e.age)
  <2>1. e \in Entry
    BY <1>1, <1>3
  <2>2. other[i] = [e EXCEPT !.age = old, !.waited = late]
    BY <1>1, <1>2, <1>3
  <2> HIDE DEF e
  <2>3. e.age \in 0..(AgeCap + Cardinality(Tasks)) /\ e.waited \in 0..AgeCap
    BY <2>1 DEF Entry
  <2>4. old \in 0..(AgeCap + Cardinality(Tasks))
    BY <2>3, OldEnough
  <2>5. late \in 0..AgeCap
    BY <1>1, <2>3
  <2> HIDE DEF old, late
  <2>6. /\ other[i] \in Entry /\ other[i].task = e.task /\ other[i].source = e.source
    BY <2>1, <2>2, <2>4, <2>5 DEF Entry
  <2> QED BY <2>6 DEF e
<1>4. \A i \in 1..Len(list) : list[i] = Hole => other[i] = Hole
  BY <1>1, <1>2
<1>5. other = [i \in DOMAIN list |-> other[i]]
  BY <1>2
<1>6. Alike(list, other)
  BY <1>3, <1>4, <1>5, AlikeByPlace, ZenonT(30)
<1> QED BY <1>6 DEF other

-----------------------------------------------------------------------------
(* The calls of the scheduler, whatever the tasks a that are accepted.     *)

LEMMA GoodLists ==
  ASSUME NEW r, NEW w, NEW b, NEW a, Good(r, w, b, a)
  PROVE  /\ r \in Seq(Place) /\ w \in Seq(Place) /\ b \in Seq(Place)
         /\ Distinct(r) /\ Distinct(w) /\ Distinct(b)
         /\ Len(r) \in Nat /\ Len(r) <= MaxReady
         /\ Len(w) \in Nat /\ Len(w) <= MaxWaiting
         /\ Len(b) \in Nat /\ Len(b) <= MaxBlocked
         /\ Apart(r, w) /\ Apart(r, b) /\ Apart(w, r) /\ Apart(b, r)
         /\ MaxReady \in Nat /\ MaxWaiting \in Nat /\ MaxBlocked \in Nat
         /\ Alike(r, r) /\ Alike(w, w) /\ Alike(b, b)
         /\ Good(r, w, b, TasksOfAll(r, w, b))
<1>1. r \in Seq(Place) /\ w \in Seq(Place) /\ b \in Seq(Place)
  BY DEF Good, Placed, Fits
<1>2. Alike(r, r) /\ Alike(w, w) /\ Alike(b, b)
  BY <1>1, AlikeItself
<1>3. Len(r) \in Nat /\ Len(w) \in Nat /\ Len(b) \in Nat
  BY <1>1, PlacesOf
<1>4. Good(r, w, b, TasksOfAll(r, w, b))
  BY DEF Good
<1>5. /\ Distinct(r) /\ Distinct(w) /\ Distinct(b)
      /\ Len(r) <= MaxReady /\ Len(w) <= MaxWaiting /\ Len(b) <= MaxBlocked
      /\ Apart(r, w) /\ Apart(r, b) /\ Apart(w, r) /\ Apart(b, r)
  BY DEF Good, Placed, Fits, Apart
<1> QED BY <1>1, <1>2, <1>3, <1>4, <1>5, SchedulerAssumption

LEMMA HeldIs == Held = TasksOfAll(ready, waiting, blocked)
  BY DEF Held, Lists, TasksOfAll

LEMMA SubmitKeeps ==
  ASSUME NEW a, Good(ready, waiting, blocked, a),
         NEW t \in Tasks, NEW p \in Priorities, NEW s \in Sources, Submit(t, p, s)
  PROVE  Good(ready', waiting', blocked', a \cup {t})
<1> DEFINE e == [task |-> t, source |-> s, base |-> p, boost |-> 0, age |-> 0, waited |-> 0]
<1>1. /\ t \notin Held /\ Len(ready) < MaxReady /\ SourceCount(s) < MaxPerSource
      /\ ready' = Insert(ready, e) /\ waiting' = waiting /\ blocked' = blocked
  BY DEF Submit
<1>2. e \in Entry /\ e.task = t /\ e.source = s
  <2>1. 0 \in 0..MaxBoost /\ 0 \in 0..AgeCap /\ 0 \in 0..(AgeCap + Cardinality(Tasks))
    <3>1. AgeCap \in Nat /\ Cardinality(Tasks) \in Nat /\ MaxBoost \in Nat
      BY SchedulerAssumption, TaskAssumption, FS_CardinalityType DEF AgeCap
    <3> QED BY <3>1
  <2> QED BY <2>1 DEF Entry
<1> HIDE DEF e
<1>3. Cardinality(From(ready, waiting, blocked, s)) < MaxPerSource
  BY <1>1, GoodLists, QuotaIsCounted
<1>4. e.task \notin TasksOfAll(ready, waiting, blocked)
  BY <1>1, <1>2, HeldIs
<1>5. Cardinality(From(ready, waiting, blocked, e.source)) < MaxPerSource
  BY <1>2, <1>3
<1>6. Good(Insert(ready, e), waiting, blocked, a \cup {e.task})
  BY <1>1, <1>2, <1>4, <1>5, NewIsGood
<1> QED BY <1>1, <1>2, <1>6

LEMMA CancelKeeps ==
  ASSUME NEW a, Good(ready, waiting, blocked, a), NEW t, Cancel(t)
  PROVE  Good(ready', waiting', blocked', a \ {t})
<1>1. CASE /\ t \in TasksOf(ready)
           /\ ready' = RemoveEntry(ready, IndexOf(ready, t))
           /\ waiting' = waiting /\ blocked' = blocked
  BY <1>1, GoodLists, IndexIs, RemovedIsGood
<1>2. CASE /\ t \in TasksOf(waiting)
           /\ waiting' = RemoveEntry(waiting, IndexOf(waiting, t))
           /\ ready' = ready /\ blocked' = blocked
  BY <1>2, GoodLists, IndexIs, RemovedIsGood
<1>3. CASE /\ t \in TasksOf(blocked)
           /\ blocked' = RemoveEntry(blocked, IndexOf(blocked, t))
           /\ ready' = ready /\ waiting' = waiting
  BY <1>3, GoodLists, IndexIs, RemovedIsGood
<1> QED BY <1>1, <1>2, <1>3 DEF Cancel

LEMMA WakeKeeps ==
  ASSUME NEW a, Good(ready, waiting, blocked, a), NEW t, Wake(t)
  PROVE  Good(ready', waiting', blocked', a)
<1> USE GoodLists
<1>1. CASE /\ t \in TasksOf(waiting) /\ blocked' = blocked
           /\ WakeFrom(waiting, IndexOf(waiting, t), ready', waiting')
  <2>1. /\ Exchanged(waiting, ready, waiting', ready')
        /\ Len(waiting') <= Len(waiting) /\ Len(ready') <= MaxReady
    BY <1>1, WakeExchanges
  <2>2. Len(waiting') \in Nat
    BY <2>1, PlacesOf DEF Exchanged
  <2>3. Len(waiting') <= MaxWaiting
    BY <2>1, <2>2
  <2> QED BY <1>1, <2>1, <2>3, ExchangedIsGood
<1>2. CASE /\ t \in TasksOf(blocked) /\ waiting' = waiting
           /\ WakeFrom(blocked, IndexOf(blocked, t), ready', blocked')
  <2>1. /\ Exchanged(blocked, ready, blocked', ready')
        /\ Len(blocked') <= Len(blocked) /\ Len(ready') <= MaxReady
    BY <1>2, WakeExchanges
  <2>2. Len(blocked') \in Nat
    BY <2>1, PlacesOf DEF Exchanged
  <2>3. Len(blocked') <= MaxBlocked
    BY <2>1, <2>2
  <2> QED BY <1>2, <2>1, <2>3, ExchangedIsGood
<1> QED BY <1>1, <1>2 DEF Wake

(* The ready entry that block and wait take over to another list.          *)
LEMMA SetAside ==
  ASSUME NEW a, Good(ready, waiting, blocked, a), NEW t \in TasksOf(ready),
         NEW y \in Seq(Place), Distinct(y), Apart(ready, y)
  PROVE  LET i == IndexOf(ready, t)
             x2 == RemoveEntry(ready, i)
             y2 == Insert(y, [ready[i] EXCEPT !.waited = 0])
         IN /\ Exchanged(y, ready, y2, x2)
            /\ Len(x2) <= MaxReady /\ Len(y2) = Len(y) + 1
<1> DEFINE i == IndexOf(ready, t)
           e == [ready[i] EXCEPT !.waited = 0]
           x2 == RemoveEntry(ready, i)
           y2 == Insert(y, e)
<1>1. i \in Active(ready) /\ ready \in Seq(Place) /\ Distinct(ready)
      /\ Len(ready) \in Nat /\ Len(ready) <= MaxReady /\ MaxReady \in Nat
  BY GoodLists, IndexIs
<1> HIDE DEF i
<1>2. ready[i] \in Entry /\ 0 \in 0..AgeCap
  BY <1>1, PlacesOf, SchedulerAssumption DEF AgeCap
<1>3. e \in Entry /\ e.task = ready[i].task /\ e.source = ready[i].source
  BY <1>2 DEF Entry
<1> HIDE DEF e
<1>4. Exchanged(ready, y, x2, y2) /\ Len(x2) <= Len(ready) /\ Len(y2) = Len(y) + 1
  BY <1>1, <1>3, GoneOver
<1> HIDE DEF x2, y2
<1>5. Exchanged(y, ready, y2, x2)
  BY <1>4 DEF Exchanged, Apart
<1>6. Len(x2) <= MaxReady
  <2>1. Len(x2) \in Nat
    BY <1>4, PlacesOf DEF Exchanged
  <2> QED BY <1>1, <1>4, <2>1
<1> QED BY <1>4, <1>5, <1>6 DEF x2, y2, e, i

LEMMA SetAsideKeeps ==
  ASSUME NEW a, Good(ready, waiting, blocked, a), NEW t, Block(t) \/ Wait(t)
  PROVE  Good(ready', waiting', blocked', a)
<1> USE GoodLists
<1>1. CASE Block(t)
  <2>1. /\ t \in TasksOf(ready) /\ Len(blocked) < MaxBlocked /\ waiting' = waiting
        /\ blocked' = Insert(blocked, [ready[IndexOf(ready, t)] EXCEPT !.waited = 0])
        /\ ready' = RemoveEntry(ready, IndexOf(ready, t))
    BY <1>1 DEF Block
  <2>2. /\ Exchanged(blocked, ready, blocked', ready')
        /\ Len(ready') <= MaxReady /\ Len(blocked') = Len(blocked) + 1
    BY <2>1, SetAside
  <2>3. Len(blocked') <= MaxBlocked
    BY <2>1, <2>2
  <2> QED BY <2>1, <2>2, <2>3, ExchangedIsGood
<1>2. CASE Wait(t)
  <2>1. /\ t \in TasksOf(ready) /\ Len(waiting) < MaxWaiting /\ blocked' = blocked
        /\ waiting' = Insert(waiting, [ready[IndexOf(ready, t)] EXCEPT !.waited = 0])
        /\ ready' = RemoveEntry(ready, IndexOf(ready, t))
    BY <1>2 DEF Wait
  <2>2. /\ Exchanged(waiting, ready, waiting', ready')
        /\ Len(ready') <= MaxReady /\ Len(waiting') = Len(waiting) + 1
    BY <2>1, SetAside
  <2>3. Len(waiting') <= MaxWaiting
    BY <2>1, <2>2
  <2> QED BY <2>1, <2>2, <2>3, ExchangedIsGood
<1> QED BY <1>1, <1>2

LEMMA PriorityKeeps ==
  ASSUME NEW a, Good(ready, waiting, blocked, a), NEW t, NEW p \in Priorities, SetPriority(t, p)
  PROVE  Good(ready', waiting', blocked', a)
<1> USE GoodLists
<1>1. CASE /\ t \in TasksOf(ready) /\ ready' = Reprioritise(ready, t, p)
           /\ waiting' = waiting /\ blocked' = blocked
  BY <1>1, ReprioritiseIs, AlikeIsGood
<1>2. CASE /\ t \in TasksOf(waiting) /\ waiting' = Reprioritise(waiting, t, p)
           /\ ready' = ready /\ blocked' = blocked
  BY <1>2, ReprioritiseIs, AlikeIsGood
<1>3. CASE /\ t \in TasksOf(blocked) /\ blocked' = Reprioritise(blocked, t, p)
           /\ ready' = ready /\ waiting' = waiting
  BY <1>3, ReprioritiseIs, AlikeIsGood
<1> QED BY <1>1, <1>2, <1>3 DEF SetPriority

LEMMA ElapseKeeps ==
  ASSUME NEW a, Good(ready, waiting, blocked, a), Elapse
  PROVE  Good(ready', waiting', blocked', a)
<1>1. Placed(ready, waiting, blocked)
  BY DEF Good
<1>2. Alike(ready, ready') /\ Alike(waiting, waiting') /\ Alike(blocked, blocked')
  BY <1>1, GoodLists, GrowIs DEF Elapse
<1> QED BY <1>2, AlikeIsGood

(* What a tick takes out of the ready list.                                *)
LEMMA DispatchKeeps ==
  ASSUME NEW a, Good(ready, waiting, blocked, a), Tick
  PROVE  LET aged == AgedReady
             t == aged[Selected(aged)].task
         IN IF Active(aged) = {}
            THEN accepted' = accepted /\ Good(ready', waiting', blocked', a)
            ELSE /\ t \in TasksOf(ready) /\ accepted' = accepted \ {t}
                 /\ Good(ready', waiting', blocked', a \ {t})
<1> DEFINE aged == AgedReady
           late == AgedWaiting
<1>1. Alike(ready, aged) /\ Alike(waiting, late)
  <2>1. aged = [i \in DOMAIN ready |-> IF ready[i] = Hole THEN Hole
                                       ELSE Boosted(ready[i], ready[i].age)]
    BY DEF AgedReady, Aged
  <2>2. late = [i \in DOMAIN waiting |-> IF waiting[i] = Hole THEN Hole
                                         ELSE Boosted(waiting[i], waiting[i].waited)]
    BY DEF AgedWaiting, Aged
  <2> HIDE DEF aged, late
  <2> QED BY <2>1, <2>2, GoodLists, AgedIs
<1>2. waiting' = late /\ blocked' = blocked /\ DispatchFrom(aged)
  BY DEF Tick
<1> HIDE DEF aged, late
<1>3. Good(aged, late, blocked, a)
  BY <1>1, GoodLists, AlikeIsGood
<1>4. TasksOf(aged) = TasksOf(ready) /\ aged \in Seq(Place)
  BY <1>1, AlikeFits DEF Good, Placed, Alike
<1>5. CASE Active(aged) = {}
  BY <1>2, <1>3, <1>5 DEF DispatchFrom, aged
<1>6. CASE Active(aged) # {}
  <2> DEFINE i == Selected(aged)
  <2>1. i \in Active(aged)
    BY <1>4, <1>6, SelectedIs
  <2>2. ready' = RemoveEntry(aged, i) /\ accepted' = accepted \ {aged[i].task}
    BY <1>2, <1>6 DEF DispatchFrom
  <2> HIDE DEF i
  <2>3. Good(ready', waiting', blocked', a \ {aged[i].task})
    BY <1>2, <1>3, <2>1, <2>2, RemovedIsGood
  <2>4. aged[i].task \in TasksOf(ready)
    BY <1>4, <2>1, InIs
  <2> QED BY <1>6, <2>2, <2>3, <2>4 DEF aged, i
<1> QED BY <1>5, <1>6

-----------------------------------------------------------------------------
(* The manager's table with the scheduler's lists *)

TaskInv ==
  /\ Good(ready, waiting, blocked, accepted)
  /\ table \in Seq(Task) /\ Len(table) <= Capacity
  /\ HeldIsKnown /\ RunsExplained

LEMMA AsManyTasks ==
  ASSUME NEW list \in Seq(Place), Distinct(list)
  PROVE  Cardinality(Active(list)) = Cardinality(TasksOf(list))
<1> DEFINE f == [i \in Active(list) |-> list[i].task]
<1>1. Active(list) \subseteq 1..Len(list) /\ IsFiniteSet(1..Len(list))
  BY PlacesOf, FS_Interval
<1>2. IsFiniteSet(Active(list))
  BY <1>1, FS_Subset
<1>3. f \in Bijection(Active(list), TasksOf(list))
  <2>1. \A t \in TasksOf(list) : \E i \in Active(list) : f[i] = t
    BY InIs
  <2>2. \A i \in Active(list) : f[i] \in TasksOf(list)
    BY InIs
  <2>3. \A i, j \in Active(list) : f[i] = f[j] => i = j
    BY DEF Distinct
  <2>4. f \in [Active(list) -> TasksOf(list)]
    BY <2>2
  <2> QED BY <2>1, <2>3, <2>4 DEF Bijection, Injection, Surjection, IsInjective
<1>4. ExistsBijection(Active(list), TasksOf(list))
  BY <1>3 DEF ExistsBijection
<1> QED BY <1>2, <1>4, FS_Bijection

LEMMA GoodIsSafe == Good(ready, waiting, blocked, accepted) => ListsSafe /\ TypeOK
<1> SUFFICES ASSUME Good(ready, waiting, blocked, accepted) PROVE ListsSafe /\ TypeOK OBVIOUS
<1> USE GoodLists
<1>1. HeldOnce
  <2>1. \A list \in Lists : list \in Seq(Place) /\ Distinct(list)
    BY DEF Lists
  <2>2. Apart(ready, waiting) /\ Apart(ready, blocked) /\ Apart(waiting, blocked)
    BY DEF Good, Placed
  <2>3. \A list \in Lists : Cardinality(Active(list)) = Cardinality(TasksOf(list))
    BY <2>1, AsManyTasks
  <2> QED BY <2>2, <2>3 DEF HeldOnce, Apart
<1>2. QuotaRespected
  <2>1. ASSUME NEW s \in Sources
        PROVE  {e.task : e \in {d \in UNION {Entries(list) : list \in Lists} : d.source = s}}
                 = From(ready, waiting, blocked, s)
    <3> DEFINE All == UNION {Entries(list) : list \in Lists}
    <3>1. \A e : e \in All <=> \/ e \in Entries(ready)
                               \/ e \in Entries(waiting)
                               \/ e \in Entries(blocked)
      BY DEF Lists
    <3>2. \A list : \A t : In(list, t, s) <=> \E e \in Entries(list) : e.task = t /\ e.source = s
      BY DEF In, Entries
    <3> HIDE DEF All
    <3>3. \A t : By(ready, waiting, blocked, t, s) <=> \E e \in All : e.task = t /\ e.source = s
      BY <3>1, <3>2 DEF By
    <3>4. \A t : By(ready, waiting, blocked, t, s) => t \in Tasks
      BY InIs DEF By
    <3>5. {e.task : e \in {d \in All : d.source = s}} = From(ready, waiting, blocked, s)
      BY <3>3, <3>4 DEF From
    <3> QED BY <3>5 DEF All
  <2> QED BY <2>1 DEF Good, QuotaRespected
<1>3. HeldIsAccepted
  BY HeldIs DEF Good, HeldIsAccepted
<1>4. TypeOK
  BY DEF Good, TypeOK, Place
<1> QED BY <1>1, <1>2, <1>3, <1>4 DEF ListsSafe

(* What the calls of the scheduler mean for the table.                     *)
LEMMA TableKept ==
  ASSUME TaskInv, Held' \subseteq Held, table' = table,
         Good(ready', waiting', blocked', accepted')
  PROVE  TaskInv'
  BY DEF TaskInv, HeldIsKnown, RunsExplained

LEMMA CallsKeep ==
  ASSUME TaskInv, table' = table, accepted' = accepted,
         \A a : Good(ready, waiting, blocked, a) => Good(ready', waiting', blocked', a)
  PROVE  TaskInv'
<1>1. Good(ready', waiting', blocked', accepted')
  BY DEF TaskInv
<1>2. Good(ready', waiting', blocked', TasksOfAll(ready, waiting, blocked))
  BY GoodLists DEF TaskInv
<1>3. Held' = TasksOfAll(ready', waiting', blocked')
  BY DEF Held, Lists, TasksOfAll
<1>4. Held' \subseteq Held
  BY <1>2, <1>3, HeldIs DEF Good
<1> QED BY <1>1, <1>4, TableKept

LEMMA TaskInitHolds == RuntimeInit => TaskInv
<1> SUFFICES ASSUME RuntimeInit PROVE TaskInv OBVIOUS
<1>1. /\ ready = <<>> /\ waiting = <<>> /\ blocked = <<>> /\ accepted = {} /\ table = <<>>
  BY DEF RuntimeInit, Init
<1> DEFINE none == <<>>
<1>2. none \in Seq(Place) /\ Len(none) = 0 /\ DOMAIN none = {} /\ none \in Seq(Task)
  OBVIOUS
<1> HIDE DEF none
<1>3. Active(none) = {} /\ TasksOf(none) = {}
  BY <1>2 DEF Active, TasksOf, Entries
<1>4. /\ MaxReady \in Nat /\ MaxWaiting \in Nat /\ MaxBlocked \in Nat /\ MaxPerSource \in Nat
      /\ Capacity \in Nat
  BY SchedulerAssumption, TaskAssumption, FS_CardinalityType DEF Capacity
<1>5. Placed(none, none, none)
  BY <1>2, <1>3, <1>4 DEF Placed, Fits, Distinct, Apart
<1>6. \A s : Cardinality(From(none, none, none, s)) <= MaxPerSource
  <2>1. \A s : From(none, none, none, s) = {}
    BY <1>3 DEF From, By, In
  <2>2. Cardinality({}) = 0
    BY FS_EmptySet
  <2> QED BY <1>4, <2>1, <2>2
<1>7. Good(none, none, none, {})
  BY <1>3, <1>5, <1>6 DEF Good, TasksOfAll
<1>8. Held = {}
  BY <1>1, <1>3, HeldIs DEF TasksOfAll, none
<1>9. HeldIsKnown /\ RunsExplained
  BY <1>1, <1>2, <1>8 DEF HeldIsKnown, RunsExplained, none
<1>10. table \in Seq(Task) /\ Len(table) <= Capacity
  BY <1>1, <1>2, <1>4 DEF none
<1> QED BY <1>1, <1>7, <1>9, <1>10 DEF TaskInv, none

LEMMA CreateKeeps == ASSUME TaskInv, NEW type \in Types, CreateTask(type) PROVE TaskInv'
<1> DEFINE e == [type |-> type, state |-> Outcome(type), runs |-> 1]
<1>1. /\ table \in Seq(Task) /\ Len(table) \in Nat /\ DOMAIN table = 1..Len(table)
      /\ Len(table) < Capacity /\ Capacity \in Nat
      /\ table' = Append(table, e)
      /\ ready' = ready /\ waiting' = waiting /\ blocked' = blocked /\ accepted' = accepted
  BY TaskAssumption, FS_CardinalityType DEF TaskInv, CreateTask, vars, Capacity
<1>2. e \in Task /\ e.runs = 1
  <2>1. Outcome(type) \in {"COMPLETED", "FAILED"}
    BY DEF Outcome
  <2> QED BY <2>1 DEF Task
<1> HIDE DEF e
<1>3. /\ table' \in Seq(Task) /\ Len(table') = Len(table) + 1
      /\ DOMAIN table' = 1..(Len(table) + 1)
      /\ \A t \in 1..Len(table) : table'[t] = table[t]
      /\ table'[Len(table) + 1] = e
  BY <1>1, <1>2
<1>4. Held' = Held
  BY <1>1 DEF Held, Lists
<1>5. \A t \in DOMAIN table' : t \in DOMAIN table \/ t = Len(table) + 1
  BY <1>1, <1>3
<1>6. Len(table) + 1 \notin Held /\ \A t \in Held : t \in DOMAIN table /\ t \in DOMAIN table'
  BY <1>1, <1>3 DEF TaskInv, HeldIsKnown
<1>7. RunsExplained'
  <2> SUFFICES ASSUME NEW t \in DOMAIN table'
               PROVE  table'[t].runs <= 2 /\ (t \in Held' => table'[t].runs = 1)
    BY DEF RunsExplained
  <2>1. CASE t \in DOMAIN table
    BY <1>1, <1>3, <1>4, <2>1 DEF TaskInv, RunsExplained
  <2>2. CASE t = Len(table) + 1
    BY <1>2, <1>3, <2>2
  <2> QED BY <1>5, <2>1, <2>2
<1>8. HeldIsKnown'
  BY <1>4, <1>6 DEF HeldIsKnown
<1> QED BY <1>1, <1>3, <1>7, <1>8 DEF TaskInv

LEMMA ScheduleKeeps ==
  ASSUME TaskInv, NEW t \in Tasks, NEW p \in Priorities, NEW s \in Sources, ScheduleTask(t, p, s)
  PROVE  TaskInv'
<1>1. /\ t <= Len(table) /\ table[t].runs = 1 /\ Submit(t, p, s) /\ table' = table
      /\ accepted' = accepted \cup {t}
  BY DEF ScheduleTask, Submit
<1>2. Good(ready', waiting', blocked', accepted')
  BY <1>1, SubmitKeeps DEF TaskInv
<1>3. Good(ready', waiting', blocked', TasksOfAll(ready, waiting, blocked) \cup {t})
  BY <1>1, GoodLists, SubmitKeeps DEF TaskInv
<1>4. Held' = TasksOfAll(ready', waiting', blocked')
  BY DEF Held, Lists, TasksOfAll
<1>5. Held' \subseteq Held \cup {t}
  BY <1>3, <1>4, HeldIs DEF Good
<1>6. t \in DOMAIN table
  <2>1. DOMAIN table = 1..Len(table) /\ Len(table) \in Nat
    BY DEF TaskInv
  <2>2. t \in 1..Capacity /\ Capacity \in Nat
    BY TaskAssumption, FS_CardinalityType DEF Capacity
  <2> QED BY <1>1, <2>1, <2>2
<1>7. HeldIsKnown' /\ RunsExplained'
  BY <1>1, <1>5, <1>6 DEF TaskInv, HeldIsKnown, RunsExplained
<1> QED BY <1>1, <1>2, <1>7 DEF TaskInv

LEMMA CancelIsSafe == ASSUME TaskInv, NEW t, Cancel(t), table' = table PROVE TaskInv'
<1>1. accepted' = accepted \ {t}
  BY DEF Cancel
<1>2. Good(ready', waiting', blocked', accepted')
  BY <1>1, CancelKeeps DEF TaskInv
<1>3. Good(ready', waiting', blocked', TasksOfAll(ready, waiting, blocked) \ {t})
  BY GoodLists, CancelKeeps DEF TaskInv
<1>4. Held' = TasksOfAll(ready', waiting', blocked')
  BY DEF Held, Lists, TasksOfAll
<1>5. Held' \subseteq Held
  BY <1>3, <1>4, HeldIs DEF Good
<1> QED BY <1>2, <1>5, TableKept

LEMMA RuntimeTickKeeps == ASSUME TaskInv, RuntimeTick PROVE TaskInv'
<1> DEFINE aged == AgedReady
           t == aged[Selected(aged)].task
<1>1. Tick /\ IF Active(aged) # {} /\ t \in DOMAIN table
              THEN table' = [table EXCEPT ![t].state = Outcome(table[t].type),
                                          ![t].runs = @ + 1]
              ELSE table' = table
  BY DEF RuntimeTick
<1>2. ASSUME NEW a, Good(ready, waiting, blocked, a)
      PROVE  IF Active(aged) = {}
             THEN accepted' = accepted /\ Good(ready', waiting', blocked', a)
             ELSE /\ t \in TasksOf(ready) /\ accepted' = accepted \ {t}
                  /\ Good(ready', waiting', blocked', a \ {t})
  BY <1>1, <1>2, DispatchKeeps
<1> HIDE DEF aged, t
<1>3. /\ Good(ready, waiting, blocked, accepted)
      /\ Good(ready, waiting, blocked, TasksOfAll(ready, waiting, blocked))
  BY GoodLists DEF TaskInv
<1>4. Good(ready', waiting', blocked', accepted')
  BY <1>2, <1>3
<1>5. Held' = TasksOfAll(ready', waiting', blocked')
  BY DEF Held, Lists, TasksOfAll
<1>6. CASE Active(aged) = {}
  <2>1. Held' \subseteq Held
    BY <1>2, <1>3, <1>5, <1>6, HeldIs DEF Good
  <2> QED BY <1>1, <1>4, <1>6, <2>1, TableKept
<1>7. CASE Active(aged) # {}
  <2>1. t \in TasksOf(ready) /\ Good(ready', waiting', blocked', TasksOfAll(ready, waiting, blocked) \ {t})
    BY <1>2, <1>3, <1>7
  <2>2. Held' \subseteq Held \ {t}
    BY <1>5, <2>1, HeldIs DEF Good
  <2>3. t \in Held
    BY <2>1, HeldIs DEF TasksOfAll
  <2>4. /\ t \in DOMAIN table /\ table[t].runs = 1 /\ table[t] \in Task
        /\ table \in Seq(Task) /\ DOMAIN table = 1..Len(table)
    BY <2>3 DEF TaskInv, HeldIsKnown, RunsExplained
  <2> DEFINE e == [table[t] EXCEPT !.state = Outcome(table[t].type), !.runs = 2]
  <2>5. table' = [table EXCEPT ![t] = e]
    <3> DEFINE done == [table EXCEPT ![t].state = Outcome(table[t].type), ![t].runs = @ + 1]
    <3>1. table' = done
      BY <1>1, <1>7, <2>4
    <3>2. done = [u \in DOMAIN table |-> done[u]] /\ \A u \in DOMAIN table : u # t => done[u] = table[u]
      OBVIOUS
    <3>3. done[t] = [table[t] EXCEPT !.state = Outcome(table[t].type), !.runs = table[t].runs + 1]
      BY <2>4 DEF Task
    <3>4. done[t] = e
      BY <2>4, <3>3
    <3> HIDE DEF done, e
    <3> QED BY <2>4, <3>1, <3>2, <3>4
  <2>6. e \in Task /\ e.runs = 2
    <3>1. Outcome(table[t].type) \in {"COMPLETED", "FAILED"}
      BY DEF Outcome
    <3> QED BY <2>4, <3>1 DEF Task
  <2> HIDE DEF e
  <2>7. /\ table' \in Seq(Task) /\ Len(table') = Len(table) /\ DOMAIN table' = DOMAIN table
        /\ table'[t] = e /\ \A u \in DOMAIN table : u # t => table'[u] = table[u]
    BY <2>4, <2>5, <2>6
  <2>8. HeldIsKnown' /\ RunsExplained'
    BY <2>2, <2>6, <2>7 DEF TaskInv, HeldIsKnown, RunsExplained
  <2>9. Len(table') <= Capacity
    BY <2>7 DEF TaskInv
  <2> QED BY <1>4, <2>7, <2>8, <2>9 DEF TaskInv
<1> QED BY <1>6, <1>7

LEMMA TaskStepHolds == TaskInv /\ [RuntimeNext]_runtimeVars => TaskInv'
<1> SUFFICES ASSUME TaskInv, [RuntimeNext]_runtimeVars PROVE TaskInv' OBVIOUS
<1>1. CASE \E type \in Types : CreateTask(type)
  BY <1>1, CreateKeeps
<1>2. CASE \E t \in Tasks, p \in Priorities, s \in Sources : ScheduleTask(t, p, s)
  BY <1>2, ScheduleKeeps
<1>3. CASE RuntimeTick
  BY <1>3, RuntimeTickKeeps
<1>4. CASE table' = table /\ \E t \in Tasks : Cancel(t)
  BY <1>4, CancelIsSafe
<1>5. CASE table' = table /\ \E t \in Tasks : Wake(t)
  <2>1. accepted' = accepted
    BY <1>5 DEF Wake
  <2> QED BY <1>5, <2>1, WakeKeeps, CallsKeep
<1>6. CASE table' = table /\ \E t \in Tasks : Block(t) \/ Wait(t)
  <2>1. accepted' = accepted
    BY <1>6 DEF Block, Wait
  <2> QED BY <1>6, <2>1, SetAsideKeeps, CallsKeep
<1>7. CASE table' = table /\ \E t \in Tasks : \E p \in Priorities : SetPriority(t, p)
  <2>1. accepted' = accepted
    BY <1>7 DEF SetPriority
  <2> QED BY <1>7, <2>1, PriorityKeeps, CallsKeep
<1>8. CASE table' = table /\ Elapse
  <2>1. accepted' = accepted
    BY <1>8 DEF Elapse
  <2> QED BY <1>8, <2>1, ElapseKeeps, CallsKeep
<1>9. CASE UNCHANGED runtimeVars
  <2>1. /\ ready' = ready /\ waiting' = waiting /\ blocked' = blocked
        /\ accepted' = accepted /\ table' = table
    BY <1>9 DEF runtimeVars, vars
  <2> QED BY <2>1, CallsKeep
<1> QED BY <1>1, <1>2, <1>3, <1>4, <1>5, <1>6, <1>7, <1>8, <1>9 DEF RuntimeNext

(* Whatever is submitted, cancelled, blocked, woken, aged and run, in any  *)
(* order: a task is in one place of one list, no source has more than its  *)
(* quota, only what was accepted is held, and what is held is known to the *)
(* manager and has run once.                                               *)
THEOREM TasksHold == CoreSpec => []TasksSafe
<1>1. CoreInit => TaskInv
  BY TaskInitHolds DEF CoreInit
<1>2. TaskInv /\ [CoreNext]_<<runtimeVars, upVars, outVars, manager>> => TaskInv'
  <2> SUFFICES ASSUME TaskInv, [CoreNext]_<<runtimeVars, upVars, outVars, manager>>
               PROVE  TaskInv'
    OBVIOUS
  <2>1. [RuntimeNext]_runtimeVars
    BY Zenon DEF CoreNext
  <2> QED BY <2>1, TaskStepHolds
<1>3. TaskInv => TasksSafe
  BY GoodIsSafe DEF TaskInv, TasksSafe, RuntimeSafe, RuntimeTypeOK
<1> QED BY <1>1, <1>2, <1>3, PTL DEF CoreSpec

-----------------------------------------------------------------------------
(* Where entries come from, and how they change                            *)

NoLower(e, d) ==
  /\ e \in Entry /\ d \in Entry
  /\ d.task = e.task /\ d.base = e.base /\ d.boost >= e.boost
ComesFrom(D, E) == \A d \in D : \E e \in E : NoLower(e, d)

LEMMA NoLowerStays ==
  ASSUME NEW e, NEW d, NoLower(e, d)
  PROVE  ~(EffectivePriority(d) < EffectivePriority(e))
<1>1. e.base \in Priorities /\ e.boost \in 0..MaxBoost /\ d.boost \in 0..MaxBoost
      /\ d.base = e.base /\ d.boost >= e.boost
  BY DEF NoLower, Entry
<1>2. Priorities \subseteq 0..CRITICAL /\ MaxBoost \in Nat /\ CRITICAL = 4
  BY SchedulerAssumption DEF CRITICAL
<1>3. e.base \in Nat
  <2>1. e.base \in 0..CRITICAL
    BY <1>1, <1>2
  <2> QED BY <1>2, <2>1
<1>4. e.boost \in Nat /\ d.boost \in Nat
  BY <1>1, <1>2
<1> QED BY <1>1, <1>2, <1>3, <1>4 DEF EffectivePriority

LEMMA ItselfIsNoLower ==
  ASSUME NEW E \in SUBSET Entry, NEW D \in SUBSET E
  PROVE  ComesFrom(D, E)
<1>1. \A d \in D : NoLower(d, d)
  <2>1. \A d \in D : d \in Entry /\ d.boost \in Nat
    BY SchedulerAssumption DEF Entry
  <2> QED BY <2>1 DEF NoLower
<1> QED BY <1>1 DEF ComesFrom

LEMMA EntriesTyped == ASSUME NEW list \in Seq(Place) PROVE Entries(list) \subseteq Entry
BY PlacesOf DEF Entries

LEMMA RemovedFrom ==
  ASSUME NEW list \in Seq(Place), NEW i \in Active(list)
  PROVE  Entries(RemoveEntry(list, i)) \subseteq Entries(list)
<1> DEFINE cut == [list EXCEPT ![i] = Hole]
           r == Compact(cut)
<1>1. /\ Len(list) \in Nat /\ DOMAIN list = 1..Len(list) /\ i \in 1..Len(list)
  BY PlacesOf
<1>2. cut \in Seq(Place) /\ Len(cut) = Len(list) /\ DOMAIN cut = 1..Len(list) /\ cut[i] = Hole
      /\ \A j \in 1..Len(list) : j # i => cut[j] = list[j]
  BY <1>1 DEF Place
<1> HIDE DEF cut
<1>3. PackedTo(cut, Len(cut), r)
  BY <1>2, CompactIs
<1> HIDE DEF r
<1>4. \A k \in 1..Len(r) : \E j \in 1..Len(list) : cut[j] # Hole /\ r[k] = cut[j]
  BY <1>2, <1>3 DEF PackedTo
<1>5. \A k \in 1..Len(r) : \E j \in Active(list) : r[k] = list[j]
  BY <1>1, <1>2, <1>4 DEF Active
<1>6. DOMAIN r = 1..Len(r)
  BY <1>3 DEF PackedTo
<1>7. \A k \in Active(r) : r[k] \in Entries(list)
  BY <1>5, <1>6 DEF Active, Entries
<1> QED BY <1>7 DEF Entries, RemoveEntry, r, cut

LEMMA InsertedInto ==
  ASSUME NEW list \in Seq(Place), NEW e \in Place
  PROVE  Entries(Insert(list, e)) \subseteq Entries(list) \cup ({e} \ {Hole})
<1>1. PICK r : r = Insert(list, e)
  OBVIOUS
<1>2. PICK i \in 1..(Len(list) + 1) :
        /\ r \in Seq(Place) /\ Len(r) = Len(list) + 1 /\ r[i] = e
        /\ \A k \in 1..(Len(list) + 1) : k # i => r[k] = Hole \/ (k \in Active(list) /\ r[k] = list[k])
  BY <1>1, InsertedAt
<1>3. DOMAIN r = 1..(Len(list) + 1)
  BY <1>2
<1>4. \A k \in Active(r) : r[k] # Hole /\ (r[k] = e \/ r[k] \in Entries(list))
  BY <1>2, <1>3 DEF Active, Entries
<1> QED BY <1>1, <1>4 DEF Entries

LEMMA OneEntryEach ==
  ASSUME NEW a, Good(ready, waiting, blocked, a)
  PROVE  /\ HeldEntries \subseteq Entry
         /\ \A e, d \in HeldEntries : e.task = d.task => e = d
         /\ \A e \in HeldEntries : e.task \in Held
<1>1. /\ ready \in Seq(Place) /\ waiting \in Seq(Place) /\ blocked \in Seq(Place)
      /\ Distinct(ready) /\ Distinct(waiting) /\ Distinct(blocked)
      /\ Apart(ready, waiting) /\ Apart(ready, blocked) /\ Apart(waiting, blocked)
  BY DEF Good, Placed, Fits
<1>2. HeldEntries \subseteq Entry
  BY <1>1, EntriesTyped DEF HeldEntries
<1>3. \A list \in Lists : \A e \in Entries(list) : e.task \in TasksOf(list)
  BY DEF TasksOf
<1>4. \A list \in Lists : \A e, d \in Entries(list) : e.task = d.task => e = d
  <2> SUFFICES ASSUME NEW list \in Lists PROVE \A e, d \in Entries(list) : e.task = d.task => e = d
    OBVIOUS
  <2>1. Distinct(list)
    BY <1>1 DEF Lists
  <2> QED BY <2>1 DEF Entries, Distinct
<1>5. ready \in Lists /\ waiting \in Lists /\ blocked \in Lists
  BY DEF Lists
<1>6. \A e, d \in HeldEntries : e.task = d.task => e = d
  BY <1>1, <1>3, <1>4, <1>5 DEF HeldEntries, Apart
<1>7. \A e \in HeldEntries : e.task \in Held
  BY <1>3, <1>5 DEF HeldEntries, Held
<1> QED BY <1>2, <1>6, <1>7
(* What is held after a step was held before, no higher, or is new.        *)
Climbs == \A d \in HeldEntries' : d.task \in Held => \E e \in HeldEntries : NoLower(e, d)

NewIsNoLower(New) == \A d \in New : d.task \in Held => \E e \in HeldEntries : NoLower(e, d)

LEMMA FewerClimb ==
  ASSUME HeldEntries \subseteq Entry, NEW New, HeldEntries' \subseteq HeldEntries \cup New, NewIsNoLower(New)
  PROVE  Climbs
<1>1. ComesFrom(HeldEntries, HeldEntries)
  BY ItselfIsNoLower
<1> QED BY <1>1 DEF Climbs, ComesFrom, NewIsNoLower

LEMMA ResetIsNoLower ==
  ASSUME NEW e \in Entry
  PROVE  NoLower(e, [e EXCEPT !.waited = 0]) /\ [e EXCEPT !.waited = 0] \in Place
<1>1. 0 \in 0..AgeCap /\ e.boost \in Nat
  BY SchedulerAssumption DEF AgeCap, Entry
<1>2. PICK d : d = [e EXCEPT !.waited = 0]
  OBVIOUS
<1>3. d \in Entry /\ d.task = e.task /\ d.base = e.base /\ d.boost = e.boost
  BY <1>1, <1>2 DEF Entry
<1> QED BY <1>1, <1>2, <1>3 DEF NoLower, Place

LEMMA SubmitClimbs ==
  ASSUME NEW a, Good(ready, waiting, blocked, a),
         NEW t \in Tasks, NEW p \in Priorities, NEW s \in Sources, Submit(t, p, s)
  PROVE  Climbs
<1>1. PICK e : e = [task |-> t, source |-> s, base |-> p, boost |-> 0, age |-> 0, waited |-> 0]
  OBVIOUS
<1>2. e \in Place /\ e.task = t
  <2>1. 0 \in 0..MaxBoost /\ 0 \in 0..AgeCap /\ 0 \in 0..(AgeCap + Cardinality(Tasks))
    BY SchedulerAssumption, TaskAssumption, FS_CardinalityType DEF AgeCap
  <2> QED BY <1>1, <2>1 DEF Entry, Place
<1>3. t \notin Held /\ ready' = Insert(ready, e) /\ waiting' = waiting /\ blocked' = blocked
  BY <1>1 DEF Submit
<1>4. Entries(ready)' \subseteq Entries(ready) \cup {e}
  <2>1. Entries(Insert(ready, e)) \subseteq Entries(ready) \cup ({e} \ {Hole})
    BY <1>2, GoodLists, InsertedInto
  <2> QED BY <1>3, <2>1 DEF Entries, Active
<1>5. HeldEntries' \subseteq HeldEntries \cup {e}
  BY <1>3, <1>4 DEF HeldEntries, Entries, Active
<1>6. NewIsNoLower({e}) /\ HeldEntries \subseteq Entry
  BY <1>2, <1>3, OneEntryEach DEF NewIsNoLower
<1> QED BY <1>5, <1>6, FewerClimb

LEMMA CancelClimbs ==
  ASSUME NEW a, Good(ready, waiting, blocked, a), NEW t, Cancel(t)
  PROVE  Climbs
<1>1. ASSUME NEW list \in Seq(Place), t \in TasksOf(list)
      PROVE  Entries(RemoveEntry(list, IndexOf(list, t))) \subseteq Entries(list)
  BY <1>1, IndexIs, RemovedFrom
<1>2. /\ Entries(ready') \subseteq Entries(ready) /\ Entries(waiting') \subseteq Entries(waiting)
      /\ Entries(blocked') \subseteq Entries(blocked)
  BY <1>1, GoodLists DEF Cancel
<1>3. HeldEntries' \subseteq HeldEntries \cup {}
  BY <1>2 DEF HeldEntries, Entries, Active
<1>4. NewIsNoLower({}) /\ HeldEntries \subseteq Entry
  BY OneEntryEach DEF NewIsNoLower
<1> QED BY <1>3, <1>4, FewerClimb

(* What block and wait take over, reset.                                   *)
LEMMA AsideClimbs ==
  ASSUME NEW a, Good(ready, waiting, blocked, a), NEW t, Block(t) \/ Wait(t)
  PROVE  Climbs
<1> USE GoodLists
<1>1. t \in TasksOf(ready)
  BY DEF Block, Wait
<1>2. PICK i : i = IndexOf(ready, t)
  OBVIOUS
<1>3. i \in Active(ready) /\ ready[i] \in Entry /\ ready[i] \in HeldEntries
  BY <1>1, <1>2, IndexIs, PlacesOf DEF HeldEntries, Entries
<1>4. PICK d : d = [ready[i] EXCEPT !.waited = 0]
  OBVIOUS
<1>5. NoLower(ready[i], d) /\ d \in Place
  BY <1>3, <1>4, ResetIsNoLower
<1>6. Entries(RemoveEntry(ready, i)) \subseteq Entries(ready)
  BY <1>3, RemovedFrom
<1>7. /\ Entries(Insert(waiting, d)) \subseteq Entries(waiting) \cup {d}
      /\ Entries(Insert(blocked, d)) \subseteq Entries(blocked) \cup {d}
  BY <1>5, InsertedInto
<1>8. /\ ready' = RemoveEntry(ready, i)
      /\ \/ waiting' = Insert(waiting, d) /\ blocked' = blocked
         \/ waiting' = waiting /\ blocked' = Insert(blocked, d)
  BY <1>2, <1>4 DEF Block, Wait
<1>9. /\ Entries(ready') \subseteq Entries(ready) /\ Entries(waiting') \subseteq Entries(waiting) \cup {d}
      /\ Entries(blocked') \subseteq Entries(blocked) \cup {d}
  BY <1>6, <1>7, <1>8
<1>10. HeldEntries' \subseteq HeldEntries \cup {d}
  BY <1>9 DEF HeldEntries, Entries, Active
<1>11. NewIsNoLower({d}) /\ HeldEntries \subseteq Entry
  BY <1>3, <1>5, OneEntryEach DEF NewIsNoLower
<1> QED BY <1>10, <1>11, FewerClimb

(* A woken entry, or the one that came into its place, or none at all.     *)
Woken(list, r2, l2, New) ==
  /\ Entries(r2) \subseteq Entries(ready) \cup New /\ Entries(l2) \subseteq Entries(list)
  /\ \A d \in New : \E e \in Entries(list) : NoLower(e, d)

LEMMA WakeFromClimbs ==
  ASSUME ready \in Seq(Place), NEW list \in Seq(Place), Distinct(list), NEW t \in TasksOf(list),
         NEW r2, NEW l2, WakeFrom(list, IndexOf(list, t), r2, l2)
  PROVE  \E New : Woken(list, r2, l2, New)
<1>1. PICK i, packed : i = IndexOf(list, t) /\ packed = RemoveEntry(list, i)
  OBVIOUS
<1>2. i \in Active(list) /\ i \in 1..Len(list) /\ i \in Nat
  <2>1. i \in Active(list)
    BY <1>1, IndexIs
  <2> QED BY <2>1, PlacesOf
<1>3. packed \in Seq(Place) /\ Active(packed) = 1..Len(packed) /\ Entries(packed) \subseteq Entries(list)
  BY <1>1, <1>2, RemoveIs, RemovedFrom
<1>4. Len(packed) \in Nat /\ DOMAIN packed = 1..Len(packed) /\ Len(ready) \in Nat /\ MaxReady \in Nat
  BY <1>3, PlacesOf, SchedulerAssumption
<1>5. CASE Len(ready) >= MaxReady
  <2>1. r2 = ready /\ l2 = packed
    BY <1>1, <1>5 DEF WakeFrom
  <2>2. Woken(list, r2, l2, {})
    BY <1>3, <2>1 DEF Woken
  <2> QED BY <2>2
<1>6. CASE ~(Len(ready) >= MaxReady) /\ ~(i <= Len(packed))
  <2>1. r2 = Insert(ready, Hole) /\ l2 = packed
    BY <1>1, <1>6 DEF WakeFrom
  <2>2. Hole \in Place
    BY DEF Place
  <2>3. Entries(r2) \subseteq Entries(ready) \cup {} /\ Entries(l2) \subseteq Entries(list)
    BY <1>3, <2>1, <2>2, InsertedInto
  <2>4. Woken(list, r2, l2, {})
    BY <2>3 DEF Woken
  <2> QED BY <2>4
<1>7. CASE ~(Len(ready) >= MaxReady) /\ i <= Len(packed)
  <2>1. PICK d, cut : d = [packed[i] EXCEPT !.waited = 0] /\ cut = [packed EXCEPT ![i] = Hole]
    OBVIOUS
  <2>2. r2 = Insert(ready, d) /\ l2 = cut
    BY <1>1, <1>7, <2>1 DEF WakeFrom
  <2>3. i \in Active(packed) /\ i \in 1..Len(packed)
    BY <1>2, <1>3, <1>4, <1>7
  <2>4. packed[i] \in Entry /\ packed[i] \in Entries(list)
    BY <1>3, <2>3, PlacesOf DEF Entries
  <2>5. NoLower(packed[i], d) /\ d \in Place
    BY <2>1, <2>4, ResetIsNoLower
  <2>6. Entries(r2) \subseteq Entries(ready) \cup {d}
    BY <2>2, <2>5, InsertedInto
  <2>7. DOMAIN cut = DOMAIN packed /\ cut[i] = Hole /\ \A k \in DOMAIN packed : k # i => cut[k] = packed[k]
    BY <1>4, <2>1, <2>3
  <2>8. \A k \in Active(cut) : k \in Active(packed) /\ cut[k] = packed[k]
    BY <2>7 DEF Active
  <2>9. Entries(cut) \subseteq Entries(packed)
    BY <2>8 DEF Entries
  <2>10. \A e \in {d} : \E f \in Entries(list) : NoLower(f, e)
    BY <2>4, <2>5
  <2>11. Entries(l2) \subseteq Entries(list)
    BY <1>3, <2>2, <2>9
  <2>12. Woken(list, r2, l2, {d})
    BY <2>6, <2>10, <2>11 DEF Woken
  <2> QED BY <2>12
<1> QED BY <1>5, <1>6, <1>7

LEMMA WakeClimbs ==
  ASSUME NEW a, Good(ready, waiting, blocked, a), NEW t, Wake(t)
  PROVE  Climbs
<1>1. /\ ready \in Seq(Place) /\ waiting \in Seq(Place) /\ blocked \in Seq(Place)
      /\ Distinct(waiting) /\ Distinct(blocked) /\ HeldEntries \subseteq Entry
  BY GoodLists, OneEntryEach
<1>2. CASE /\ t \in TasksOf(waiting) /\ blocked' = blocked
           /\ WakeFrom(waiting, IndexOf(waiting, t), ready', waiting')
  <2>1. PICK New : Woken(waiting, ready', waiting', New)
    BY <1>1, <1>2, WakeFromClimbs
  <2>2. HeldEntries' \subseteq HeldEntries \cup New
    BY <1>2, <2>1 DEF Woken, HeldEntries, Entries, Active
  <2>3. NewIsNoLower(New)
    BY <2>1 DEF Woken, NewIsNoLower, HeldEntries
  <2> QED BY <1>1, <2>2, <2>3, FewerClimb
<1>3. CASE /\ t \in TasksOf(blocked) /\ waiting' = waiting
           /\ WakeFrom(blocked, IndexOf(blocked, t), ready', blocked')
  <2>1. PICK New : Woken(blocked, ready', blocked', New)
    BY <1>1, <1>3, WakeFromClimbs
  <2>2. HeldEntries' \subseteq HeldEntries \cup New
    BY <1>3, <2>1 DEF Woken, HeldEntries, Entries, Active
  <2>3. NewIsNoLower(New)
    BY <2>1 DEF Woken, NewIsNoLower, HeldEntries
  <2> QED BY <1>1, <2>2, <2>3, FewerClimb
<1> QED BY <1>2, <1>3 DEF Wake
LEMMA BoostedClimbs ==
  ASSUME NEW e \in Entry, NEW elapsed \in Nat
  PROVE  NoLower(e, Boosted(e, elapsed))
<1>1. PICK earned : earned = IF elapsed \div Interval > MaxBoost THEN MaxBoost ELSE elapsed \div Interval
  OBVIOUS
<1>2. earned \in Int /\ earned <= MaxBoost /\ MaxBoost \in Nat
  BY <1>1, SchedulerAssumption
<1>3. e.boost \in 0..MaxBoost
  BY DEF Entry
<1>4. CASE earned > e.boost
  <2>1. PICK d : d = [e EXCEPT !.boost = earned]
    OBVIOUS
  <2>2. Boosted(e, elapsed) = d
    BY <1>1, <1>4, <2>1 DEF Boosted
  <2>3. earned \in 0..MaxBoost
    BY <1>2, <1>3, <1>4
  <2>4. d \in Entry /\ d.task = e.task /\ d.base = e.base /\ d.boost = earned
    BY <2>1, <2>3 DEF Entry
  <2>5. d.boost >= e.boost
    BY <1>2, <1>3, <1>4, <2>4
  <2> QED BY <2>2, <2>4, <2>5 DEF NoLower
<1>5. CASE ~(earned > e.boost)
  <2>1. Boosted(e, elapsed) = e
    BY <1>1, <1>5 DEF Boosted
  <2>2. e.boost >= e.boost
    BY <1>2, <1>3
  <2> QED BY <2>1, <2>2 DEF NoLower
<1> QED BY <1>4, <1>5

LEMMA PlaceByPlace ==
  ASSUME NEW list, NEW other, DOMAIN other = DOMAIN list,
         \A i \in DOMAIN list : IF list[i] = Hole THEN other[i] = Hole ELSE NoLower(list[i], other[i])
  PROVE  ComesFrom(Entries(other), Entries(list))
<1>1. \A i \in Active(other) : i \in Active(list) /\ NoLower(list[i], other[i])
  BY DEF Active
<1> QED BY <1>1 DEF ComesFrom, Entries

LEMMA AgedClimbs ==
  ASSUME NEW list \in Seq(Place), NEW aged,
         \/ aged = [i \in DOMAIN list |-> IF list[i] = Hole THEN Hole
                                          ELSE Boosted(list[i], list[i].age)]
         \/ aged = [i \in DOMAIN list |-> IF list[i] = Hole THEN Hole
                                          ELSE Boosted(list[i], list[i].waited)]
  PROVE  ComesFrom(Entries(aged), Entries(list))
<1>1. \A i \in DOMAIN list : list[i] # Hole => list[i] \in Entry
  BY PlacesOf DEF Active
<1>2. \A e \in Entry : e.age \in Nat /\ e.waited \in Nat
  BY SchedulerAssumption, TaskAssumption, FS_CardinalityType DEF Entry, AgeCap
<1>3. ASSUME NEW i \in DOMAIN list
      PROVE  IF list[i] = Hole THEN aged[i] = Hole ELSE NoLower(list[i], aged[i])
  <2>1. list[i] # Hole => NoLower(list[i], Boosted(list[i], list[i].age)) /\ NoLower(list[i], Boosted(list[i], list[i].waited))
    BY <1>1, <1>2, BoostedClimbs
  <2> QED BY <2>1
<1> QED BY <1>3, PlaceByPlace

LEMMA GrownClimbs ==
  ASSUME Placed(ready, waiting, blocked), NEW list \in Seq(Place)
  PROVE  ComesFrom(Entries(Grow(list)), Entries(list))
<1>1. PICK grown : grown = Grow(list)
  OBVIOUS
<1>2. grown = [i \in DOMAIN list |->
                 IF list[i] = Hole THEN Hole
                 ELSE [list[i] EXCEPT !.age = Older(list[i].age),
                        !.waited = IF list[i].waited < AgeCap THEN list[i].waited + 1
                                   ELSE list[i].waited]]
  BY <1>1 DEF Grow
<1>3. \A i \in DOMAIN list : list[i] # Hole => list[i] \in Entry
  BY PlacesOf DEF Active
<1>4. ASSUME NEW i \in DOMAIN list, list[i] # Hole PROVE NoLower(list[i], grown[i])
  <2>1. PICK e, late, old : /\ e = list[i] /\ old = Older(e.age)
                            /\ late = IF e.waited < AgeCap THEN e.waited + 1 ELSE e.waited
    OBVIOUS
  <2>2. grown[i] = [e EXCEPT !.age = old, !.waited = late]
    BY <1>2, <1>4, <2>1
  <2>3. e \in Entry
    BY <1>3, <1>4, <2>1
  <2>4. e.age \in 0..(AgeCap + Cardinality(Tasks)) /\ e.waited \in 0..AgeCap /\ AgeCap \in Nat
        /\ e.boost \in Nat
    BY <2>3, SchedulerAssumption DEF Entry, AgeCap
  <2>5. old \in 0..(AgeCap + Cardinality(Tasks)) /\ late \in 0..AgeCap
    BY <2>1, <2>4, OldEnough
  <2>6. PICK d : d = [e EXCEPT !.age = old, !.waited = late]
    OBVIOUS
  <2>7. d \in Entry /\ d.task = e.task /\ d.base = e.base /\ d.boost = e.boost
    BY <2>3, <2>5, <2>6 DEF Entry
  <2>8. NoLower(e, d)
    BY <2>3, <2>4, <2>7 DEF NoLower
  <2> QED BY <2>1, <2>2, <2>6, <2>8
<1>5. DOMAIN grown = DOMAIN list /\ \A i \in DOMAIN list : list[i] = Hole => grown[i] = Hole
  BY <1>2
<1>6. ComesFrom(Entries(grown), Entries(list))
  BY <1>4, <1>5, PlaceByPlace
<1> QED BY <1>1, <1>6

LEMMA ListsClimb ==
  ASSUME NEW a, Good(ready, waiting, blocked, a),
         ComesFrom(Entries(ready'), Entries(ready)), ComesFrom(Entries(waiting'), Entries(waiting)),
         ComesFrom(Entries(blocked'), Entries(blocked))
  PROVE  Climbs
<1>1. \A d \in HeldEntries' : d \in Entries(ready') \/ d \in Entries(waiting') \/ d \in Entries(blocked')
  BY DEF HeldEntries, Entries, Active
<1> QED BY <1>1 DEF Climbs, ComesFrom, HeldEntries

LEMMA TickClimbs ==
  ASSUME NEW a, Good(ready, waiting, blocked, a), Tick
  PROVE  Climbs
<1>1. PICK aged, late : aged = AgedReady /\ late = AgedWaiting
  OBVIOUS
<1>2. aged = [i \in DOMAIN ready |-> IF ready[i] = Hole THEN Hole ELSE Boosted(ready[i], ready[i].age)]
  BY <1>1 DEF AgedReady, Aged
<1>3. late = [i \in DOMAIN waiting |-> IF waiting[i] = Hole THEN Hole ELSE Boosted(waiting[i], waiting[i].waited)]
  BY <1>1 DEF AgedWaiting, Aged
<1>4. ComesFrom(Entries(aged), Entries(ready)) /\ ComesFrom(Entries(late), Entries(waiting))
      /\ ComesFrom(Entries(blocked), Entries(blocked))
  <2>1. ready \in Seq(Place) /\ waiting \in Seq(Place) /\ blocked \in Seq(Place)
    BY GoodLists
  <2>2. ComesFrom(Entries(blocked), Entries(blocked))
    BY <2>1, EntriesTyped, ItselfIsNoLower
  <2> QED BY <1>2, <1>3, <2>1, <2>2, AgedClimbs
<1>5. aged \in Seq(Place)
  <2>1. Alike(ready, aged)
    BY <1>2, GoodLists, AgedIs
  <2> QED BY <2>1 DEF Alike
<1>6. waiting' = late /\ blocked' = blocked /\ DispatchFrom(aged)
  BY <1>1 DEF Tick
<1>7. Entries(ready') \subseteq Entries(aged)
  <2>1. CASE Active(aged) = {}
    BY <1>6, <2>1 DEF DispatchFrom
  <2>2. CASE Active(aged) # {}
    <3>1. ready' = RemoveEntry(aged, Selected(aged)) /\ Selected(aged) \in Active(aged)
      BY <1>5, <1>6, <2>2, SelectedIs DEF DispatchFrom
    <3> QED BY <1>5, <3>1, RemovedFrom
  <2> QED BY <2>1, <2>2
<1>8. ComesFrom(Entries(ready'), Entries(ready))
  BY <1>4, <1>7 DEF ComesFrom
<1>9. ComesFrom(Entries(waiting'), Entries(waiting)) /\ ComesFrom(Entries(blocked'), Entries(blocked))
  BY <1>4, <1>6
<1> QED BY <1>8, <1>9, ListsClimb

LEMMA ElapseClimbs ==
  ASSUME NEW a, Good(ready, waiting, blocked, a), Elapse
  PROVE  Climbs
<1>1. Placed(ready, waiting, blocked) /\ ready \in Seq(Place) /\ waiting \in Seq(Place) /\ blocked \in Seq(Place)
  BY GoodLists DEF Good
<1>2. /\ ComesFrom(Entries(ready'), Entries(ready)) /\ ComesFrom(Entries(waiting'), Entries(waiting))
      /\ ComesFrom(Entries(blocked'), Entries(blocked))
  BY <1>1, GrownClimbs DEF Elapse
<1> QED BY <1>2, ListsClimb

LEMMA PriorityClimbs ==
  ASSUME NEW a, Good(ready, waiting, blocked, a), NEW t, NEW p \in Priorities, SetPriority(t, p)
  PROVE  \A d \in HeldEntries' : d.task # t => d \in HeldEntries
<1>1. ASSUME NEW list \in Seq(Place), t \in TasksOf(list), NEW d \in Entries(Reprioritise(list, t, p)), d.task # t
      PROVE  d \in Entries(list)
  <2>1. PICK i, e : i = IndexOf(list, t) /\ e = [list[i] EXCEPT !.base = p, !.boost = 0]
    OBVIOUS
  <2>2. Reprioritise(list, t, p) = [list EXCEPT ![i] = e]
    BY <2>1 DEF Reprioritise
  <2>3. i \in Active(list) /\ list[i].task = t /\ list[i] \in Entry /\ i \in DOMAIN list
    BY <1>1, <2>1, IndexIs, PlacesOf
  <2>4. e.task = t
    BY <2>1, <2>3 DEF Entry
  <2>5. PICK other : other = [list EXCEPT ![i] = e]
    OBVIOUS
  <2>6. DOMAIN other = DOMAIN list /\ other[i] = e /\ \A k \in DOMAIN list : k # i => other[k] = list[k]
    BY <2>3, <2>5
  <2>7. PICK k \in DOMAIN other : other[k] = d /\ d # Hole
    BY <1>1, <2>2, <2>5 DEF Entries, Active
  <2>8. k # i
    BY <1>1, <2>4, <2>6, <2>7
  <2> QED BY <2>6, <2>7, <2>8 DEF Entries, Active
<1>2. \A d \in HeldEntries' : d \in Entries(ready') \/ d \in Entries(waiting') \/ d \in Entries(blocked')
  BY DEF HeldEntries, Entries, Active
<1>3. ready \in Seq(Place) /\ waiting \in Seq(Place) /\ blocked \in Seq(Place)
  BY GoodLists
<1>4. \A d \in Entries(ready') : d.task # t => d \in Entries(ready)
  BY <1>1, <1>3 DEF SetPriority
<1>5. \A d \in Entries(waiting') : d.task # t => d \in Entries(waiting)
  BY <1>1, <1>3 DEF SetPriority
<1>6. \A d \in Entries(blocked') : d.task # t => d \in Entries(blocked)
  BY <1>1, <1>3 DEF SetPriority
<1> QED BY <1>2, <1>4, <1>5, <1>6 DEF HeldEntries
(* The step of AgingOnlyRaises.                                            *)
Raises ==
  \A e \in HeldEntries, d \in HeldEntries' :
    d.task = e.task /\ EffectivePriority(d) < EffectivePriority(e)
      => d.base # e.base \/ \E p \in Priorities : SetPriority(e.task, p)

LEMMA ClimbsRaises == ASSUME TaskInv, Climbs PROVE Raises
<1> SUFFICES ASSUME NEW e \in HeldEntries, NEW d \in HeldEntries', d.task = e.task
             PROVE  ~(EffectivePriority(d) < EffectivePriority(e))
  BY DEF Raises
<1>1. /\ \A f \in HeldEntries : f.task = e.task => f = e
      /\ e.task \in Held
  BY OneEntryEach DEF TaskInv
<1>2. PICK f \in HeldEntries : NoLower(f, d)
  BY <1>1 DEF Climbs
<1>3. NoLower(e, d)
  BY <1>1, <1>2 DEF NoLower
<1> QED BY <1>3, NoLowerStays

LEMMA PriorityRaises == ASSUME TaskInv, NEW t, NEW p \in Priorities, SetPriority(t, p) PROVE Raises
<1> SUFFICES ASSUME NEW e \in HeldEntries, NEW d \in HeldEntries', d.task = e.task,
                    EffectivePriority(d) < EffectivePriority(e), d.task # t
             PROVE  FALSE
  BY DEF Raises
<1>1. d \in HeldEntries
  BY PriorityClimbs DEF TaskInv
<1>2. d = e /\ e \in Entry /\ HeldEntries \subseteq Entry
  BY <1>1, OneEntryEach DEF TaskInv
<1>3. NoLower(e, d)
  <2>1. e.boost \in Nat
    BY <1>2, SchedulerAssumption DEF Entry
  <2> QED BY <1>2, <2>1 DEF NoLower
<1> QED BY <1>3, NoLowerStays

LEMMA TaskStepRaises == TaskInv /\ [RuntimeNext]_runtimeVars => [Raises]_vars
<1> SUFFICES ASSUME TaskInv, RuntimeNext, ~UNCHANGED vars PROVE Raises
  BY DEF runtimeVars, vars
<1>1. CASE \E t \in Tasks, p \in Priorities, s \in Sources : ScheduleTask(t, p, s)
  BY <1>1, SubmitClimbs, ClimbsRaises DEF TaskInv, ScheduleTask
<1>2. CASE RuntimeTick
  BY <1>2, TickClimbs, ClimbsRaises DEF TaskInv, RuntimeTick
<1>3. CASE \E t \in Tasks : Cancel(t) \/ Wake(t) \/ Block(t) \/ Wait(t)
  BY <1>3, CancelClimbs, WakeClimbs, AsideClimbs, ClimbsRaises DEF TaskInv
<1>4. CASE \E t \in Tasks, p \in Priorities : SetPriority(t, p)
  BY <1>4, PriorityRaises
<1>5. CASE Elapse
  BY <1>5, ElapseClimbs, ClimbsRaises DEF TaskInv
<1>6. CASE \E type \in Types : CreateTask(type)
  BY <1>6 DEF CreateTask, vars
<1> QED BY <1>1, <1>2, <1>3, <1>4, <1>5, <1>6 DEF RuntimeNext

(* While a task is held, on whatever list and however it is moved between  *)
(* them, its effective priority drops only when set_priority gives it      *)
(* another (scheduler.c, apply_aging; submit, cancel, wake, block, wait,   *)
(* dispatch).                                                              *)
THEOREM AgingRaises == CoreSpec => AgingOnlyRaises
<1>1. CoreInit => TaskInv
  BY TaskInitHolds DEF CoreInit
<1>2. TaskInv /\ [CoreNext]_<<runtimeVars, upVars, outVars, manager>> => TaskInv' /\ [Raises]_vars
  <2> SUFFICES ASSUME TaskInv, [CoreNext]_<<runtimeVars, upVars, outVars, manager>>
               PROVE  TaskInv' /\ [Raises]_vars
    OBVIOUS
  <2>1. [RuntimeNext]_runtimeVars
    BY Zenon DEF CoreNext
  <2> QED BY <2>1, TaskStepHolds, TaskStepRaises
<1>3. [Raises]_vars => [\A e \in HeldEntries, d \in HeldEntries' :
       d.task = e.task /\ EffectivePriority(d) < EffectivePriority(e)
         => d.base # e.base \/ \E p \in Priorities : SetPriority(e.task, p)]_vars
  BY DEF Raises
<1> QED BY <1>1, <1>2, <1>3, PTL DEF CoreSpec, AgingOnlyRaises
=============================================================================
