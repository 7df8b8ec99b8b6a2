------------------------------ MODULE CMapProofs ------------------------------
(***************************************************************************)
(* Proofs about CMap, for any keys, any hash function, any initial size    *)
(* and any length of chains: a key has one slot, and locators implement    *)
(* Dictionary.                                                             *)
(*                                                                         *)
(* Two things are assumed.  A service is not set after another one was     *)
(* removed, as in the run-time, which never removes any: put would take the*)
(* free slot.  And set is called less often than dzn_map_length can count. *)
(***************************************************************************)
EXTENDS CMap, ListProofs, FiniteSetTheorems

Elem == [key : Key, data : Value]

-------------------------------------------------------------------------------
(***************************************************************************)
(* The inductive invariant.                                                *)
(***************************************************************************)

\* Every element is where get looks for it.
InChain(m) ==
  \A s \in Slots(m) : InUse(m, s) => \E i \in 1..MaxChainLength : Probe(m, m.data[s].key, i) = s

\* The slots that are probed before that of an element are in use: a put of its key
\* gets to it.
NoHole(m) ==
  \A s \in Slots(m) : InUse(m, s) =>
    \E i \in 1..MaxChainLength :
      /\ Probe(m, m.data[s].key, i) = s
      /\ \A j \in 1..i-1 : InUse(m, Probe(m, m.data[s].key, j))

MapInv == \A l \in Locator : InChain(services[l]) /\ (~removed => NoHole(services[l]))

\* The elements that a rehash or a clone has still to put have keys of their own that
\* are not in the table.  Only the last one, which set is called with, may replace one.
TodoInv ==
  /\ \A i, j \in 1..Len(todo) : i < j /\ todo[i].key = todo[j].key => j = Len(todo)
  /\ \A i \in 1..Len(todo) : \A s \in Slots(services[self]) :
       Holds(services[self], s, todo[i].key) => i = Len(todo)

\* Nothing is put after a remove.
RemovedInv == removed => todo = << >>

\* A locator that does not exist has no services.
BornInv == \A l \in Locator \ born : services[l] = dzn_map_init

\* The count of a map is at most that of the calls of set.
CountInv ==
  /\ \A l \in Locator : services[l].size <= sets
  /\ services[self].size + Len(todo) <= sets

IInv ==
  /\ TypeOK /\ OneSlotPerKey /\ MapInv /\ TodoInv
  /\ RemovedInv /\ BornInv /\ CountInv

-------------------------------------------------------------------------------
(***************************************************************************)
(* Maps.                                                                   *)
(***************************************************************************)

\* The place of a probe is a slot of the table.
LEMMA ProbeFacts ==
  ASSUME NEW m, MapOK(m), NEW k \in Key, NEW i \in Nat \ {0}
  PROVE  Probe(m, k, i) \in Slots(m)
<1>1. m.table_size \in Nat /\ m.table_size > 0
  BY CMapAssumption DEF MapOK
<1>2. \A x \in Nat : \A n \in Nat \ {0} : x % n \in 0..n-1
  OBVIOUS
<1>3. Hash[k] \in Nat
  BY CMapAssumption
<1>4. Hash[k] % m.table_size \in Nat
  BY <1>1, <1>2, <1>3
<1> QED  BY <1>1, <1>2, <1>4 DEF Probe, dzn_map_hash_int, Slots

\* The loops over a chain stop at the first place that will do.
LEMMA FirstFacts ==
  ASSUME NEW S \in SUBSET Nat, S # {}
  PROVE  First(S) \in S /\ \A j \in S : First(S) <= j
<1>1. PICK x \in S : \A y \in S : ~ (y < x)
  BY LeastNatural
<1>2. \A y \in S : x <= y
  BY <1>1
<1> QED  BY <1>2 DEF First

\* The elements of a table.
LEMMA EntriesFacts ==
  ASSUME NEW m, MapOK(m)
  PROVE  /\ Entries(m) \in Seq(Elem)
         /\ \A e : e \in Elements(Entries(m)) <=> \E s \in Slots(m) : InUse(m, s) /\ m.data[s] = e
<1> DEFINE t == [i \in 1..m.table_size |-> m.data[i - 1]]
<1>1. /\ m.table_size \in Nat /\ m.data \in [Slots(m) -> Elem \cup {None}]
      /\ \A i \in 1..m.table_size : i - 1 \in Slots(m)
      /\ \A s \in Slots(m) : s + 1 \in 1..m.table_size /\ s + 1 - 1 = s
  BY DEF MapOK, Slots, Elem
<1>2. t \in Seq(Elem \cup {None}) /\ Len(t) = m.table_size
  BY <1>1
<1>3. \A e : e \in Elements(t) <=> \E s \in Slots(m) : m.data[s] = e
  <2>1. \A i \in 1..Len(t) : t[i] = m.data[i - 1] /\ i - 1 \in Slots(m)
    BY <1>1, <1>2
  <2>2. ASSUME NEW s \in Slots(m)
        PROVE  s + 1 \in 1..Len(t) /\ t[s + 1] = m.data[s]
    <3>1. PICK i \in 1..m.table_size : i = s + 1 /\ i - 1 = s
      BY <1>1 DEF Slots
    <3> QED  BY <1>2, <3>1
  <2> HIDE DEF t
  <2>3. \A e : e \in Elements(t) <=> \E i \in 1..Len(t) : t[i] = e
    BY DEF Elements
  <2>4. ASSUME NEW e, NEW s \in Slots(m), m.data[s] = e
        PROVE  e \in Elements(t)
    <3>1. PICK i \in 1..Len(t) : t[i] = m.data[s]
      BY <2>2
    <3> QED  BY <2>3, <2>4, <3>1
  <2>5. ASSUME NEW e, e \in Elements(t)
        PROVE  \E s \in Slots(m) : m.data[s] = e
    <3>1. PICK i \in 1..Len(t) : t[i] = e
      BY <2>3, <2>5
    <3>2. PICK s \in Slots(m) : t[i] = m.data[s]
      BY <2>1
    <3> QED  BY <3>1, <3>2
  <2> QED  BY <2>4, <2>5
<1>4. Entries(m) = Keep(t, Elem)
  BY DEF Entries, Elem
<1> HIDE DEF t
<1>5. /\ Keep(t, Elem) \in Seq(Elem \cup {None})
      /\ Elements(Keep(t, Elem)) = Elements(t) \cap Elem
  BY <1>2, KeepFacts
<1>6. Entries(m) \in Seq(Elem)
  BY <1>4, <1>5, ListOf
<1>7. None \notin Elem
  BY CMapAssumption DEF Elem
<1>8. \A s \in Slots(m) : InUse(m, s) <=> m.data[s] \in Elem
  BY <1>1, <1>7 DEF InUse
<1> QED  BY <1>3, <1>4, <1>5, <1>6, <1>8

\* No two of them have the same key, when a key has one slot.
LEMMA EntriesDiffer ==
  ASSUME NEW m, MapOK(m), OneSlot(m)
  PROVE  /\ Distinct(Entries(m))
         /\ \A i, j \in 1..Len(Entries(m)) : Entries(m)[i].key = Entries(m)[j].key => i = j
<1> DEFINE t == [i \in 1..m.table_size |-> m.data[i - 1]]
<1>1. /\ m.table_size \in Nat /\ m.data \in [Slots(m) -> Elem \cup {None}]
      /\ \A i \in 1..m.table_size : i - 1 \in Slots(m)
  BY DEF MapOK, Slots, Elem
<1>2. /\ t \in Seq(Elem \cup {None}) /\ Len(t) = m.table_size
      /\ \A i \in 1..Len(t) : t[i] = m.data[i - 1]
  BY <1>1
<1>3. None \notin Elem
  BY CMapAssumption DEF Elem
<1>4. Entries(m) = Keep(t, Elem)
  BY DEF Entries, Elem
<1> HIDE DEF t
<1>5. ASSUME NEW i \in 1..Len(t), NEW j \in 1..Len(t), t[i] = t[j], t[i] \in Elem
      PROVE  i = j
  <2>1. /\ i - 1 \in Slots(m) /\ j - 1 \in Slots(m)
        /\ m.data[i - 1] = m.data[j - 1] /\ m.data[i - 1] # None
    BY <1>1, <1>2, <1>3, <1>5
  <2>2. i - 1 = j - 1
    BY <2>1 DEF OneSlot, InUse, Holds
  <2> QED  BY <1>1, <1>2, <2>2
<1>6. Distinct(Entries(m))
  BY <1>2, <1>4, <1>5, KeepOnce DEF OnceIn
<1>7. ASSUME NEW i \in 1..Len(Entries(m)), NEW j \in 1..Len(Entries(m)),
             Entries(m)[i].key = Entries(m)[j].key
      PROVE  i = j
  <2>1. Entries(m)[i] \in Elements(Entries(m)) /\ Entries(m)[j] \in Elements(Entries(m))
    BY DEF Elements
  <2>2. PICK s \in Slots(m) : InUse(m, s) /\ m.data[s] = Entries(m)[i]
    BY <2>1, EntriesFacts
  <2>3. PICK r \in Slots(m) : InUse(m, r) /\ m.data[r] = Entries(m)[j]
    BY <2>1, EntriesFacts
  <2>4. s = r
    BY <1>7, <2>2, <2>3 DEF OneSlot, Holds
  <2> QED  BY <1>6, <2>2, <2>3, <2>4 DEF Distinct
<1> QED  BY <1>6, <1>7

\* The number of elements in a list without repetitions.
LEMMA CountFacts ==
  ASSUME NEW A, NEW q \in Seq(A), Distinct(q)
  PROVE  IsFiniteSet(Elements(q)) /\ Cardinality(Elements(q)) = Len(q)
<1>1. Len(q) \in Nat /\ q \in [1..Len(q) -> A]
  OBVIOUS
<1>2. IsFiniteSet(1..Len(q)) /\ Cardinality(1..Len(q)) = Len(q)
  BY <1>1, FS_Interval
<1>3. q \in Bijection(1..Len(q), Elements(q))
  BY <1>1 DEF Bijection, Injection, Surjection, IsInjective, Distinct, Elements
<1> QED  BY <1>2, <1>3, FS_Bijection DEF ExistsBijection

\* A new table has no elements.
LEMMA EmptyMap ==
  ASSUME NEW n \in Nat, n >= InitialSize
  PROVE  LET m == Empty(n) IN
         /\ MapOK(m) /\ m.table_size = n /\ m.size = 0 /\ OneSlot(m) /\ InChain(m) /\ NoHole(m)
         /\ \A s \in Slots(m) : ~InUse(m, s)
         /\ Entries(m) = << >>
         /\ \A k \in Key : dzn_map_get(m, k) = None
<1> DEFINE m == Empty(n)
<1>1. /\ m = [table_size |-> m.table_size, size |-> m.size, data |-> m.data]
      /\ m.table_size = n /\ m.size = 0 /\ m.data = [i \in 0..n-1 |-> None]
  BY DEF Empty
<1>2. 0 <= n \div 2
  OBVIOUS
<1> HIDE DEF m
<1>3. MapOK(m)
  BY <1>1, <1>2 DEF MapOK, Slots
<1>4. \A s \in Slots(m) : ~InUse(m, s)
  BY <1>1 DEF Slots, InUse
<1>5. OneSlot(m) /\ InChain(m) /\ NoHole(m)
  BY <1>4 DEF OneSlot, InChain, NoHole
<1>6. Entries(m) = << >>
  <2>1. Entries(m) \in Seq(Elem) /\ Elements(Entries(m)) = {}
    BY <1>3, <1>4, EntriesFacts
  <2> QED  BY <2>1, EmptyFacts
<1>7. ASSUME NEW k \in Key
      PROVE  dzn_map_get(m, k) = None
  <2>1. \A i \in 1..MaxChainLength : Probe(m, k, i) \in Slots(m)
    BY <1>3, CMapAssumption, ProbeFacts
  <2>2. Found(m, k) = {}
    BY <1>4, <2>1 DEF Found, Holds
  <2> QED  BY <2>2 DEF dzn_map_get
<1> QED  BY <1>1, <1>3, <1>4, <1>5, <1>6, <1>7 DEF m

\* get finds the element of a key, if there is one.
LEMMA GetFacts ==
  ASSUME NEW m, MapOK(m), OneSlot(m), InChain(m), NEW k \in Key
  PROVE  /\ \A s \in Slots(m) : Holds(m, s, k) => Found(m, k) # {} /\ Slot(m, k) = s
         /\ Found(m, k) # {} => Slot(m, k) \in Slots(m) /\ Holds(m, Slot(m, k), k)
<1>1. \A i \in 1..MaxChainLength : Probe(m, k, i) \in Slots(m)
  BY CMapAssumption, ProbeFacts
<1>2. ASSUME Found(m, k) # {}
      PROVE  Slot(m, k) \in Slots(m) /\ Holds(m, Slot(m, k), k)
  <2>1. Found(m, k) \in SUBSET Nat
    BY CMapAssumption DEF Found
  <2>2. First(Found(m, k)) \in Found(m, k)
    BY <1>2, <2>1, FirstFacts
  <2> QED  BY <1>1, <2>2 DEF Slot, Found
<1>3. ASSUME NEW s \in Slots(m), Holds(m, s, k)
      PROVE  Found(m, k) # {} /\ Slot(m, k) = s
  <2>1. InUse(m, s) /\ m.data[s].key = k
    BY <1>3 DEF Holds
  <2>2. PICK i \in 1..MaxChainLength : Probe(m, k, i) = s
    BY <2>1 DEF InChain
  <2>3. i \in Found(m, k)
    BY <1>3, <2>2 DEF Found
  <2>4. Holds(m, Slot(m, k), k) /\ Slot(m, k) \in Slots(m)
    BY <1>2, <2>3
  <2> QED  BY <2>1, <2>3, <2>4 DEF OneSlot
<1> QED  BY <1>2, <1>3

\* The slot that put takes is that of the key, or a free one when the key has none; the
\* slots that are probed before are in use.
LEMMA HashFacts ==
  ASSUME NEW m, MapOK(m), OneSlot(m), NoHole(m), NEW k \in Key, ~Full(m, k)
  PROVE  LET s == dzn_map_hash(m, k) IN
         /\ s \in Slots(m) /\ m.size < m.table_size \div 2
         /\ InUse(m, s) => Holds(m, s, k)
         /\ \A r \in Slots(m) : Holds(m, r, k) => r = s
         /\ \E i \in 1..MaxChainLength :
              Probe(m, k, i) = s /\ \A j \in 1..i-1 : InUse(m, Probe(m, k, j))
<1>1. \A i \in 1..MaxChainLength : Probe(m, k, i) \in Slots(m)
  BY CMapAssumption, ProbeFacts
<1>2. Fits(m, k) # {} /\ m.size < m.table_size \div 2
  <2>1. m.size \in Nat /\ m.table_size \div 2 \in Nat
    BY DEF MapOK
  <2> QED  BY <2>1 DEF Full
<1>3. Fits(m, k) \in SUBSET Nat
  BY CMapAssumption DEF Fits
<1>4. PICK i \in 1..MaxChainLength :
        i = First(Fits(m, k)) /\ i \in Fits(m, k) /\ \A j \in Fits(m, k) : i <= j
  BY <1>2, <1>3, FirstFacts DEF Fits
<1>5. PICK s \in Slots(m) : s = dzn_map_hash(m, k) /\ s = Probe(m, k, i)
  BY <1>1, <1>4 DEF dzn_map_hash
<1>6. InUse(m, s) => Holds(m, s, k)
  BY <1>4, <1>5 DEF Fits
<1>7. ASSUME NEW j \in 1..i-1
      PROVE  InUse(m, Probe(m, k, j)) /\ ~Holds(m, Probe(m, k, j), k)
  <2>1. j \in 1..MaxChainLength /\ ~(i <= j)
    BY CMapAssumption, <1>4
  <2>2. j \notin Fits(m, k)
    BY <1>4, <2>1
  <2> QED  BY <2>1, <2>2 DEF Fits
<1>8. ASSUME NEW r \in Slots(m), Holds(m, r, k)
      PROVE  r = s
  <2>1. InUse(m, r) /\ m.data[r].key = k
    BY <1>8 DEF Holds
  <2>2. PICK h \in 1..MaxChainLength :
          Probe(m, k, h) = r /\ \A j \in 1..h-1 : InUse(m, Probe(m, k, j))
    BY <2>1 DEF NoHole
  <2>3. h \in Fits(m, k) /\ i <= h
    BY <1>4, <1>8, <2>2 DEF Fits
  <2>4. CASE i = h
    BY <1>5, <2>2, <2>4
  <2>5. CASE i < h
    <3>1. i \in 1..h-1
      BY CMapAssumption, <2>5
    <3>2. InUse(m, s)
      BY <1>5, <2>2, <3>1
    <3> QED  BY <1>6, <2>1, <3>2 DEF OneSlot
  <2>6. i = h \/ i < h
    BY CMapAssumption, <2>3
  <2> QED  BY <2>4, <2>5, <2>6
<1> QED  BY <1>2, <1>4, <1>5, <1>6, <1>7, <1>8

\* What put changes.
LEMMA PutSlot ==
  ASSUME NEW m, MapOK(m), OneSlot(m), NoHole(m), NEW e \in Elem, ~Full(m, e.key)
  PROVE  LET s == dzn_map_hash(m, e.key)
             n == Put(m, e)
         IN  /\ MapOK(n) /\ n.table_size = m.table_size /\ n.size = m.size + 1
             /\ \A r \in Slots(m) : n.data[r] = IF r = s THEN e ELSE m.data[r]
             /\ \A k, i : Probe(n, k, i) = Probe(m, k, i)
<1> DEFINE s == dzn_map_hash(m, e.key)
           n == Put(m, e)
<1>1. e.key \in Key
  BY DEF Elem
<1>2. s \in Slots(m) /\ m.size < m.table_size \div 2
  BY <1>1, HashFacts
<1>3. /\ m = [table_size |-> m.table_size, size |-> m.size, data |-> m.data]
      /\ m.table_size \in Nat /\ m.table_size >= InitialSize
      /\ m.data \in [Slots(m) -> Elem \cup {None}]
      /\ m.size \in Nat /\ m.table_size \div 2 \in Nat
  BY DEF MapOK, Elem
<1>4. n = [[m EXCEPT !.data[s] = e] EXCEPT !.size = @ + 1]
  BY DEF Put
<1> HIDE DEF s, n
<1>5. n = [table_size |-> m.table_size, size |-> m.size + 1, data |-> [m.data EXCEPT ![s] = e]]
  BY <1>3, <1>4
<1>6. /\ n = [table_size |-> n.table_size, size |-> n.size, data |-> n.data]
      /\ n.table_size = m.table_size /\ n.size = m.size + 1 /\ n.data = [m.data EXCEPT ![s] = e]
  BY <1>5
<1>7. Slots(n) = Slots(m)
  BY <1>6 DEF Slots
<1>8. MapOK(n)
  BY <1>2, <1>3, <1>6, <1>7 DEF MapOK, Elem
<1>9. \A r \in Slots(m) : n.data[r] = IF r = s THEN e ELSE m.data[r]
  BY <1>2, <1>3, <1>6
<1>10. \A k, i : Probe(n, k, i) = Probe(m, k, i)
  BY <1>6 DEF Probe, dzn_map_hash_int
<1> QED  BY <1>6, <1>8, <1>9, <1>10 DEF s, n

\* put keeps the table in order.
LEMMA PutFacts ==
  ASSUME NEW m, MapOK(m), OneSlot(m), NoHole(m), NEW e \in Elem, ~Full(m, e.key)
  PROVE  LET n == Put(m, e)
         IN  /\ MapOK(n) /\ n.size = m.size + 1 /\ Slots(n) = Slots(m)
             /\ OneSlot(n) /\ InChain(n) /\ NoHole(n)
             /\ \A r \in Slots(m), k \in Key : k # e.key => (Holds(n, r, k) <=> Holds(m, r, k))
             /\ \A r \in Slots(m) : Holds(n, r, e.key) => n.data[r] = e
             /\ \A r \in Slots(m) : ~Holds(n, r, e.key) => n.data[r] = m.data[r]
             /\ \E r \in Slots(m) : Holds(n, r, e.key)
<1>1. e.key \in Key /\ e # None
  BY CMapAssumption DEF Elem
<1>2. PICK n : n = Put(m, e)
  OBVIOUS
<1>3. PICK s \in Slots(m) : s = dzn_map_hash(m, e.key)
  BY <1>1, HashFacts
<1>4. /\ MapOK(n) /\ n.table_size = m.table_size /\ n.size = m.size + 1
      /\ \A r \in Slots(m) : n.data[r] = IF r = s THEN e ELSE m.data[r]
      /\ \A k, i : Probe(n, k, i) = Probe(m, k, i)
  BY <1>2, <1>3, PutSlot
<1>5. Slots(n) = Slots(m)
  BY <1>4 DEF Slots
<1>6. InUse(m, s) => Holds(m, s, e.key)
  BY <1>1, <1>3, HashFacts
<1>7. \A r \in Slots(m) : Holds(m, r, e.key) => r = s
  BY <1>1, <1>3, HashFacts
<1>8. PICK i \in 1..MaxChainLength :
        Probe(m, e.key, i) = s /\ \A j \in 1..i-1 : InUse(m, Probe(m, e.key, j))
  BY <1>1, <1>3, HashFacts
<1>9. \A r \in Slots(m) : InUse(m, r) => InUse(n, r)
  BY <1>1, <1>4 DEF InUse
<1>10. /\ Holds(n, s, e.key)
       /\ \A r \in Slots(m) : Holds(n, r, e.key) => r = s
       /\ \A r \in Slots(m), k \in Key : k # e.key => (Holds(n, r, k) <=> Holds(m, r, k))
  BY <1>1, <1>4, <1>6, <1>7 DEF Holds, InUse
<1>11. \A r \in Slots(m) : InUse(n, r) => n.data[r].key \in Key
  BY <1>4, <1>5 DEF MapOK, InUse
<1>12. OneSlot(n)
  <2> SUFFICES ASSUME NEW i1 \in Slots(m), NEW j1 \in Slots(m), InUse(n, i1),
                      Holds(n, j1, n.data[i1].key)
               PROVE  i1 = j1
    BY <1>5 DEF OneSlot
  <2>1. Holds(n, i1, n.data[i1].key) /\ n.data[i1].key \in Key
    BY <1>11 DEF Holds
  <2>2. CASE n.data[i1].key = e.key
    BY <1>10, <2>1, <2>2
  <2>3. CASE n.data[i1].key # e.key
    <3>1. Holds(m, i1, n.data[i1].key) /\ Holds(m, j1, n.data[i1].key)
      BY <1>10, <2>1, <2>3
    <3> QED  BY <3>1 DEF OneSlot, Holds
  <2> QED  BY <2>2, <2>3
<1>13. NoHole(n)
  <2> SUFFICES ASSUME NEW r \in Slots(m), InUse(n, r)
               PROVE  \E h \in 1..MaxChainLength :
                        /\ Probe(n, n.data[r].key, h) = r
                        /\ \A j \in 1..h-1 : InUse(n, Probe(n, n.data[r].key, j))
    BY <1>5 DEF NoHole
  <2>1. \A k \in Key : \A h \in 1..MaxChainLength : \A j \in 1..h-1 : Probe(m, k, j) \in Slots(m)
    BY CMapAssumption, ProbeFacts
  <2>2. CASE r = s
    <3>1. n.data[r].key = e.key
      BY <1>4, <2>2
    <3>2. \A j \in 1..i-1 : InUse(n, Probe(m, e.key, j))
      BY <1>1, <1>8, <1>9, <2>1
    <3> QED  BY <1>4, <1>8, <2>2, <3>1, <3>2
  <2>3. CASE r # s
    <3>1. PICK k \in Key : k = n.data[r].key /\ k = m.data[r].key /\ InUse(m, r)
      BY <1>4, <1>11, <2>3 DEF InUse
    <3>2. PICK h \in 1..MaxChainLength :
            Probe(m, k, h) = r /\ \A j \in 1..h-1 : InUse(m, Probe(m, k, j))
      BY <3>1 DEF NoHole
    <3>3. \A j \in 1..h-1 : InUse(n, Probe(m, k, j))
      BY <1>9, <2>1, <3>2
    <3> QED  BY <1>4, <3>1, <3>2, <3>3
  <2> QED  BY <2>2, <2>3
<1>14. InChain(n)
  BY <1>13 DEF NoHole, InChain
<1>15. /\ \A r \in Slots(m) : Holds(n, r, e.key) => n.data[r] = e
       /\ \A r \in Slots(m) : ~Holds(n, r, e.key) => n.data[r] = m.data[r]
  BY <1>4, <1>10
<1> QED  BY <1>2, <1>4, <1>5, <1>10, <1>12, <1>13, <1>14, <1>15

\* put counts every element that it adds.
LEMMA PutCounts ==
  ASSUME NEW m, MapOK(m), OneSlot(m), NoHole(m), NEW e \in Elem, ~Full(m, e.key),
         Len(Entries(m)) <= m.size
  PROVE  Len(Entries(Put(m, e))) <= Put(m, e).size
<1>1. PICK n : n = Put(m, e)
  OBVIOUS
<1>2. /\ MapOK(n) /\ n.size = m.size + 1 /\ Slots(n) = Slots(m) /\ OneSlot(n)
      /\ \A r \in Slots(m) : Holds(n, r, e.key) => n.data[r] = e
      /\ \A r \in Slots(m) : ~Holds(n, r, e.key) => n.data[r] = m.data[r]
  BY <1>1, PutFacts
<1>3. /\ Entries(m) \in Seq(Elem) /\ Distinct(Entries(m))
      /\ Entries(n) \in Seq(Elem) /\ Distinct(Entries(n))
  BY <1>2, EntriesFacts, EntriesDiffer
<1>4. Elements(Entries(n)) \subseteq Elements(Entries(m)) \cup {e}
  <2> SUFFICES ASSUME NEW x \in Elements(Entries(n)), x # e
               PROVE  x \in Elements(Entries(m))
    OBVIOUS
  <2>1. PICK r \in Slots(m) : InUse(n, r) /\ n.data[r] = x
    BY <1>2, EntriesFacts
  <2>2. n.data[r] = m.data[r] /\ InUse(m, r)
    BY <1>2, <2>1 DEF InUse
  <2> QED  BY <2>1, <2>2, EntriesFacts
<1>5. /\ IsFiniteSet(Elements(Entries(m))) /\ Cardinality(Elements(Entries(m))) = Len(Entries(m))
      /\ IsFiniteSet(Elements(Entries(n))) /\ Cardinality(Elements(Entries(n))) = Len(Entries(n))
  BY <1>3, CountFacts
<1> DEFINE S == Elements(Entries(m))
           T == Elements(Entries(n))
<1>6. IsFiniteSet(S \cup {e}) /\ Cardinality(S \cup {e}) <= Cardinality(S) + 1
  <2>1. Cardinality(S) \in Nat
    BY <1>5, FS_CardinalityType
  <2>2. IsFiniteSet(S)
    BY <1>5
  <2> HIDE DEF S
  <2>3. /\ IsFiniteSet(S \cup {e})
        /\ Cardinality(S \cup {e}) = IF e \in S THEN Cardinality(S) ELSE Cardinality(S) + 1
    BY <2>2, FS_AddElement
  <2> QED  BY <2>1, <2>3
<1>7. Cardinality(T) <= Cardinality(S \cup {e})
  BY <1>4, <1>6, FS_Subset
<1>8. Len(Entries(m)) \in Nat /\ Len(Entries(n)) \in Nat /\ m.size \in Nat
  BY <1>3 DEF MapOK
<1>9. Cardinality(S \cup {e}) \in Nat
  BY <1>6, FS_CardinalityType
<1>10. Len(Entries(n)) <= Len(Entries(m)) + 1
  BY <1>5, <1>6, <1>7, <1>8, <1>9
<1> QED  BY <1>1, <1>2, <1>8, <1>10

\* What remove changes.
LEMMA RemoveSlot ==
  ASSUME NEW m, MapOK(m), OneSlot(m), InChain(m), NEW k \in Key, Found(m, k) # {}, m.size > 0
  PROVE  LET s == Slot(m, k)
             n == dzn_map_remove(m, k)
         IN  /\ MapOK(n) /\ n.table_size = m.table_size /\ n.size = m.size - 1
             /\ \A r \in Slots(m) : n.data[r] = IF r = s THEN None ELSE m.data[r]
             /\ \A j, i : Probe(n, j, i) = Probe(m, j, i)
<1> DEFINE s == Slot(m, k)
           n == dzn_map_remove(m, k)
<1>1. s \in Slots(m)
  BY GetFacts
<1>2. /\ m = [table_size |-> m.table_size, size |-> m.size, data |-> m.data]
      /\ m.table_size \in Nat /\ m.table_size >= InitialSize
      /\ m.data \in [Slots(m) -> Elem \cup {None}]
      /\ m.size \in Nat /\ m.table_size \div 2 \in Nat /\ m.size <= m.table_size \div 2
  BY DEF MapOK, Elem
<1>3. n = [[m EXCEPT !.data[s] = None] EXCEPT !.size = @ - 1]
  BY DEF dzn_map_remove
<1> HIDE DEF s, n
<1>4. n = [table_size |-> m.table_size, size |-> m.size - 1, data |-> [m.data EXCEPT ![s] = None]]
  BY <1>2, <1>3
<1>5. /\ n = [table_size |-> n.table_size, size |-> n.size, data |-> n.data]
      /\ n.table_size = m.table_size /\ n.size = m.size - 1 /\ n.data = [m.data EXCEPT ![s] = None]
  BY <1>4
<1>6. Slots(n) = Slots(m)
  BY <1>5 DEF Slots
<1>7. MapOK(n)
  BY <1>1, <1>2, <1>5, <1>6 DEF MapOK, Elem
<1>8. \A r \in Slots(m) : n.data[r] = IF r = s THEN None ELSE m.data[r]
  BY <1>1, <1>2, <1>5
<1>9. \A j, i : Probe(n, j, i) = Probe(m, j, i)
  BY <1>5 DEF Probe, dzn_map_hash_int
<1> QED  BY <1>5, <1>7, <1>8, <1>9 DEF s, n

\* An element that is found is counted.
LEMMA FoundCounts ==
  ASSUME NEW m, MapOK(m), OneSlot(m), InChain(m), NEW k \in Key, Found(m, k) # {},
         Len(Entries(m)) <= m.size
  PROVE  m.size > 0
<1>1. PICK s \in Slots(m) : Holds(m, s, k)
  BY GetFacts
<1>2. Entries(m) \in Seq(Elem) /\ m.data[s] \in Elements(Entries(m))
  BY <1>1, EntriesFacts DEF Holds
<1>3. Len(Entries(m)) \in Nat /\ Len(Entries(m)) # 0 /\ m.size \in Nat
  BY <1>2 DEF Elements, MapOK
<1> QED  BY <1>3

\* remove keeps the table in order, except that it leaves a hole.
LEMMA RemoveFacts ==
  ASSUME NEW m, MapOK(m), OneSlot(m), InChain(m), NEW k \in Key, Found(m, k) # {},
         Len(Entries(m)) <= m.size
  PROVE  LET n == dzn_map_remove(m, k)
         IN  /\ MapOK(n) /\ n.size = m.size - 1 /\ Slots(n) = Slots(m)
             /\ OneSlot(n) /\ InChain(n)
             /\ \A r \in Slots(m), j \in Key : j # k => (Holds(n, r, j) <=> Holds(m, r, j))
             /\ \A r \in Slots(m) : ~Holds(n, r, k)
             /\ \A r \in Slots(m) : ~Holds(m, r, k) => n.data[r] = m.data[r]
             /\ Len(Entries(n)) <= n.size
<1>1. m.size > 0
  BY FoundCounts
<1>2. PICK n : n = dzn_map_remove(m, k)
  OBVIOUS
<1>3. PICK s \in Slots(m) : s = Slot(m, k) /\ Holds(m, s, k)
  BY GetFacts
<1>4. /\ MapOK(n) /\ n.table_size = m.table_size /\ n.size = m.size - 1
      /\ \A r \in Slots(m) : n.data[r] = IF r = s THEN None ELSE m.data[r]
      /\ \A j, i : Probe(n, j, i) = Probe(m, j, i)
  BY <1>1, <1>2, <1>3, RemoveSlot
<1>5. Slots(n) = Slots(m)
  BY <1>4 DEF Slots
<1>6. \A r \in Slots(m) : Holds(m, r, k) => r = s
  BY <1>3 DEF OneSlot, Holds
<1>7. \A r \in Slots(m) : InUse(n, r) => InUse(m, r) /\ n.data[r] = m.data[r] /\ r # s
  BY <1>4 DEF InUse
<1>8. /\ \A r \in Slots(m), j \in Key : j # k => (Holds(n, r, j) <=> Holds(m, r, j))
      /\ \A r \in Slots(m) : ~Holds(n, r, k)
      /\ \A r \in Slots(m) : ~Holds(m, r, k) => n.data[r] = m.data[r]
  BY <1>3, <1>4, <1>6, <1>7 DEF Holds, InUse
<1>9. OneSlot(n)
  BY <1>5, <1>7 DEF OneSlot, Holds
<1>10. InChain(n)
  <2> SUFFICES ASSUME NEW r \in Slots(m), InUse(n, r)
               PROVE  \E i \in 1..MaxChainLength : Probe(n, n.data[r].key, i) = r
    BY <1>5 DEF InChain
  <2>1. PICK i \in 1..MaxChainLength : Probe(m, m.data[r].key, i) = r
    BY <1>7 DEF InChain
  <2> QED  BY <1>4, <1>7, <2>1
<1>11. Len(Entries(n)) <= n.size
  <2> DEFINE S == Elements(Entries(m))
             T == Elements(Entries(n))
             e == m.data[s]
  <2>1. /\ Entries(m) \in Seq(Elem) /\ Distinct(Entries(m))
        /\ Entries(n) \in Seq(Elem) /\ Distinct(Entries(n))
    BY <1>4, <1>9, EntriesFacts, EntriesDiffer
  <2>2. /\ IsFiniteSet(S) /\ Cardinality(S) = Len(Entries(m))
        /\ IsFiniteSet(T) /\ Cardinality(T) = Len(Entries(n))
    BY <2>1, CountFacts
  <2>3. e \in S
    BY <1>3, EntriesFacts DEF Holds
  <2>4. T \subseteq S \ {e}
    <3> SUFFICES ASSUME NEW x \in T
                 PROVE  x \in S /\ x # e
      OBVIOUS
    <3>1. PICK r \in Slots(m) : InUse(n, r) /\ n.data[r] = x
      BY <1>4, <1>5, EntriesFacts
    <3>2. InUse(m, r) /\ m.data[r] = x /\ r # s
      BY <1>7, <3>1
    <3>3. x \in S
      BY <3>2, EntriesFacts
    <3>4. x # e
      BY <1>3, <3>2 DEF OneSlot, Holds
    <3> QED  BY <3>3, <3>4
  <2>5. /\ Cardinality(S) \in Nat /\ Cardinality(T) \in Nat /\ m.size \in Nat
        /\ Cardinality(S) <= m.size
    BY <2>2, FS_CardinalityType DEF MapOK
  <2> HIDE DEF S, T, e
  <2>6. IsFiniteSet(S \ {e}) /\ Cardinality(S \ {e}) = Cardinality(S) - 1
    <3>1. /\ IsFiniteSet(S \ {e})
          /\ Cardinality(S \ {e}) = IF e \in S THEN Cardinality(S) - 1 ELSE Cardinality(S)
      BY <2>2, FS_RemoveElement
    <3> QED  BY <2>3, <3>1
  <2>7. Cardinality(T) <= Cardinality(S \ {e})
    BY <2>4, <2>6, FS_Subset
  <2> QED  BY <1>4, <2>2, <2>5, <2>6, <2>7
<1> QED  BY <1>2, <1>4, <1>5, <1>8, <1>9, <1>10, <1>11

-------------------------------------------------------------------------------
(***************************************************************************)
(* What get returns when all elements have been put.                       *)
(***************************************************************************)

\* A set of places in a list has a last one.
LEMMA LastFacts ==
  ASSUME NEW n \in Nat, NEW S \in SUBSET (1..n), S # {}
  PROVE  \E i \in S : \A j \in S : j <= i
<1> DEFINE T == {n - i : i \in S}
<1>1. T \in SUBSET Nat /\ T # {}
  OBVIOUS
<1> HIDE DEF T
<1>2. PICK x \in T : \A y \in T : ~ (y < x)
  BY <1>1, LeastNatural
<1> USE DEF T
<1>3. PICK i \in S : x = n - i
  BY <1>2
<1>4. ASSUME NEW j \in S
      PROVE  j <= i
  <2>1. n - j \in T
    OBVIOUS
  <2>2. ~ (n - j < n - i)
    BY <1>2, <1>3, <2>1
  <2> QED  BY <2>2
<1> QED  BY <1>4

\* Element i is the last one of list q with key k.
LastPut(q, k, i) ==
  i \in 1..Len(q) /\ q[i].key = k /\ \A j \in 1..Len(q) : q[j].key = k => j <= i

NonePut(q, k) == \A j \in 1..Len(q) : q[j].key # k

\* The last element of the key counts.
LEMMA LookupPending ==
  ASSUME NEW q \in Seq(Elem), NEW m, NEW k, NEW i, LastPut(q, k, i)
  PROVE  LookupIn(q, m, k) = q[i].data
<1> USE DEF LastPut
<1> DEFINE pending == {j \in 1..Len(q) : q[j].key = k}
<1>1. i \in pending /\ \A j \in pending : j <= i
  OBVIOUS
<1>2. \A j \in pending : j \in Nat
  OBVIOUS
<1>3. LookupIn(q, m, k) =
        IF pending = {} THEN dzn_map_get(m, k)
        ELSE q[CHOOSE h \in pending : \A j \in pending : j <= h].data
  BY DEF LookupIn
<1> HIDE DEF pending
<1>4. (CHOOSE h \in pending : \A j \in pending : j <= h) = i
  <2>1. \A h \in pending : (\A j \in pending : j <= h) => h = i
    BY <1>1, <1>2
  <2> QED  BY <1>1, <2>1
<1> QED  BY <1>1, <1>3, <1>4

\* Otherwise the table does.
LEMMA LookupTable ==
  ASSUME NEW q \in Seq(Elem), NEW m, NEW k, NonePut(q, k)
  PROVE  LookupIn(q, m, k) = dzn_map_get(m, k)
<1>1. {j \in 1..Len(q) : q[j].key = k} = {}
  BY DEF NonePut
<1> QED  BY <1>1 DEF LookupIn

\* Either there is a last element of the key or there is none.
LEMMA LookupCases ==
  ASSUME NEW q \in Seq(Elem), NEW k
  PROVE  NonePut(q, k) \/ \E i : LastPut(q, k, i)
<1> USE DEF NonePut, LastPut
<1>1. Len(q) \in Nat
  OBVIOUS
<1>2. PICK S \in SUBSET (1..Len(q)) : S = {j \in 1..Len(q) : q[j].key = k}
  OBVIOUS
<1>3. CASE S = {}
  BY <1>2, <1>3
<1>4. CASE S # {}
  <2>1. PICK i \in S : \A j \in S : j <= i
    BY <1>1, <1>4, LastFacts
  <2> QED  BY <1>2, <2>1
<1> QED  BY <1>3, <1>4

\* When nothing is to be put it is the table that counts.
LEMMA LookupNothing ==
  ASSUME NEW m, NEW k
  PROVE  LookupIn(<< >>, m, k) = dzn_map_get(m, k)
<1>1. Len(<< >>) = 0
  BY EmptyFacts
<1>2. {i \in 1..Len(<< >>) : << >>[i].key = k} = {}
  BY <1>1
<1> QED  BY <1>2 DEF LookupIn

\* A put changes nothing of what get will return.
LEMMA LookupPut ==
  ASSUME NEW q \in Seq(Elem), q # << >>, NEW m, MapOK(m), OneSlot(m), InChain(m), NoHole(m),
         ~Full(m, Head(q).key), NEW k \in Key
  PROVE  LookupIn(Tail(q), Put(m, Head(q)), k) = LookupIn(q, m, k)
<1>1. PICK e \in Elem : e = Head(q) /\ e = q[1]
  BY TailFacts
<1>2. PICK t \in Seq(Elem) : /\ t = Tail(q) /\ Len(t) = Len(q) - 1
                             /\ \A i \in 1..Len(q) - 1 : t[i] = q[i + 1]
  <2>1. PICK t \in Seq(Elem) : t = Tail(q)
    BY TailFacts
  <2>2. Len(t) = Len(q) - 1 /\ \A i \in 1..Len(q) - 1 : t[i] = q[i + 1]
    BY <2>1, TailFacts
  <2> QED  BY <2>1, <2>2
<1>3. PICK n : n = Put(m, e)
  OBVIOUS
<1>4. /\ MapOK(n) /\ Slots(n) = Slots(m) /\ OneSlot(n) /\ InChain(n)
      /\ \A r \in Slots(m), j \in Key : j # e.key => (Holds(n, r, j) <=> Holds(m, r, j))
      /\ \A r \in Slots(m) : Holds(n, r, e.key) => n.data[r] = e
      /\ \A r \in Slots(m) : ~Holds(n, r, e.key) => n.data[r] = m.data[r]
      /\ \E r \in Slots(m) : Holds(n, r, e.key)
  BY <1>1, <1>3, PutFacts
<1>5. Len(q) \in Nat /\ Len(q) >= 1 /\ 1 \in 1..Len(q)
  OBVIOUS
<1>6. CASE \E i : LastPut(t, k, i)
  <2>0. PICK i : LastPut(t, k, i)
    BY <1>6
  <2>1. i \in 1..Len(t) /\ t[i].key = k /\ \A j \in 1..Len(t) : t[j].key = k => j <= i
    BY <2>0 DEF LastPut
  <2>2. PICK h \in 1..Len(q) : h = i + 1 /\ q[h] = t[i]
    BY <1>2, <1>5, <2>1
  <2>3. ASSUME NEW j \in 1..Len(q), q[j].key = k
        PROVE  j <= h
    <3>1. CASE j = 1
      BY <1>2, <1>5, <2>2, <3>1
    <3>2. CASE j # 1
      <4>1. PICK p \in 1..Len(t) : p + 1 = j /\ t[p] = q[j]
        <5>1. j - 1 \in 1..Len(t) /\ j - 1 + 1 = j
          BY <1>2, <1>5, <3>2
        <5> QED  BY <1>2, <5>1
      <4>2. p <= i
        BY <2>1, <2>3, <4>1
      <4> QED  BY <1>2, <1>5, <2>1, <2>2, <4>1, <4>2
    <3> QED  BY <3>1, <3>2
  <2>4. LookupIn(q, m, k) = q[h].data
    <3>1. LastPut(q, k, h)
      BY <2>1, <2>2, <2>3 DEF LastPut
    <3> QED  BY <3>1, LookupPending
  <2>5. LookupIn(t, n, k) = t[i].data
    BY <2>0, LookupPending
  <2> QED  BY <1>1, <1>2, <1>3, <2>2, <2>4, <2>5
<1>7. CASE NonePut(t, k)
  <2>0. \A j \in 1..Len(t) : t[j].key # k
    BY <1>7 DEF NonePut
  <2>1. LookupIn(t, n, k) = dzn_map_get(n, k)
    BY <1>7, LookupTable
  <2>2. \A j \in 1..Len(q) : q[j].key = k => j = 1
    <3> SUFFICES ASSUME NEW j \in 1..Len(q), q[j].key = k, j # 1 PROVE FALSE
      OBVIOUS
    <3>1. j - 1 \in 1..Len(t) /\ j - 1 + 1 = j
      BY <1>2, <1>5
    <3>2. t[j - 1] = q[j]
      BY <1>2, <3>1
    <3> QED  BY <2>0, <3>1, <3>2
  <2>3. CASE k = e.key
    <3>1. LookupIn(q, m, k) = q[1].data
      <4>1. \A j \in 1..Len(q) : q[j].key = k => j <= 1
        BY <1>5, <2>2
      <4>2. LastPut(q, k, 1)
        BY <1>1, <1>5, <2>3, <4>1 DEF LastPut
      <4> QED  BY <4>2, LookupPending
    <3>2. PICK r \in Slots(n) : Holds(n, r, k) /\ n.data[r] = e
      BY <1>4, <2>3
    <3>3. dzn_map_get(n, k) = e.data
      <4>1. Found(n, k) # {} /\ Slot(n, k) = r
        BY <1>4, <3>2, GetFacts
      <4> QED  BY <3>2, <4>1 DEF dzn_map_get
    <3> QED  BY <1>1, <1>2, <1>3, <2>1, <3>1, <3>3
  <2>4. CASE k # e.key
    <3>1. LookupIn(q, m, k) = dzn_map_get(m, k)
      <4>1. NonePut(q, k)
        BY <1>1, <2>2, <2>4 DEF NonePut
      <4> QED  BY <4>1, LookupTable
    <3>2. CASE \E r \in Slots(m) : Holds(m, r, k)
      <4>1. PICK r \in Slots(m) : Holds(m, r, k) /\ Holds(n, r, k)
        BY <1>4, <2>4, <3>2
      <4>2. ~Holds(n, r, e.key)
        BY <2>4, <4>1 DEF Holds
      <4>3. n.data[r] = m.data[r]
        BY <1>4, <4>2
      <4>4. Found(n, k) # {} /\ Slot(n, k) = r /\ Found(m, k) # {} /\ Slot(m, k) = r
        BY <1>4, <4>1, GetFacts
      <4>5. dzn_map_get(n, k) = dzn_map_get(m, k)
        BY <4>3, <4>4 DEF dzn_map_get
      <4> QED  BY <1>1, <1>2, <1>3, <2>1, <3>1, <4>5
    <3>3. CASE ~ \E r \in Slots(m) : Holds(m, r, k)
      <4>1. \A r \in Slots(m) : ~Holds(m, r, k) /\ ~Holds(n, r, k)
        BY <1>4, <2>4, <3>3
      <4>2. Found(m, k) = {} /\ Found(n, k) = {}
        BY <1>4, <4>1, GetFacts
      <4>3. dzn_map_get(n, k) = dzn_map_get(m, k)
        BY <4>2 DEF dzn_map_get
      <4> QED  BY <1>1, <1>2, <1>3, <2>1, <3>1, <4>3
    <3> QED  BY <3>2, <3>3
  <2> QED  BY <2>3, <2>4
<1> QED  BY <1>6, <1>7, LookupCases

\* Neither does a rehash.
LEMMA LookupRehash ==
  ASSUME NEW q \in Seq(Elem), NEW m, MapOK(m), OneSlot(m), InChain(m),
         NEW n \in Nat, n >= InitialSize, NEW k \in Key
  PROVE  LookupIn(Entries(m) \o q, Empty(n), k) = LookupIn(q, m, k)
<1>1. PICK p \in Seq(Elem) : p = Entries(m)
  BY EntriesFacts
<1>2. PICK t \in Seq(Elem) :
        /\ t = p \o q /\ Len(t) = Len(p) + Len(q)
        /\ \A i \in 1..Len(p) : t[i] = p[i]
        /\ \A i \in 1..Len(q) : t[Len(p) + i] = q[i]
  <2>1. PICK t \in Seq(Elem) : t = p \o q
    BY ConcatFacts
  <2>2. /\ Len(t) = Len(p) + Len(q)
        /\ \A i \in 1..Len(p) : t[i] = p[i]
        /\ \A i \in 1..Len(q) : t[Len(p) + i] = q[i]
    BY <2>1, ConcatFacts
  <2> QED  BY <2>1, <2>2
<1>3. Len(p) \in Nat /\ Len(q) \in Nat
  OBVIOUS
<1>4. \A j \in 1..Len(t) : j \in 1..Len(p) \/ \E i \in 1..Len(q) : j = Len(p) + i
  <2> SUFFICES ASSUME NEW j \in 1..Len(t), j \notin 1..Len(p)
               PROVE  \E i \in 1..Len(q) : j = Len(p) + i
    OBVIOUS
  <2>1. j - Len(p) \in 1..Len(q) /\ j = Len(p) + (j - Len(p))
    BY <1>2, <1>3
  <2> QED  BY <2>1
<1>5. CASE \E i : LastPut(q, k, i)
  <2>0. PICK i : LastPut(q, k, i)
    BY <1>5
  <2>1. i \in 1..Len(q) /\ q[i].key = k /\ \A j \in 1..Len(q) : q[j].key = k => j <= i
    BY <2>0 DEF LastPut
  <2>2. PICK h \in 1..Len(t) : h = Len(p) + i /\ t[h] = q[i]
    BY <1>2, <1>3, <2>1
  <2>3. ASSUME NEW j \in 1..Len(t), t[j].key = k
        PROVE  j <= h
    <3>1. CASE j \in 1..Len(p)
      BY <1>3, <2>1, <2>2, <3>1
    <3>2. CASE \E g \in 1..Len(q) : j = Len(p) + g
      <4>1. PICK g \in 1..Len(q) : j = Len(p) + g
        BY <3>2
      <4>2. g <= i
        BY <1>2, <2>1, <2>3, <4>1
      <4> QED  BY <1>3, <2>1, <2>2, <4>1, <4>2
    <3> QED  BY <1>4, <3>1, <3>2
  <2>4. LastPut(t, k, h)
    BY <2>1, <2>2, <2>3 DEF LastPut
  <2>5. LookupIn(t, Empty(n), k) = t[h].data /\ LookupIn(q, m, k) = q[i].data
    BY <2>0, <2>4, LookupPending
  <2> QED  BY <1>1, <1>2, <2>2, <2>5
<1>6. CASE NonePut(q, k)
  <2>1. LookupIn(q, m, k) = dzn_map_get(m, k)
    BY <1>6, LookupTable
  <2>2. ASSUME NEW j \in 1..Len(t), t[j].key = k
        PROVE  j \in 1..Len(p)
    <3> SUFFICES ASSUME j \notin 1..Len(p) PROVE FALSE
      OBVIOUS
    <3>1. PICK i \in 1..Len(q) : j = Len(p) + i
      BY <1>4
    <3>2. t[j] = q[i]
      BY <1>2, <3>1
    <3> QED  BY <1>6, <2>2, <3>2 DEF NonePut
  <2>3. CASE \E s \in Slots(m) : Holds(m, s, k)
    <3>1. PICK s \in Slots(m) : Holds(m, s, k)
      BY <2>3
    <3>2. m.data[s] \in Elements(p) /\ m.data[s].key = k
      BY <1>1, <3>1, EntriesFacts DEF Holds
    <3>3. PICK i \in 1..Len(p) : p[i] = m.data[s]
      BY <3>2 DEF Elements
    <3>4. ASSUME NEW j \in 1..Len(t), t[j].key = k
          PROVE  j = i
      <4>1. j \in 1..Len(p) /\ p[j].key = k
        BY <1>2, <2>2, <3>4
      <4>2. \A g, h \in 1..Len(p) : p[g].key = p[h].key => g = h
        BY <1>1, EntriesDiffer
      <4> QED  BY <3>2, <3>3, <4>1, <4>2
    <3>5. i \in 1..Len(t) /\ t[i] = p[i] /\ i \in Nat
      BY <1>2, <1>3
    <3>6. \A j \in 1..Len(t) : t[j].key = k => j <= i
      BY <3>4, <3>5
    <3>7. LookupIn(t, Empty(n), k) = t[i].data
      <4>1. LastPut(t, k, i)
        BY <3>2, <3>3, <3>5, <3>6 DEF LastPut
      <4> QED  BY <4>1, LookupPending
    <3>8. dzn_map_get(m, k) = m.data[s].data
      <4>1. Found(m, k) # {} /\ Slot(m, k) = s
        BY <3>1, GetFacts
      <4> QED  BY <4>1 DEF dzn_map_get
    <3> QED  BY <1>1, <1>2, <2>1, <3>3, <3>5, <3>7, <3>8
  <2>4. CASE ~ \E s \in Slots(m) : Holds(m, s, k)
    <3>1. dzn_map_get(m, k) = None
      <4>1. Found(m, k) = {}
        BY <2>4, GetFacts
      <4> QED  BY <4>1 DEF dzn_map_get
    <3>2. ASSUME NEW j \in 1..Len(t), t[j].key = k
          PROVE  FALSE
      <4>1. j \in 1..Len(p) /\ t[j] = p[j]
        BY <1>2, <2>2, <3>2
      <4>2. p[j] \in Elements(p)
        BY <4>1 DEF Elements
      <4>3. PICK s \in Slots(m) : InUse(m, s) /\ m.data[s] = p[j]
        BY <1>1, <4>2, EntriesFacts
      <4> QED  BY <2>4, <3>2, <4>1, <4>3 DEF Holds
    <3>3. LookupIn(t, Empty(n), k) = dzn_map_get(Empty(n), k)
      <4>1. NonePut(t, k)
        BY <3>2 DEF NonePut
      <4> QED  BY <4>1, LookupTable
    <3>4. dzn_map_get(Empty(n), k) = None
      BY EmptyMap
    <3> QED  BY <1>1, <1>2, <2>1, <3>1, <3>3, <3>4
  <2> QED  BY <2>3, <2>4
<1> QED  BY <1>5, <1>6, LookupCases

\* A set changes what get will return for its key only.
LEMMA LookupSet ==
  ASSUME NEW e \in Elem, NEW m, NEW k \in Key
  PROVE  LookupIn(<<e>>, m, k) = IF k = e.key THEN e.data ELSE LookupIn(<< >>, m, k)
<1>1. PICK q \in Seq(Elem) : q = <<e>> /\ Len(q) = 1 /\ q[1] = e
  <2>1. <<e>> \in Seq(Elem)
    BY ShortFacts
  <2>2. Len(<<e>>) = 1 /\ <<e>>[1] = e
    OBVIOUS
  <2> QED  BY <2>1, <2>2
<1>3. LookupIn(<< >>, m, k) = dzn_map_get(m, k)
  BY LookupNothing
<1>4. CASE k = e.key
  <2>1. 1 \in 1..Len(q) /\ \A j \in 1..Len(q) : j <= 1
    BY <1>1
  <2>2. LookupIn(q, m, k) = q[1].data
    <3>1. LastPut(q, k, 1)
      BY <1>1, <1>4, <2>1 DEF LastPut
    <3> QED  BY <3>1, LookupPending
  <2> QED  BY <1>1, <1>4, <2>2
<1>5. CASE k # e.key
  <2>1. NonePut(q, k)
    BY <1>1, <1>5 DEF NonePut
  <2>2. LookupIn(q, m, k) = dzn_map_get(m, k)
    BY <2>1, LookupTable
  <2> QED  BY <1>1, <1>3, <1>5, <2>2
<1> QED  BY <1>4, <1>5

\* A remove changes what get returns for its key only.
LEMMA LookupRemove ==
  ASSUME NEW m, MapOK(m), OneSlot(m), InChain(m), NEW j \in Key, Found(m, j) # {},
         Len(Entries(m)) <= m.size, NEW k \in Key
  PROVE  LookupIn(<< >>, dzn_map_remove(m, j), k) =
           IF k = j THEN None ELSE LookupIn(<< >>, m, k)
<1>2. PICK n : n = dzn_map_remove(m, j)
  OBVIOUS
<1>3. /\ MapOK(n) /\ Slots(n) = Slots(m) /\ OneSlot(n) /\ InChain(n)
      /\ \A r \in Slots(m), h \in Key : h # j => (Holds(n, r, h) <=> Holds(m, r, h))
      /\ \A r \in Slots(m) : ~Holds(n, r, j)
      /\ \A r \in Slots(m) : ~Holds(m, r, j) => n.data[r] = m.data[r]
  BY <1>2, RemoveFacts
<1>4. /\ LookupIn(<< >>, n, k) = dzn_map_get(n, k)
      /\ LookupIn(<< >>, m, k) = dzn_map_get(m, k)
  BY LookupNothing
<1>5. CASE \E r \in Slots(n) : Holds(n, r, k)
  <2>1. PICK r \in Slots(m) : Holds(n, r, k)
    BY <1>3, <1>5
  <2>2. k # j /\ Holds(m, r, k)
    BY <1>3, <2>1
  <2>3. ~Holds(m, r, j)
    BY <2>2 DEF Holds
  <2>4. Found(n, k) # {} /\ Slot(n, k) = r /\ Found(m, k) # {} /\ Slot(m, k) = r
    BY <1>3, <2>1, <2>2, GetFacts
  <2>5. dzn_map_get(n, k) = dzn_map_get(m, k)
    BY <1>3, <2>3, <2>4 DEF dzn_map_get
  <2> QED  BY <1>2, <1>4, <2>2, <2>5
<1>6. CASE ~ \E r \in Slots(n) : Holds(n, r, k)
  <2>1. Found(n, k) = {}
    BY <1>3, <1>6, GetFacts
  <2>2. k # j => Found(m, k) = {}
    BY <1>3, <1>6, GetFacts
  <2>3. dzn_map_get(n, k) = None /\ (k # j => dzn_map_get(m, k) = None)
    BY <2>1, <2>2 DEF dzn_map_get
  <2> QED  BY <1>2, <1>4, <2>3
<1> QED  BY <1>5, <1>6


-------------------------------------------------------------------------------
(***************************************************************************)
(* Every action keeps the invariant.                                       *)
(***************************************************************************)

\* What the invariant says of one map, when r says whether anything was removed.
MapGood(m, r) ==
  /\ MapOK(m) /\ Len(Entries(m)) <= m.size
  /\ OneSlot(m) /\ InChain(m) /\ (~r => NoHole(m))

\* The invariant says so of every map.
LEMMA MapsGood ==
  ASSUME IInv
  PROVE  \A l \in Locator : MapGood(services[l], removed)
BY DEF IInv, TypeOK, OneSlotPerKey, MapInv, MapGood

\* A new table is a good one.
LEMMA EmptyGood ==
  ASSUME NEW n \in Nat, n >= InitialSize, NEW r
  PROVE  /\ MapGood(Empty(n), r) /\ Empty(n).size = 0
         /\ \A s \in Slots(Empty(n)) : \A k : ~Holds(Empty(n), s, k)
<1>1. PICK m : m = Empty(n)
  OBVIOUS
<1>2. /\ MapOK(m) /\ m.size = 0 /\ OneSlot(m) /\ InChain(m) /\ NoHole(m)
      /\ \A s \in Slots(m) : ~InUse(m, s)
      /\ Entries(m) = << >>
  BY <1>1, EmptyMap
<1>3. Len(Entries(m)) <= m.size
  BY <1>2, EmptyFacts
<1> QED  BY <1>1, <1>2, <1>3 DEF MapGood, Holds

\* So is the first one.
LEMMA InitialGood ==
  ASSUME NEW r
  PROVE  /\ MapGood(dzn_map_init, r) /\ dzn_map_init.size = 0
         /\ \A s \in Slots(dzn_map_init) : \A k : ~Holds(dzn_map_init, s, k)
<1>1. InitialSize \in Nat /\ InitialSize >= InitialSize
  BY CMapAssumption
<1> QED  BY <1>1, EmptyGood DEF dzn_map_init

\* Initially there are no locators.
LEMMA InitInv ==
  ASSUME Init
  PROVE  IInv
<1>1. \A l \in Locator : services[l] = dzn_map_init
  BY DEF Init
<1>2. \A l \in Locator : MapGood(services[l], removed) /\ services[l].size = 0
  BY <1>1, InitialGood
<1>3. /\ << >> \in Seq([key : Key, data : Value]) /\ Len(todo) = 0
      /\ self \in Locator /\ MaxSets \in Nat
  BY CMapAssumption, EmptyFacts DEF Init
<1>4. TypeOK
  <2>1. /\ todo \in Seq([key : Key, data : Value]) /\ sets \in 0..MaxSets
        /\ born \subseteq Locator /\ DOMAIN services = Locator /\ todo = << >>
    BY <1>3 DEF Init
  <2>2. removed \in BOOLEAN
    BY DEF Init
  <2> QED  BY <1>2, <1>3, <2>1, <2>2 DEF TypeOK, MapGood
<1>5. OneSlotPerKey /\ MapInv
  BY <1>2 DEF OneSlotPerKey, MapInv, MapGood
<1>6. TodoInv
  BY <1>3 DEF TodoInv
<1>7. RemovedInv /\ BornInv
  BY <1>1 DEF Init, RemovedInv, BornInv
<1>8. CountInv
  BY <1>2, <1>3 DEF Init, CountInv
<1> QED  BY <1>4, <1>5, <1>6, <1>7, <1>8 DEF IInv

\* dzn_locator_init makes a table that is as empty as it was.
LEMMA InitStep ==
  ASSUME IInv, dzn_locator_init
  PROVE  IInv' /\ \A l \in Locator : services'[l] = services[l]
<1>1. Root \in Locator /\ DOMAIN services = Locator
  BY CMapAssumption DEF IInv, TypeOK
<1>2. \A l \in Locator : services'[l] = services[l]
  BY <1>1 DEF IInv, BornInv, dzn_locator_init
<1>3. \A l \in Locator : MapGood(services'[l], removed')
  BY <1>2, MapsGood DEF dzn_locator_init
<1>4. TypeOK'
  BY <1>1, <1>3 DEF IInv, TypeOK, dzn_locator_init, MapGood
<1>5. OneSlotPerKey' /\ MapInv'
  BY <1>3 DEF OneSlotPerKey, MapInv, MapGood
<1>6. self \in Locator /\ services'[self'] = services[self] /\ todo' = todo /\ sets' = sets
  BY <1>2 DEF IInv, TypeOK, dzn_locator_init
<1>7. TodoInv'
  BY <1>6 DEF IInv, TodoInv, dzn_locator_init
<1>8. RemovedInv' /\ BornInv'
  BY <1>2 DEF IInv, RemovedInv, BornInv, dzn_locator_init
<1>9. CountInv'
  BY <1>2, <1>6 DEF IInv, CountInv
<1> QED  BY <1>2, <1>4, <1>5, <1>7, <1>8, <1>9 DEF IInv

\* dzn_locator_set: an element is to be put.
LEMMA SetStep ==
  ASSUME IInv, ~Refill, NEW l \in Locator, NEW k \in Key, NEW v \in Value, dzn_locator_set(l, k, v)
  PROVE  IInv'
<1>1. PICK e \in Elem : e = Element(k, v)
  BY DEF Elem, Element
<1>2. /\ todo' = <<e>> /\ self' = l /\ services' = services /\ born' = born /\ l \in born
      /\ removed' = removed /\ ~removed /\ sets' = sets + 1 /\ sets < MaxSets
  BY <1>1 DEF dzn_locator_set, IInv, TypeOK
<1>3. todo' \in Seq(Elem) /\ Len(todo') = 1
  BY <1>2, ShortFacts
<1>4. TypeOK'
  BY <1>2, <1>3, CMapAssumption DEF IInv, TypeOK, Elem
<1>5. OneSlotPerKey' /\ MapInv'
  BY <1>2 DEF IInv, OneSlotPerKey, MapInv
<1>6. TodoInv'
  BY <1>3 DEF TodoInv
<1>7. RemovedInv' /\ BornInv'
  BY <1>2 DEF IInv, RemovedInv, BornInv
<1>8. CountInv'
  <2>1. \A c \in Locator : services[c].size \in Nat /\ services[c].size <= sets /\ sets \in Nat
    BY DEF IInv, TypeOK, MapOK, CountInv
  <2> QED  BY <1>2, <1>3, <2>1 DEF CountInv
<1> QED  BY <1>4, <1>5, <1>6, <1>7, <1>8 DEF IInv

\* dzn_map_put: a key that is to be put later on is not put now, unless it is the last one.
LEMMA PutStep ==
  ASSUME IInv, dzn_map_put
  PROVE  IInv'
<1>1. /\ todo \in Seq(Elem) /\ self \in Locator /\ self \in born /\ todo # << >> /\ ~removed
      /\ DOMAIN services = Locator /\ sets \in Nat
  BY DEF IInv, TypeOK, RemovedInv, dzn_map_put, Elem
<1>2. PICK m : m = services[self]
  OBVIOUS
<1>3. MapGood(m, FALSE)
  BY <1>1, <1>2, MapsGood DEF MapGood
<1>4. PICK e \in Elem : e = Head(todo) /\ e = todo[1]
  BY <1>1, TailFacts
<1>5. PICK t \in Seq(Elem) : /\ t = Tail(todo) /\ Len(t) = Len(todo) - 1
                             /\ \A i \in 1..Len(todo) - 1 : t[i] = todo[i + 1]
  <2>1. PICK t \in Seq(Elem) : t = Tail(todo)
    BY <1>1, TailFacts
  <2>2. Len(t) = Len(todo) - 1 /\ \A i \in 1..Len(todo) - 1 : t[i] = todo[i + 1]
    BY <1>1, <2>1, TailFacts
  <2> QED  BY <2>1, <2>2
<1>6. PICK n : n = Put(m, e)
  OBVIOUS
<1>7. ~Full(m, e.key)
  BY <1>2, <1>4 DEF dzn_map_put
<1>8. /\ MapOK(n) /\ n.size = m.size + 1 /\ Slots(n) = Slots(m)
      /\ OneSlot(n) /\ InChain(n) /\ NoHole(n)
      /\ \A r \in Slots(m), k \in Key : k # e.key => (Holds(n, r, k) <=> Holds(m, r, k))
  BY <1>3, <1>6, <1>7, PutFacts DEF MapGood
<1>9. MapGood(n, FALSE)
  BY <1>3, <1>6, <1>7, <1>8, PutCounts DEF MapGood
<1>10. /\ todo' = t /\ self' = self /\ born' = born /\ removed' = removed /\ sets' = sets
       /\ DOMAIN services' = Locator
       /\ \A l \in Locator : services'[l] = IF l = self THEN n ELSE services[l]
  BY <1>1, <1>2, <1>4, <1>5, <1>6 DEF dzn_map_put
<1>11. \A l \in Locator : MapGood(services'[l], removed')
  <2> SUFFICES ASSUME NEW l \in Locator PROVE MapGood(services'[l], removed')
    OBVIOUS
  <2>1. CASE l = self
    BY <1>1, <1>9, <1>10, <2>1 DEF MapGood
  <2>2. CASE l # self
    BY <1>10, <2>2, MapsGood
  <2> QED  BY <2>1, <2>2
<1>12. TypeOK'
  BY <1>1, <1>5, <1>10, <1>11 DEF IInv, TypeOK, MapGood, Elem
<1>13. OneSlotPerKey' /\ MapInv'
  BY <1>11 DEF OneSlotPerKey, MapInv, MapGood
<1>14. Len(todo) \in Nat /\ Len(todo) >= 1 /\ 1 \in 1..Len(todo)
  BY <1>1
<1>15. ASSUME NEW i \in 1..Len(t)
       PROVE  \E h \in 1..Len(todo) : h = i + 1 /\ todo[h] = t[i] /\ h > 1 /\ i = h - 1
  <2>1. i \in 1..Len(todo) - 1 /\ i + 1 \in 1..Len(todo) /\ i + 1 > 1 /\ i = i + 1 - 1
    BY <1>5, <1>14
  <2> QED  BY <1>5, <2>1
<1>16. \A i, j \in 1..Len(todo) : i < j /\ todo[i].key = todo[j].key => j = Len(todo)
  BY DEF IInv, TodoInv
<1>17. \A i, j \in 1..Len(t) : i < j /\ t[i].key = t[j].key => j = Len(t)
  <2> SUFFICES ASSUME NEW i \in 1..Len(t), NEW j \in 1..Len(t), i < j, t[i].key = t[j].key
               PROVE  j = Len(t)
    OBVIOUS
  <2>1. PICK g \in 1..Len(todo) : g = i + 1 /\ todo[g] = t[i]
    BY <1>15
  <2>2. PICK h \in 1..Len(todo) : h = j + 1 /\ todo[h] = t[j] /\ j = h - 1
    BY <1>15
  <2>3. g < h
    BY <1>14, <2>1, <2>2
  <2>4. h = Len(todo)
    BY <1>16, <2>1, <2>2, <2>3
  <2> QED  BY <1>5, <2>2, <2>4
<1>18. \A i \in 1..Len(t) : \A s \in Slots(n) : Holds(n, s, t[i].key) => i = Len(t)
  <2> SUFFICES ASSUME NEW i \in 1..Len(t), NEW s \in Slots(n), Holds(n, s, t[i].key)
               PROVE  i = Len(t)
    OBVIOUS
  <2>1. PICK h \in 1..Len(todo) : h = i + 1 /\ todo[h] = t[i] /\ h > 1 /\ i = h - 1
    BY <1>15
  <2>2. t[i].key \in Key
    <3>1. t[i] \in Elem
      OBVIOUS
    <3> QED  BY <3>1 DEF Elem
  <2>3. CASE t[i].key = e.key
    <3>1. h = Len(todo)
      BY <1>4, <1>14, <1>16, <2>1, <2>3
    <3> QED  BY <1>5, <2>1, <3>1
  <2>4. CASE t[i].key # e.key
    <3>1. s \in Slots(m) /\ Holds(m, s, todo[h].key)
      BY <1>8, <2>1, <2>2, <2>4
    <3>2. h = Len(todo)
      BY <1>2, <2>1, <3>1 DEF IInv, TodoInv
    <3> QED  BY <1>5, <2>1, <3>2
  <2> QED  BY <2>3, <2>4
<1>19. services'[self'] = n
  BY <1>1, <1>10
<1>20. TodoInv'
  BY <1>10, <1>17, <1>18, <1>19 DEF TodoInv
<1>21. RemovedInv' /\ BornInv'
  BY <1>1, <1>10 DEF IInv, RemovedInv, BornInv
<1>22. CountInv'
  <2>1. m.size \in Nat /\ m.size + Len(todo) <= sets /\ \A l \in Locator : services[l].size <= sets
    BY <1>2, <1>3 DEF MapGood, MapOK, IInv, CountInv
  <2>2. n.size <= sets /\ n.size + Len(t) <= sets
    BY <1>1, <1>5, <1>8, <1>14, <2>1
  <2> QED  BY <1>10, <1>19, <2>1, <2>2 DEF CountInv
<1> QED  BY <1>12, <1>13, <1>20, <1>21, <1>22 DEF IInv

\* dzn_map_rehash: the table has no two elements with a key, and those that were already
\* to be put are not in it.
LEMMA RehashStep ==
  ASSUME IInv, dzn_map_rehash
  PROVE  IInv'
<1>1. /\ todo \in Seq(Elem) /\ self \in Locator /\ self \in born /\ todo # << >> /\ ~removed
      /\ DOMAIN services = Locator /\ sets \in Nat
  BY DEF IInv, TypeOK, RemovedInv, dzn_map_rehash, Elem
<1>2. PICK m : m = services[self]
  OBVIOUS
<1>3. MapGood(m, FALSE)
  BY <1>1, <1>2, MapsGood DEF MapGood
<1>4. PICK p \in Seq(Elem) : p = Entries(m)
  BY <1>3, EntriesFacts DEF MapGood
<1>5. PICK t \in Seq(Elem) :
        /\ t = p \o todo /\ Len(t) = Len(p) + Len(todo)
        /\ \A i \in 1..Len(p) : t[i] = p[i]
        /\ \A i \in 1..Len(todo) : t[Len(p) + i] = todo[i]
  <2>1. PICK t \in Seq(Elem) : t = p \o todo
    BY <1>1, ConcatFacts
  <2>2. /\ Len(t) = Len(p) + Len(todo)
        /\ \A i \in 1..Len(p) : t[i] = p[i]
        /\ \A i \in 1..Len(todo) : t[Len(p) + i] = todo[i]
    BY <1>1, <2>1, ConcatFacts
  <2> QED  BY <2>1, <2>2
<1>6. PICK n : n = Empty(2 * m.table_size)
  OBVIOUS
<1>7. MapGood(n, FALSE) /\ n.size = 0 /\ \A s \in Slots(n) : \A k : ~Holds(n, s, k)
  <2>1. 2 * m.table_size \in Nat /\ 2 * m.table_size >= InitialSize
    BY <1>3, CMapAssumption DEF MapGood, MapOK
  <2> QED  BY <1>6, <2>1, EmptyGood
<1>8. /\ todo' = t /\ self' = self /\ born' = born /\ removed' = removed /\ sets' = sets
      /\ DOMAIN services' = Locator
      /\ \A l \in Locator : services'[l] = IF l = self THEN n ELSE services[l]
  BY <1>1, <1>2, <1>4, <1>5, <1>6 DEF dzn_map_rehash
<1>9. \A l \in Locator : MapGood(services'[l], removed')
  <2> SUFFICES ASSUME NEW l \in Locator PROVE MapGood(services'[l], removed')
    OBVIOUS
  <2>1. CASE l = self
    BY <1>1, <1>7, <1>8, <2>1 DEF MapGood
  <2>2. CASE l # self
    BY <1>8, <2>2, MapsGood
  <2> QED  BY <2>1, <2>2
<1>10. TypeOK'
  BY <1>1, <1>5, <1>8, <1>9 DEF IInv, TypeOK, MapGood, Elem
<1>11. OneSlotPerKey' /\ MapInv'
  BY <1>9 DEF OneSlotPerKey, MapInv, MapGood
<1>12. services'[self'] = n
  BY <1>1, <1>8
<1>13. Len(p) \in Nat /\ Len(todo) \in Nat
  BY <1>1
<1>14. \A j \in 1..Len(t) : j \in 1..Len(p) \/ \E i \in 1..Len(todo) : j = Len(p) + i
  <2> SUFFICES ASSUME NEW j \in 1..Len(t), j \notin 1..Len(p)
               PROVE  \E i \in 1..Len(todo) : j = Len(p) + i
    OBVIOUS
  <2>1. j - Len(p) \in 1..Len(todo) /\ j = Len(p) + (j - Len(p))
    BY <1>5, <1>13
  <2> QED  BY <2>1
<1>15. \A i, j \in 1..Len(t) : i < j /\ t[i].key = t[j].key => j = Len(t)
  <2> SUFFICES ASSUME NEW i \in 1..Len(t), NEW j \in 1..Len(t), i < j, t[i].key = t[j].key
               PROVE  j = Len(t)
    OBVIOUS
  <2>1. CASE i \in 1..Len(p) /\ j \in 1..Len(p)
    <3>1. \A g, h \in 1..Len(p) : p[g].key = p[h].key => g = h
      BY <1>3, <1>4, EntriesDiffer DEF MapGood
    <3>2. i = j
      BY <1>5, <2>1, <3>1
    <3> QED  BY <2>1, <3>2
  <2>2. CASE i \in 1..Len(p) /\ \E h \in 1..Len(todo) : j = Len(p) + h
    <3>1. PICK h \in 1..Len(todo) : j = Len(p) + h
      BY <2>2
    <3>2. p[i] \in Elements(p) /\ p[i].key = todo[h].key
      BY <1>5, <2>2, <3>1 DEF Elements
    <3>3. PICK s \in Slots(m) : InUse(m, s) /\ m.data[s] = p[i]
      BY <1>3, <1>4, <3>2, EntriesFacts DEF MapGood
    <3>4. Holds(m, s, todo[h].key)
      BY <3>2, <3>3 DEF Holds
    <3>5. h = Len(todo)
      BY <1>2, <3>4 DEF IInv, TodoInv
    <3> QED  BY <1>5, <3>1, <3>5
  <2>3. CASE /\ \E g \in 1..Len(todo) : i = Len(p) + g
             /\ \E h \in 1..Len(todo) : j = Len(p) + h
    <3>1. PICK g \in 1..Len(todo) : i = Len(p) + g
      BY <2>3
    <3>2. PICK h \in 1..Len(todo) : j = Len(p) + h
      BY <2>3
    <3>3. g < h /\ todo[g].key = todo[h].key
      BY <1>5, <1>13, <3>1, <3>2
    <3>4. h = Len(todo)
      BY <3>3 DEF IInv, TodoInv
    <3> QED  BY <1>5, <3>2, <3>4
  <2>4. CASE j \in 1..Len(p) /\ \E g \in 1..Len(todo) : i = Len(p) + g
    BY <1>13, <2>4
  <2> QED  BY <1>14, <2>1, <2>2, <2>3, <2>4
<1>16. TodoInv'
  BY <1>7, <1>8, <1>12, <1>15 DEF TodoInv
<1>17. RemovedInv' /\ BornInv'
  BY <1>1, <1>8 DEF IInv, RemovedInv, BornInv
<1>18. CountInv'
  <2>1. /\ m.size \in Nat /\ Len(p) <= m.size
        /\ m.size + Len(todo) <= sets /\ \A l \in Locator : services[l].size <= sets
    BY <1>2, <1>3, <1>4 DEF MapGood, MapOK, IInv, CountInv
  <2>2. n.size <= sets /\ n.size + Len(t) <= sets
    BY <1>1, <1>5, <1>7, <1>13, <2>1
  <2> QED  BY <1>8, <1>12, <2>1, <2>2 DEF CountInv
<1> QED  BY <1>10, <1>11, <1>16, <1>17, <1>18 DEF IInv

\* The elements that iterate visits have keys of their own.
LEMMA IterateFacts ==
  ASSUME NEW m, MapGood(m, FALSE)
  PROVE  LET t == dzn_map_iterate(m) IN
         /\ t \in Seq(Elem) /\ Len(t) <= m.size
         /\ \A i, j \in 1..Len(t) : t[i].key = t[j].key => i = j
<1>1. PICK t : t = dzn_map_iterate(m)
  OBVIOUS
<1>2. CASE dzn_map_length(m) = 0
  <2>1. t = << >>
    BY <1>1, <1>2 DEF dzn_map_iterate
  <2>2. t \in Seq(Elem) /\ Len(t) = 0 /\ m.size \in Nat
    BY <2>1, EmptyFacts DEF MapGood, MapOK
  <2> QED  BY <1>1, <2>2
<1>3. CASE dzn_map_length(m) # 0
  <2>1. t = Entries(m)
    BY <1>1, <1>3 DEF dzn_map_iterate
  <2>2. t \in Seq(Elem) /\ Len(t) <= m.size
    BY <2>1, EntriesFacts DEF MapGood
  <2>3. \A i, j \in 1..Len(t) : t[i].key = t[j].key => i = j
    BY <2>1, EntriesDiffer DEF MapGood
  <2> QED  BY <1>1, <2>2, <2>3
<1> QED  BY <1>2, <1>3

\* dzn_locator_clone: what is to be put is in the other table, this one is empty.
LEMMA CloneStep ==
  ASSUME IInv, ~Refill, NEW l \in Locator, NEW c \in Locator, dzn_locator_clone(l, c)
  PROVE  IInv'
<1>1. /\ todo = << >> /\ l \in born /\ c \notin born /\ ~removed /\ born \subseteq Locator
      /\ DOMAIN services = Locator /\ sets \in Nat
  BY DEF IInv, TypeOK, dzn_locator_clone
<1>2. PICK m : m = services[l]
  OBVIOUS
<1>3. MapGood(m, FALSE)
  BY <1>1, <1>2, MapsGood DEF MapGood
<1>4. PICK t \in Seq(Elem) : t = dzn_map_iterate(m)
  BY <1>3, IterateFacts
<1>5. Len(t) <= m.size /\ \A i, j \in 1..Len(t) : t[i].key = t[j].key => i = j
  BY <1>3, <1>4, IterateFacts
<1>6. PICK n : n = dzn_map_init
  OBVIOUS
<1>7. MapGood(n, FALSE) /\ n.size = 0 /\ \A s \in Slots(n) : \A k : ~Holds(n, s, k)
  BY <1>6, InitialGood
<1>8. /\ todo' = t /\ self' = c /\ born' = born \cup {c} /\ removed' = removed /\ sets' = sets
      /\ DOMAIN services' = Locator
      /\ \A x \in Locator : services'[x] = IF x = c THEN n ELSE services[x]
  BY <1>1, <1>2, <1>4, <1>6 DEF dzn_locator_clone
<1>9. \A x \in Locator : MapGood(services'[x], removed')
  <2> SUFFICES ASSUME NEW x \in Locator PROVE MapGood(services'[x], removed')
    OBVIOUS
  <2>1. CASE x = c
    BY <1>1, <1>7, <1>8, <2>1 DEF MapGood
  <2>2. CASE x # c
    BY <1>8, <2>2, MapsGood
  <2> QED  BY <2>1, <2>2
<1>10. TypeOK'
  BY <1>1, <1>4, <1>8, <1>9 DEF IInv, TypeOK, MapGood, Elem
<1>11. OneSlotPerKey' /\ MapInv'
  BY <1>9 DEF OneSlotPerKey, MapInv, MapGood
<1>12. services'[self'] = n
  BY <1>8
<1>13. Len(t) \in Nat
  OBVIOUS
<1>14. TodoInv'
  <2>1. \A i, j \in 1..Len(t) : ~ (i < j /\ t[i].key = t[j].key)
    BY <1>5, <1>13
  <2> QED  BY <1>7, <1>8, <1>12, <2>1 DEF TodoInv
<1>15. RemovedInv' /\ BornInv'
  BY <1>1, <1>8 DEF IInv, RemovedInv, BornInv
<1>16. CountInv'
  <2>1. m.size \in Nat /\ m.size <= sets /\ \A x \in Locator : services[x].size <= sets
    BY <1>2, <1>3 DEF MapGood, MapOK, IInv, CountInv
  <2>2. n.size <= sets /\ n.size + Len(t) <= sets
    BY <1>1, <1>5, <1>7, <1>13, <2>1
  <2> QED  BY <1>8, <1>12, <2>1, <2>2 DEF CountInv
<1> QED  BY <1>10, <1>11, <1>14, <1>15, <1>16 DEF IInv

\* dzn_map_remove: there may be a hole, but nothing is to be put any more.
LEMMA RemoveStep ==
  ASSUME IInv, NEW k \in Key, remove(k)
  PROVE  IInv'
<1>1. /\ todo = << >> /\ Root \in born /\ Root \in Locator /\ self \in Locator
      /\ DOMAIN services = Locator /\ sets \in Nat /\ todo \in Seq(Elem)
  BY CMapAssumption DEF IInv, TypeOK, remove, Elem
<1>2. PICK m : m = services[Root]
  OBVIOUS
<1>3. MapOK(m) /\ Len(Entries(m)) <= m.size /\ OneSlot(m) /\ InChain(m)
  BY <1>1, <1>2, MapsGood DEF MapGood
<1>4. PICK n : n = dzn_map_remove(m, k)
  OBVIOUS
<1>5. Found(m, k) # {}
  BY <1>2 DEF remove
<1>6. MapOK(n) /\ n.size = m.size - 1 /\ OneSlot(n) /\ InChain(n) /\ Len(Entries(n)) <= n.size
  BY <1>3, <1>4, <1>5, RemoveFacts
<1>7. /\ todo' = << >> /\ todo' \in Seq(Elem) /\ self' = self /\ born' = born /\ sets' = sets
      /\ DOMAIN services' = Locator
      /\ \A x \in Locator : services'[x] = IF x = Root THEN n ELSE services[x]
  BY <1>1, <1>2, <1>4 DEF remove
<1>8. removed' /\ removed' \in BOOLEAN
  BY DEF remove
<1>9. \A x \in Locator : /\ MapOK(services'[x]) /\ Len(Entries(services'[x])) <= services'[x].size
                         /\ OneSlot(services'[x]) /\ InChain(services'[x])
  <2> SUFFICES ASSUME NEW x \in Locator
               PROVE  /\ MapOK(services'[x]) /\ Len(Entries(services'[x])) <= services'[x].size
                      /\ OneSlot(services'[x]) /\ InChain(services'[x])
    OBVIOUS
  <2>1. CASE x = Root
    BY <1>6, <1>7, <2>1
  <2>2. CASE x # Root
    BY <1>7, <2>2, MapsGood DEF MapGood
  <2> QED  BY <2>1, <2>2
<1>10. TypeOK'
  BY <1>1, <1>7, <1>8, <1>9 DEF IInv, TypeOK, Elem
<1>11. OneSlotPerKey' /\ MapInv'
  BY <1>8, <1>9 DEF OneSlotPerKey, MapInv
<1>12. Len(todo') = 0
  BY <1>7, EmptyFacts
<1>13. TodoInv'
  BY <1>12 DEF TodoInv
<1>14. RemovedInv' /\ BornInv'
  BY <1>1, <1>7 DEF IInv, RemovedInv, BornInv
<1>15. CountInv'
  <2>1. \A x \in Locator : services[x].size \in Nat /\ services[x].size <= sets
    BY MapsGood DEF MapGood, MapOK, IInv, CountInv
  <2>2. \A x \in Locator : services'[x].size \in Nat /\ services'[x].size <= sets
    <3> SUFFICES ASSUME NEW x \in Locator
                 PROVE  services'[x].size \in Nat /\ services'[x].size <= sets
      OBVIOUS
    <3>1. services'[x].size \in Nat
      BY <1>9 DEF MapOK
    <3>2. services'[x].size = services[x].size \/ services'[x].size = services[x].size - 1
      BY <1>2, <1>6, <1>7
    <3> QED  BY <1>1, <2>1, <3>1, <3>2
  <2> QED  BY <1>1, <1>7, <1>12, <2>2 DEF CountInv
<1> QED  BY <1>10, <1>11, <1>13, <1>14, <1>15 DEF IInv

\* A step that changes nothing.
LEMMA StutterStep ==
  ASSUME IInv, UNCHANGED vars
  PROVE  IInv'
BY DEF IInv, vars, TypeOK, OneSlotPerKey, MapInv, TodoInv, RemovedInv, BornInv, CountInv

\* The inductive invariant holds of every behaviour.
LEMMA InvariantHolds ==
  ASSUME ~Refill
  PROVE  Spec => []IInv
<1>1. Init => IInv
  BY InitInv
<1>2. IInv /\ [Next]_vars => IInv'
  <2> SUFFICES ASSUME IInv, [Next]_vars PROVE IInv'
    OBVIOUS
  <2>1. CASE dzn_locator_init
    BY <2>1, InitStep
  <2>2. CASE \E l, c \in Locator : dzn_locator_clone(l, c)
    BY <2>2, CloneStep
  <2>3. CASE \E l \in Locator, k \in Key, v \in Value : dzn_locator_set(l, k, v)
    BY <2>3, SetStep
  <2>4. CASE dzn_map_put
    BY <2>4, PutStep
  <2>5. CASE dzn_map_rehash
    BY <2>5, RehashStep
  <2>6. CASE \E k \in Key : remove(k)
    BY <2>6, RemoveStep
  <2>7. CASE UNCHANGED vars
    BY <2>7, StutterStep
  <2> QED  BY <2>1, <2>2, <2>3, <2>4, <2>5, <2>6, <2>7 DEF Next
<1> QED  BY <1>1, <1>2, PTL DEF Spec

\* A key has one slot in the table of a locator (dzn_map_hash looks for the key before
\* it takes a free slot), as long as nothing is set after a remove.
THEOREM KeysHaveOneSlot ==
  ASSUME ~Refill
  PROVE  Spec => []OneSlotPerKey
<1>1. IInv => OneSlotPerKey
  BY DEF IInv
<1> QED  BY <1>1, InvariantHolds, PTL

\* Every variable has its type, no table is more than half full, and the count of a map is
\* at least the number of its elements (dzn_map_hash, dzn_map_put, dzn_map_remove).
THEOREM TypeCorrect ==
  ASSUME ~Refill
  PROVE  Spec => []TypeOK
<1>1. IInv => TypeOK
  BY DEF IInv
<1> QED  BY <1>1, InvariantHolds, PTL

-------------------------------------------------------------------------------
(***************************************************************************)
(* The refinement: what get returns after each step.                       *)
(***************************************************************************)

\* What a step does to one service, and to no other, is one update of the dictionary.
LEMMA UpdateFacts ==
  ASSUME NEW F, NEW G,
         F = [l \in Locator |-> F[l]], \A l \in Locator : F[l] = [k \in Key |-> F[l][k]],
         G = [l \in Locator |-> G[l]], \A l \in Locator : G[l] = [k \in Key |-> G[l][k]],
         NEW x \in Locator, NEW j \in Key, NEW v,
         \A l \in Locator, k \in Key : G[l][k] = IF l = x /\ k = j THEN v ELSE F[l][k]
  PROVE  G = [F EXCEPT ![x][j] = v]
OBVIOUS

\* Between two operations the table counts.
LEMMA LookupWhenIdle ==
  ASSUME todo = << >>, NEW l, NEW k
  PROVE  Lookup(l, k) = LookupIn(<< >>, services[l], k)
BY DEF Lookup

\* dzn_locator_init is Create: it changes no service.
LEMMA InitRefines ==
  ASSUME IInv, dzn_locator_init
  PROVE  \A l \in Locator, k \in Key : Lookup(l, k)' = Lookup(l, k)
<1>1. self' = self /\ todo' = todo
  BY DEF dzn_locator_init
<1> QED  BY <1>1, InitStep DEF Lookup

\* dzn_locator_set is Set.
LEMMA SetRefines ==
  ASSUME IInv, NEW x \in Locator, NEW j \in Key, NEW v \in Value, dzn_locator_set(x, j, v)
  PROVE  \A l \in Locator, k \in Key :
           Lookup(l, k)' = IF l = x /\ k = j THEN v ELSE Lookup(l, k)
<1> SUFFICES ASSUME NEW l \in Locator, NEW k \in Key
             PROVE  Lookup(l, k)' = IF l = x /\ k = j THEN v ELSE Lookup(l, k)
  OBVIOUS
<1>1. PICK e \in Elem : e = Element(j, v) /\ e.key = j /\ e.data = v
  <2>1. PICK e \in Elem : e = Element(j, v)
    BY DEF Elem, Element
  <2>2. e.key = j /\ e.data = v
    BY <2>1 DEF Element
  <2> QED  BY <2>1, <2>2
<1>2. todo = << >> /\ todo' = <<e>> /\ self' = x /\ services' = services
  BY <1>1 DEF dzn_locator_set
<1>3. Lookup(l, k) = LookupIn(<< >>, services[l], k)
  BY <1>2, LookupWhenIdle
<1>4. CASE l = x
  <2>1. Lookup(l, k)' = LookupIn(<<e>>, services[l], k)
    BY <1>2, <1>4 DEF Lookup
  <2>2. LookupIn(<<e>>, services[l], k) =
          IF k = e.key THEN e.data ELSE LookupIn(<< >>, services[l], k)
    BY LookupSet
  <2> QED  BY <1>1, <1>3, <1>4, <2>1, <2>2
<1>5. CASE l # x
  <2>1. Lookup(l, k)' = LookupIn(<< >>, services[l], k)
    BY <1>2, <1>5 DEF Lookup
  <2> QED  BY <1>3, <1>5, <2>1
<1> QED  BY <1>4, <1>5

\* iterate visits all elements, as long as dzn_map_length can count them.
LEMMA IterateAll ==
  ASSUME NEW m, MapGood(m, FALSE), m.size < LengthMod
  PROVE  dzn_map_iterate(m) = Entries(m)
<1>1. /\ m.size \in Nat /\ LengthMod \in Nat \ {0}
      /\ Entries(m) \in Seq(Elem) /\ Len(Entries(m)) <= m.size
  BY CMapAssumption, EntriesFacts DEF MapGood, MapOK
<1>2. m.size % LengthMod = m.size
  BY <1>1
<1>3. m.size = 0 => Entries(m) = << >>
  BY <1>1
<1> QED  BY <1>2, <1>3 DEF dzn_map_iterate, dzn_map_length

\* dzn_locator_clone is Clone.
LEMMA CloneRefines ==
  ASSUME IInv, ~Refill, MaxSets < LengthMod, NEW y \in Locator, NEW c \in Locator,
         dzn_locator_clone(y, c)
  PROVE  \A l \in Locator, k \in Key :
           Lookup(l, k)' = IF l = c THEN Lookup(y, k) ELSE Lookup(l, k)
<1> SUFFICES ASSUME NEW l \in Locator, NEW k \in Key
             PROVE  Lookup(l, k)' = IF l = c THEN Lookup(y, k) ELSE Lookup(l, k)
  OBVIOUS
<1>1. /\ todo = << >> /\ ~removed /\ DOMAIN services = Locator /\ self' = c
      /\ sets \in Nat /\ sets <= MaxSets /\ MaxSets \in Nat /\ LengthMod \in Nat
  BY CMapAssumption DEF IInv, TypeOK, dzn_locator_clone
<1>2. PICK m : m = services[y]
  OBVIOUS
<1>3. MapGood(m, FALSE)
  BY <1>1, <1>2, MapsGood DEF MapGood
<1>4. m.size < LengthMod
  <2>1. m.size \in Nat /\ m.size <= sets
    BY <1>2, <1>3 DEF MapGood, MapOK, IInv, CountInv
  <2> QED  BY <1>1, <2>1
<1>5. todo' = Entries(m)
  BY <1>2, <1>3, <1>4, IterateAll DEF dzn_locator_clone
<1>6. /\ Lookup(l, k) = LookupIn(<< >>, services[l], k)
      /\ Lookup(y, k) = LookupIn(<< >>, m, k)
  BY <1>1, <1>2, LookupWhenIdle
<1>7. CASE l = c
  <2>1. services'[l] = Empty(InitialSize)
    BY <1>1, <1>7 DEF dzn_locator_clone, dzn_map_init
  <2>2. Lookup(l, k)' = LookupIn(Entries(m), Empty(InitialSize), k)
    BY <1>1, <1>5, <1>7, <2>1 DEF Lookup
  <2>3. PICK p \in Seq(Elem) : p = Entries(m)
    BY <1>3, EntriesFacts DEF MapGood
  <2>4. PICK o \in Seq(Elem) : o = << >>
    <3>1. << >> \in Seq(Elem)
      OBVIOUS
    <3> QED  BY <3>1
  <2>5. PICK z : z = p /\ z = p \o o
    BY <2>4
  <2>6. InitialSize \in Nat /\ InitialSize >= InitialSize
    BY CMapAssumption
  <2>7. LookupIn(Entries(m) \o o, Empty(InitialSize), k) = LookupIn(o, m, k)
    BY <1>3, <2>6, LookupRehash DEF MapGood
  <2> QED  BY <1>6, <1>7, <2>2, <2>3, <2>4, <2>5, <2>7
<1>8. CASE l # c
  <2>1. Lookup(l, k)' = LookupIn(<< >>, services[l], k)
    BY <1>1, <1>8 DEF Lookup, dzn_locator_clone
  <2> QED  BY <1>6, <1>8, <2>1
<1> QED  BY <1>7, <1>8

\* dzn_map_put is a step that Dictionary does not see.
LEMMA PutRefines ==
  ASSUME IInv, dzn_map_put
  PROVE  \A l \in Locator, k \in Key : Lookup(l, k)' = Lookup(l, k)
<1> SUFFICES ASSUME NEW l \in Locator, NEW k \in Key
             PROVE  Lookup(l, k)' = Lookup(l, k)
  OBVIOUS
<1>1. /\ todo \in Seq(Elem) /\ self \in Locator /\ todo # << >> /\ ~removed
      /\ DOMAIN services = Locator /\ self' = self
  BY DEF IInv, TypeOK, RemovedInv, dzn_map_put, Elem
<1>2. PICK m : m = services[self]
  OBVIOUS
<1>3. MapGood(m, FALSE)
  BY <1>1, <1>2, MapsGood DEF MapGood
<1>4. CASE l = self
  <2>1. Lookup(l, k)' = LookupIn(Tail(todo), Put(m, Head(todo)), k)
    BY <1>1, <1>2, <1>4 DEF Lookup, dzn_map_put
  <2>2. Lookup(l, k) = LookupIn(todo, m, k)
    BY <1>2, <1>4 DEF Lookup
  <2>3. ~Full(m, Head(todo).key)
    BY <1>2 DEF dzn_map_put
  <2> QED  BY <1>1, <1>3, <2>1, <2>2, <2>3, LookupPut DEF MapGood
<1>5. CASE l # self
  BY <1>1, <1>5 DEF Lookup, dzn_map_put
<1> QED  BY <1>4, <1>5

\* Nor does it see dzn_map_rehash.
LEMMA RehashRefines ==
  ASSUME IInv, dzn_map_rehash
  PROVE  \A l \in Locator, k \in Key : Lookup(l, k)' = Lookup(l, k)
<1> SUFFICES ASSUME NEW l \in Locator, NEW k \in Key
             PROVE  Lookup(l, k)' = Lookup(l, k)
  OBVIOUS
<1>1. /\ todo \in Seq(Elem) /\ self \in Locator /\ todo # << >> /\ ~removed
      /\ DOMAIN services = Locator /\ self' = self
  BY DEF IInv, TypeOK, RemovedInv, dzn_map_rehash, Elem
<1>2. PICK m : m = services[self]
  OBVIOUS
<1>3. MapGood(m, FALSE)
  BY <1>1, <1>2, MapsGood DEF MapGood
<1>4. CASE l = self
  <2>1. Lookup(l, k)' = LookupIn(Entries(m) \o todo, Empty(2 * m.table_size), k)
    BY <1>1, <1>2, <1>4 DEF Lookup, dzn_map_rehash
  <2>2. Lookup(l, k) = LookupIn(todo, m, k)
    BY <1>2, <1>4 DEF Lookup
  <2>3. 2 * m.table_size \in Nat /\ 2 * m.table_size >= InitialSize
    BY <1>3, CMapAssumption DEF MapGood, MapOK
  <2> QED  BY <1>1, <1>3, <2>1, <2>2, <2>3, LookupRehash DEF MapGood
<1>5. CASE l # self
  BY <1>1, <1>5 DEF Lookup, dzn_map_rehash
<1> QED  BY <1>4, <1>5

\* remove is Drop.
LEMMA RemoveRefines ==
  ASSUME IInv, NEW j \in Key, remove(j)
  PROVE  \A l \in Locator, k \in Key :
           Lookup(l, k)' = IF l = Root /\ k = j THEN None ELSE Lookup(l, k)
<1> SUFFICES ASSUME NEW l \in Locator, NEW k \in Key
             PROVE  Lookup(l, k)' = IF l = Root /\ k = j THEN None ELSE Lookup(l, k)
  OBVIOUS
<1>1. /\ todo = << >> /\ todo' = << >> /\ Root \in Locator /\ DOMAIN services = Locator
      /\ Found(services[Root], j) # {}
  BY CMapAssumption DEF IInv, TypeOK, remove
<1>2. Lookup(l, k) = LookupIn(<< >>, services[l], k)
  BY <1>1, LookupWhenIdle
<1>3. Lookup(l, k)' = LookupIn(<< >>, services'[l], k)
  BY <1>1 DEF Lookup
<1>4. CASE l = Root
  <2>1. services'[l] = dzn_map_remove(services[l], j)
    BY <1>1, <1>4 DEF remove
  <2>2. MapGood(services[l], removed)
    BY MapsGood
  <2>3. LookupIn(<< >>, dzn_map_remove(services[l], j), k) =
          IF k = j THEN None ELSE LookupIn(<< >>, services[l], k)
    BY <1>1, <1>4, <2>2, LookupRemove DEF MapGood
  <2> QED  BY <1>2, <1>3, <1>4, <2>1, <2>3
<1>5. CASE l # Root
  <2>1. services'[l] = services[l]
    BY <1>1, <1>5 DEF remove
  <2> QED  BY <1>2, <1>3, <1>5, <2>1
<1> QED  BY <1>4, <1>5

\* The services that the locators have, as Dictionary sees them.
Dict == [l \in Locator |-> [k \in Key |-> Lookup(l, k)]]

\* Locators are dictionaries (dzn_locator_init, _set, _get, _clone on top of map.c):
\* whatever the hash function and the collisions, get returns what was last set, and a
\* clone has all services of the locator it was made from, as long as nothing is set after
\* a remove and dzn_map_length, a uint8_t, can count the calls of set.
THEOREM LocatorsAreDictionaries ==
  ASSUME ~Refill, MaxSets < LengthMod
  PROVE  Spec => IsDictionary
<1>1. Init => Promise!Init
  <2> SUFFICES ASSUME Init PROVE Promise!Init
    OBVIOUS
  <2>1. InitialSize \in Nat /\ InitialSize >= InitialSize
    BY CMapAssumption
  <2>2. ASSUME NEW l \in Locator, NEW k \in Key
        PROVE  Lookup(l, k) = None
    <3>1. Lookup(l, k) = LookupIn(<< >>, services[l], k)
      BY LookupWhenIdle DEF Init
    <3>2. services[l] = Empty(InitialSize)
      BY DEF Init, dzn_map_init
    <3>3. dzn_map_get(Empty(InitialSize), k) = None
      BY <2>1, EmptyMap
    <3> QED  BY <3>1, <3>2, <3>3, LookupNothing
  <2> QED  BY <2>2 DEF Init, Promise!Init
<1>2. IInv /\ [Next]_vars => [Promise!Next]_(Promise!vars)
  <2> SUFFICES ASSUME IInv, [Next]_vars PROVE [Promise!Next]_(Promise!vars)
    OBVIOUS
  <2>0. PICK F : F = Dict
    OBVIOUS
  <2>1. PICK G : G = Dict'
    OBVIOUS
  <2>2. /\ F = [l \in Locator |-> F[l]] /\ \A l \in Locator : F[l] = [k \in Key |-> F[l][k]]
        /\ \A l \in Locator, k \in Key : F[l][k] = Lookup(l, k)
    BY <2>0 DEF Dict
  <2>3. /\ G = [l \in Locator |-> G[l]] /\ \A l \in Locator : G[l] = [k \in Key |-> G[l][k]]
        /\ \A l \in Locator, k \in Key : G[l][k] = Lookup(l, k)'
    BY <2>1 DEF Dict
  <2>4. ASSUME \A l \in Locator, k \in Key : Lookup(l, k)' = Lookup(l, k)
        PROVE  Dict' = Dict
    <3>1. \A l \in Locator : F[l] = G[l]
      BY <2>2, <2>3, <2>4
    <3> QED  BY <2>0, <2>1, <2>2, <2>3, <3>1
  <2>5. ASSUME NEW x \in Locator, NEW j \in Key, NEW v,
               \A l \in Locator, k \in Key :
                 Lookup(l, k)' = IF l = x /\ k = j THEN v ELSE Lookup(l, k)
        PROVE  Dict' = [Dict EXCEPT ![x][j] = v]
    <3>1. \A l \in Locator, k \in Key : G[l][k] = IF l = x /\ k = j THEN v ELSE F[l][k]
      BY <2>2, <2>3, <2>5
    <3>2. G = [F EXCEPT ![x][j] = v]
      BY <2>2, <2>3, <3>1, UpdateFacts
    <3> QED  BY <2>0, <2>1, <3>2
  <2>6. CASE dzn_locator_init
    <3>1. Dict' = Dict
      BY <2>4, <2>6, InitRefines
    <3>2. Promise!Create
      BY <2>6, <3>1 DEF dzn_locator_init, Promise!Create, Dict
    <3> QED  BY <3>2 DEF Promise!Next
  <2>7. CASE \E l, c \in Locator : dzn_locator_clone(l, c)
    <3>1. PICK y \in Locator, c \in Locator : dzn_locator_clone(y, c)
      BY <2>7
    <3>2. \A l \in Locator, k \in Key : G[l][k] = IF l = c THEN F[y][k] ELSE F[l][k]
      BY <2>2, <2>3, <3>1, CloneRefines
    <3>3. \A l \in Locator : G[l] = IF l = c THEN F[y] ELSE F[l]
      <4> SUFFICES ASSUME NEW l \in Locator PROVE G[l] = IF l = c THEN F[y] ELSE F[l]
        OBVIOUS
      <4>1. CASE l = c
        BY <2>2, <2>3, <3>2, <4>1
      <4>2. CASE l # c
        BY <2>2, <2>3, <3>2, <4>2
      <4> QED  BY <4>1, <4>2
    <3>4. G = [F EXCEPT ![c] = F[y]]
      BY <2>2, <2>3, <3>3
    <3>5. Dict' = [Dict EXCEPT ![c] = Dict[y]]
      BY <2>0, <2>1, <3>4
    <3>6. Promise!Clone(y, c)
      BY <3>1, <3>5 DEF dzn_locator_clone, Promise!Clone, Dict
    <3> QED  BY <3>6 DEF Promise!Next
  <2>8. CASE \E l \in Locator, k \in Key, v \in Value : dzn_locator_set(l, k, v)
    <3>1. PICK x \in Locator, j \in Key, v \in Value : dzn_locator_set(x, j, v)
      BY <2>8
    <3>2. Dict' = [Dict EXCEPT ![x][j] = v]
      BY <2>5, <3>1, SetRefines
    <3>3. Promise!Set(x, j, v)
      BY <3>1, <3>2 DEF dzn_locator_set, Promise!Set, Dict
    <3> QED  BY <3>3 DEF Promise!Next
  <2>9. CASE dzn_map_put
    <3>1. Dict' = Dict
      BY <2>4, <2>9, PutRefines
    <3> QED  BY <2>9, <3>1 DEF dzn_map_put, Promise!vars, Dict
  <2>10. CASE dzn_map_rehash
    <3>1. Dict' = Dict
      BY <2>4, <2>10, RehashRefines
    <3> QED  BY <2>10, <3>1 DEF dzn_map_rehash, Promise!vars, Dict
  <2>11. CASE \E k \in Key : remove(k)
    <3>1. PICK j \in Key : remove(j)
      BY <2>11
    <3>2. Root \in Locator
      BY CMapAssumption
    <3>3. Dict' = [Dict EXCEPT ![Root][j] = None]
      BY <2>5, <3>1, <3>2, RemoveRefines
    <3>4. Promise!Drop(Root, j)
      BY <3>1, <3>3 DEF remove, Promise!Drop, Dict
    <3> QED  BY <3>2, <3>4 DEF Promise!Next
  <2>12. CASE UNCHANGED vars
    <3>1. Dict' = Dict
      BY <2>12 DEF vars, Dict, Lookup
    <3> QED  BY <2>12, <3>1 DEF vars, Promise!vars, Dict
  <2> QED  BY <2>6, <2>7, <2>8, <2>9, <2>10, <2>11, <2>12 DEF Next
<1> QED  BY <1>1, <1>2, InvariantHolds, PTL DEF Spec, IsDictionary, Promise!Spec
===============================================================================
