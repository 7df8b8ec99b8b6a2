--------------------------------- MODULE CMap ---------------------------------
(***************************************************************************)
(* The hash map of the C run-time (map.c) and the locators that keep their *)
(* services in one (locator.c).  A map is open addressed with linear       *)
(* probing over at most MaxChainLength slots and doubles when it is half   *)
(* full or when a chain is.                                                *)
(*                                                                         *)
(* Keys are compared by content; what dzn_map_hash_int makes of a key      *)
(* before it takes the remainder is the constant Hash.  dzn_calloc asserts *)
(* that there is memory (mem.c), so put has no way to fail.                *)
(*                                                                         *)
(* put and rehash call each other: rehash puts the old elements into the   *)
(* new table, which may have to be doubled for one of them.  todo is what  *)
(* these calls, or dzn_map_iterate of a clone, have still to put, innermost*)
(* first.                                                                  *)
(***************************************************************************)
EXTENDS Integers, FiniteSets, Lists

CONSTANTS
  Locator, Key, Value, None,
  Root,            \* the locator that main initializes, the others are clones
  Hash,            \* the hash of each key
  InitialSize,     \* INITIAL_SIZE
  MaxChainLength,  \* MAX_CHAIN_LENGTH
  LengthMod,       \* 2^8: dzn_map_length is a uint8_t
  MaxSets,         \* bound: the number of calls of set
  Refill           \* may a service be set after another one was removed?

ASSUME CMapAssumption ==
  /\ Hash \in [Key -> Nat]
  /\ InitialSize \in Nat \ {0, 1} /\ MaxChainLength \in 1..InitialSize
  /\ LengthMod \in Nat \ {0} /\ MaxSets \in Nat /\ Refill \in BOOLEAN
  /\ None \notin Value \cup [key : Key, data : Value] /\ Root \in Locator

VARIABLES
  born,      \* the locators that exist: initialized, or cloned from another one
  services,  \* dzn_locator::services of each locator
  self,      \* the locator that is being changed
  todo,      \* the elements that are still to be put
  removed,   \* a service was removed
  sets       \* calls of set

vars == <<born, services, self, todo, removed, sets>>

-------------------------------------------------------------------------------
(***************************************************************************)
(* map.c                                                                   *)
(***************************************************************************)

\* calloc'ed data: no slot is in_use.
Empty(n) == [table_size |-> n, size |-> 0, data |-> [i \in 0..n-1 |-> None]]

dzn_map_init == Empty(InitialSize)

\* The slots that a key may be in are probed from its hash on: the i-th of them.
dzn_map_hash_int(m, k) == Hash[k] % m.table_size
Probe(m, k, i) == (dzn_map_hash_int(m, k) + i - 1) % m.table_size

First(S) == CHOOSE i \in S : \A j \in S : i <= j

InUse(m, i) == m.data[i] # None
Holds(m, i, k) == InUse(m, i) /\ m.data[i].key = k

\* Mutant: put does not look for its key.
FitsFree(m, k) == {i \in 1..MaxChainLength : ~InUse(m, Probe(m, k, i))}

\* The places in the chain where put can put key k: free, or in use for k.
Fits(m, k) ==
  {i \in 1..MaxChainLength : ~InUse(m, Probe(m, k, i)) \/ Holds(m, Probe(m, k, i), k)}

\* Mutant: only the chain is tested.
FullChain(m, k) == Fits(m, k) = {}

\* dzn_map_hash returns DZN_MAP_FULL, or the first of these slots.
Full(m, k) == m.size >= m.table_size \div 2 \/ Fits(m, k) = {}

dzn_map_hash(m, k) == Probe(m, k, First(Fits(m, k)))

\* Mutant: the loop over the old table stops one slot early.
EntriesOffByOne(m) ==
  Keep([i \in 1..m.table_size - 1 |-> m.data[i - 1]], [key : Key, data : Value])

\* The elements in use, in the order of the table.
Entries(m) == Keep([i \in 1..m.table_size |-> m.data[i - 1]], [key : Key, data : Value])

Element(k, v) == [key |-> k, data |-> v]

\* A put that finds a slot.  Every put counts, also one that replaces a value.
Put(m, e) == [m EXCEPT !.data[dzn_map_hash(m, e.key)] = e, !.size = @ + 1]

\* get and remove look for the key in all of its chain.
Found(m, k) == {i \in 1..MaxChainLength : Holds(m, Probe(m, k, i), k)}
Slot(m, k) == Probe(m, k, First(Found(m, k)))

dzn_map_get(m, k) == IF Found(m, k) = {} THEN None ELSE m.data[Slot(m, k)].data
dzn_map_remove(m, k) == [m EXCEPT !.data[Slot(m, k)] = None, !.size = @ - 1]

dzn_map_length(m) == m.size % LengthMod

\* The elements that iterate visits.
dzn_map_iterate(m) == IF dzn_map_length(m) = 0 THEN << >> ELSE Entries(m)

-------------------------------------------------------------------------------
(***************************************************************************)
(* locator.c                                                               *)
(***************************************************************************)
Init ==
  /\ born = {} /\ services = [l \in Locator |-> dzn_map_init] /\ self = Root /\ todo = << >>
  /\ removed = FALSE /\ sets = 0

dzn_locator_init ==
  /\ todo = << >> /\ Root \notin born
  /\ born' = born \cup {Root}
  /\ services' = [services EXCEPT ![Root] = dzn_map_init]
  /\ UNCHANGED <<self, todo, removed, sets>>

dzn_locator_set(l, k, v) ==
  /\ todo = << >> /\ l \in born /\ (removed => Refill) /\ sets < MaxSets
  /\ self' = l /\ todo' = <<Element(k, v)>>
  /\ sets' = sets + 1
  /\ UNCHANGED <<born, services, removed>>

\* dzn_map_init, then dzn_map_copy of every element that iterate visits
dzn_locator_clone(l, c) ==
  /\ todo = << >> /\ l \in born /\ c \notin born /\ (removed => Refill)
  /\ born' = born \cup {c}
  /\ services' = [services EXCEPT ![c] = dzn_map_init]
  /\ self' = c /\ todo' = dzn_map_iterate(services[l])
  /\ UNCHANGED <<removed, sets>>

\* put finds a slot ...
dzn_map_put ==
  /\ todo # << >> /\ ~Full(services[self], Head(todo).key)
  /\ services' = [services EXCEPT ![self] = Put(@, Head(todo))]
  /\ todo' = Tail(todo)
  /\ UNCHANGED <<born, self, removed, sets>>

\* ... or doubles the table, puts the old elements in it and tries again.
dzn_map_rehash ==
  /\ todo # << >> /\ Full(services[self], Head(todo).key)
  /\ services' = [services EXCEPT ![self] = Empty(2 * @.table_size)]
  /\ todo' = Entries(services[self]) \o todo
  /\ UNCHANGED <<born, self, removed, sets>>

dzn_locator_get(l, k) == dzn_map_get(services[l], k)

\* A user of map.c removes an element, as the test in map.c does; the run-time itself
\* never does.
remove(k) ==
  /\ todo = << >> /\ Root \in born /\ Found(services[Root], k) # {}
  /\ services' = [services EXCEPT ![Root] = dzn_map_remove(@, k)]
  /\ removed' = TRUE
  /\ UNCHANGED <<born, self, todo, sets>>

Next ==
  \/ dzn_locator_init
  \/ \E l, c \in Locator : dzn_locator_clone(l, c)
  \/ \E l \in Locator, k \in Key, v \in Value : dzn_locator_set(l, k, v)
  \/ dzn_map_put \/ dzn_map_rehash
  \/ \E k \in Key : remove(k)

Spec == Init /\ [][Next]_vars

-------------------------------------------------------------------------------
(***************************************************************************)
(* Properties.                                                             *)
(***************************************************************************)
Slots(m) == 0..m.table_size - 1

MapOK(m) ==
  /\ m = [table_size |-> m.table_size, size |-> m.size, data |-> m.data]
  /\ m.table_size \in Nat /\ m.table_size >= InitialSize
  /\ m.data \in [Slots(m) -> [key : Key, data : Value] \cup {None}]
  /\ m.size \in Nat /\ m.size <= m.table_size \div 2

\* The type of every variable; a map is at most half full, by its own count, and that
\* counts no element too few.
TypeOK ==
  /\ self \in Locator /\ todo \in Seq([key : Key, data : Value])
  /\ removed \in BOOLEAN /\ sets \in 0..MaxSets
  /\ born \subseteq Locator /\ (todo # << >> => self \in born)
  /\ DOMAIN services = Locator
  /\ \A l \in Locator : MapOK(services[l]) /\ Len(Entries(services[l])) <= services[l].size

OneSlot(m) == \A i, j \in Slots(m) : InUse(m, i) /\ Holds(m, j, m.data[i].key) => i = j

\* A key is in one slot, so that iterate visits it once and remove removes it.
OneSlotPerKey == \A l \in Locator : OneSlot(services[l])

\* What get will return of map m when the elements in q have been put.
LookupIn(q, m, k) ==
  LET pending == {i \in 1..Len(q) : q[i].key = k} IN
  IF pending = {} THEN dzn_map_get(m, k)
  ELSE q[CHOOSE i \in pending : \A j \in pending : j <= i].data

\* What get returns when the operation in progress is done.
Lookup(l, k) == LookupIn(IF l = self THEN todo ELSE << >>, services[l], k)

Promise == INSTANCE Dictionary WITH
  dict <- [l \in Locator |-> [k \in Key |-> Lookup(l, k)]]

\* Locators are dictionaries: whatever the collisions and the rehashes, get returns
\* what was last set, and a clone has all services of the locator it was made from.
IsDictionary == Promise!Spec
===============================================================================
