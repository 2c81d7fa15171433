-------------------------- MODULE ComponentsProofs --------------------------
(***************************************************************************)
(* The hash table of HW5/program.c is one counter per key, for every size  *)
(* of the array, every set of keys and every hash function.                *)
(* HW1/my_dup.c: mydup2() of an open descriptor onto another one is        *)
(* dup2(), for every number of descriptors and whatever is open; a main()  *)
(* that succeeds leaves fd1 open and nothing else.  HW1/appendMeMore.c:    *)
(* which bytes are kept, for any number of processes.                      *)
(***************************************************************************)
EXTENDS HashTable, MyDup, AppendMeMore, Lemmas, SequenceTheorems

-----------------------------------------------------------------------------
(* The hash table *)

Nodes == [key : Keys, value : Nat]
KeysFound == {k \in Keys : KeyExists(k)}

\* Every node is in the chain of its hash, and a key is there once.
ChainInv ==
  /\ buckets \in [Indices -> Seq(Nodes)]
  /\ \A i \in Indices : \A n, m \in DOMAIN buckets[i] :
       /\ hash[buckets[i][n].key] = i
       /\ buckets[i][n].key = buckets[i][m].key => n = m

TableInv ==
  /\ ChainInv
  /\ IsFiniteSet(KeysFound)
  /\ count = Cardinality(KeysFound)

-----------------------------------------------------------------------------
(* Lemmas about the walk along a chain *)

LEMMA ChainType ==
  ASSUME ChainInv, NEW i \in Indices
  PROVE  /\ buckets[i] \in Seq(Nodes) /\ Len(buckets[i]) \in Nat
         /\ DOMAIN buckets[i] = 1 .. Len(buckets[i])
         /\ \A n \in DOMAIN buckets[i] : buckets[i][n] \in Nodes
BY DEF ChainInv

LEMMA HashInArray == \A k \in Keys : hash[k] \in Indices
BY HashAssumption

\* The walk stops at the one node with the key, if there is one.
LEMMA WalkFinds ==
  ASSUME ChainInv, NEW k \in Keys, KeyExists(k)
  PROVE  /\ Found(k) \in DOMAIN buckets[hash[k]]
         /\ Matches(k) = {Found(k)}
         /\ buckets[hash[k]][Found(k)].key = k
         /\ get(k) = buckets[hash[k]][Found(k)].value /\ get(k) \in Nat
<1>1. hash[k] \in Indices
  BY HashInArray
<1>2. PICK n \in DOMAIN buckets[hash[k]] : buckets[hash[k]][n].key = k
  BY DEF KeyExists, Matches
<1>3. Matches(k) = {n}
  BY <1>1, <1>2 DEF Matches, ChainInv
<1>4. n \in Nat /\ buckets[hash[k]][n].value \in Nat
  BY <1>1, <1>2, ChainType DEF Nodes
<1>5. Found(k) = n
  BY <1>3, <1>4 DEF Found
<1> QED
  BY <1>2, <1>3, <1>4, <1>5 DEF get

LEMMA NotThere ==
  ASSUME NEW k \in Keys, ~KeyExists(k)
  PROVE  get(k) = 0
BY DEF KeyExists, get

-----------------------------------------------------------------------------
(* insert() *)

LEMMA NodeIncremented ==
  ASSUME NEW node \in Nodes
  PROVE  [node EXCEPT !.value = @ + 1] \in Nodes
BY DEF Nodes

\* Of a key that is there: every chain has its keys, and one value is greater.
LEMMA IncrementStep ==
  ASSUME ChainInv, NEW k \in Keys, KeyExists(k),
         buckets' = [buckets EXCEPT ![hash[k]][Found(k)].value = @ + 1]
  PROVE  /\ ChainInv'
         /\ \A q \in Keys : KeyExists(q)' <=> KeyExists(q)
         /\ \A q \in Keys : get(q)' = IF q = k THEN get(k) + 1 ELSE get(q)
<1> DEFINE h == hash[k]
           f == Found(k)
           chain == [buckets[h] EXCEPT ![f].value = @ + 1]
<1>1. /\ h \in Indices /\ f \in DOMAIN buckets[h] /\ buckets[h][f].key = k
      /\ Matches(k) = {f} /\ get(k) = buckets[h][f].value
  BY HashInArray, WalkFinds
<1>2. buckets[h] \in Seq(Nodes) /\ buckets[h][f] \in Nodes
  BY <1>1, ChainType
<1>3. chain \in Seq(Nodes) /\ DOMAIN chain = DOMAIN buckets[h]
  <2> DEFINE new == [buckets[h][f] EXCEPT !.value = @ + 1]
  <2>2. new \in Nodes
    BY <1>2, NodeIncremented
  <2>3. buckets[h] \in [1 .. Len(buckets[h]) -> Nodes] /\ Len(buckets[h]) \in Nat
    BY <1>2
  <2>4. chain = [buckets[h] EXCEPT ![f] = new]
    OBVIOUS
  <2> HIDE DEF new, chain
  <2>5. chain \in [1 .. Len(buckets[h]) -> Nodes]
    BY <2>2, <2>3, <2>4
  <2> QED
    BY <2>3, <2>5
<1>4. /\ \A n \in DOMAIN buckets[h] : chain[n].key = buckets[h][n].key
      /\ \A n \in DOMAIN buckets[h] :
           chain[n].value = IF n = f THEN buckets[h][n].value + 1 ELSE buckets[h][n].value
  BY <1>1, <1>2, ChainType DEF Nodes
<1>5. buckets' = [buckets EXCEPT ![h] = chain]
  BY <1>1 DEF ChainInv
<1>6. /\ buckets' \in [Indices -> Seq(Nodes)]
      /\ \A i \in Indices : buckets'[i] = IF i = h THEN chain ELSE buckets[i]
  BY <1>1, <1>3, <1>5 DEF ChainInv
<1> HIDE DEF chain, h, f
<1>7. ChainInv'
  BY <1>1, <1>3, <1>4, <1>6 DEF ChainInv
<1>8. ASSUME NEW q \in Keys
      PROVE  Matches(q)' = Matches(q) /\ Found(q)' = Found(q)
  <2>1. hash[q] \in Indices
    BY HashInArray
  <2>2. Matches(q)' = Matches(q)
    BY <1>3, <1>4, <1>6, <2>1 DEF Matches
  <2> QED
    BY <2>2 DEF Found
<1>9. ASSUME NEW q \in Keys
      PROVE  /\ KeyExists(q)' <=> KeyExists(q)
             /\ get(q)' = IF q = k THEN get(k) + 1 ELSE get(q)
  <2>1. KeyExists(q)' <=> KeyExists(q)
    BY <1>8 DEF KeyExists
  <2>2. CASE q = k
    <3>1. Matches(q)' # {} /\ Found(q)' = f
      BY <1>1, <1>8, <2>2 DEF f
    <3>2. buckets'[hash[q]] = chain
      BY <1>1, <1>6, <2>2 DEF h
    <3>3. get(q)' = chain[f].value
      BY <3>1, <3>2 DEF get
    <3> QED
      BY <1>1, <1>4, <2>1, <2>2, <3>3
  <2>3. CASE q # k /\ KeyExists(q)
    <3>1. /\ Found(q) \in DOMAIN buckets[hash[q]] /\ buckets[hash[q]][Found(q)].key = q
          /\ get(q) = buckets[hash[q]][Found(q)].value /\ hash[q] \in Indices
      BY <2>3, WalkFinds, HashInArray
    <3>2. hash[q] = h => Found(q) # f
      BY <1>1, <2>3, <3>1
    <3>3. buckets'[hash[q]][Found(q)].value = buckets[hash[q]][Found(q)].value
      BY <1>4, <1>6, <3>1, <3>2
    <3> QED
      BY <1>8, <2>3, <3>1, <3>3 DEF get, KeyExists
  <2>4. CASE q # k /\ ~KeyExists(q)
    BY <1>8, <2>4 DEF get, KeyExists
  <2> QED
    BY <2>1, <2>2, <2>3, <2>4
<1> QED
  BY <1>7, <1>9

\* Of a key that is not: its chain has one node more, at its head.
LEMMA PrependStep ==
  ASSUME ChainInv, NEW k \in Keys, ~KeyExists(k), NEW v \in Nat,
         buckets' = [buckets EXCEPT ![hash[k]] = Prepend([key |-> k, value |-> v], @)]
  PROVE  /\ ChainInv'
         /\ \A q \in Keys : KeyExists(q)' <=> KeyExists(q) \/ q = k
         /\ \A q \in Keys : get(q)' = IF q = k THEN v ELSE get(q)
<1> DEFINE h == hash[k]
           node == [key |-> k, value |-> v]
           chain == Prepend(node, buckets[h])
<1>1. h \in Indices /\ node \in Nodes /\ node.key = k /\ node.value = v
  BY HashInArray DEF Nodes
<1>2. /\ buckets[h] \in Seq(Nodes) /\ Len(buckets[h]) \in Nat
      /\ DOMAIN buckets[h] = 1 .. Len(buckets[h])
      /\ \A n \in DOMAIN buckets[h] : buckets[h][n].key # k
  BY <1>1, ChainType DEF KeyExists, Matches
<1>3. /\ chain \in Seq(Nodes) /\ DOMAIN chain = 1 .. Len(buckets[h]) + 1
      /\ chain[1] = node
      /\ \A n \in DOMAIN buckets[h] : n + 1 \in DOMAIN chain /\ chain[n + 1] = buckets[h][n]
  BY <1>1, <1>2 DEF Prepend
<1>4. \A n \in DOMAIN chain : n = 1 \/ (n - 1 \in DOMAIN buckets[h] /\ chain[n] = buckets[h][n - 1])
  <2> SUFFICES ASSUME NEW n \in DOMAIN chain, n # 1
               PROVE  n - 1 \in DOMAIN buckets[h] /\ chain[n] = buckets[h][n - 1]
    OBVIOUS
  <2>1. n - 1 \in DOMAIN buckets[h] /\ (n - 1) + 1 = n
    BY <1>2, <1>3
  <2> QED
    BY <1>3, <2>1
<1>5. /\ buckets' \in [Indices -> Seq(Nodes)]
      /\ \A i \in Indices : buckets'[i] = IF i = h THEN chain ELSE buckets[i]
  BY <1>1, <1>3 DEF ChainInv
<1> HIDE DEF chain, h, node
<1>6. ASSUME NEW n \in DOMAIN chain, NEW m \in DOMAIN chain
      PROVE  hash[chain[n].key] = h /\ (chain[n].key = chain[m].key => n = m)
  <2>1. \A l \in DOMAIN buckets[h] : hash[buckets[h][l].key] = h
    BY <1>1 DEF ChainInv
  <2>2. hash[chain[n].key] = h
    BY <1>1, <1>3, <1>4, <2>1 DEF h
  <2>3. chain[n].key = chain[m].key => n = m
    <3>1. CASE n = 1 \/ m = 1
      <4>1. \A l \in DOMAIN chain : chain[l].key = k => l = 1
        BY <1>2, <1>4
      <4>2. chain[1].key = k
        BY <1>1, <1>3
      <4> QED
        BY <3>1, <4>1, <4>2
    <3>2. CASE n # 1 /\ m # 1
      <4>1. chain[n].key = chain[m].key => n - 1 = m - 1
        BY <1>1, <1>4, <3>2 DEF ChainInv
      <4>2. n \in Int /\ m \in Int
        BY <1>2, <1>3
      <4> QED
        BY <4>1, <4>2
    <3> QED
      BY <3>1, <3>2
  <2> QED
    BY <2>2, <2>3
<1>7. ChainInv'
  BY <1>5, <1>6 DEF ChainInv
<1>8. Matches(k)' = {1}
  <2>1. buckets'[hash[k]] = chain
    BY <1>1, <1>5 DEF h
  <2>2. \A n \in DOMAIN chain : chain[n].key = k <=> n = 1
    BY <1>1, <1>2, <1>3, <1>4
  <2>3. 1 \in DOMAIN chain
    BY <1>2, <1>3
  <2> QED
    BY <2>1, <2>2, <2>3 DEF Matches
<1>9. KeyExists(k)' /\ get(k)' = v
  <2>1. Found(k)' = 1
    BY <1>8 DEF Found
  <2> QED
    BY <1>1, <1>3, <1>5, <1>8, <2>1 DEF KeyExists, get, h
<1>10. ASSUME NEW q \in Keys, q # k
       PROVE  (KeyExists(q)' <=> KeyExists(q)) /\ get(q)' = get(q)
  <2>0. hash[q] \in Indices
    BY HashInArray
  <2>1. CASE hash[q] # h
    <3>1. Matches(q)' = Matches(q)
      BY <1>5, <2>0, <2>1 DEF Matches
    <3>2. Found(q)' = Found(q)
      BY <3>1 DEF Found
    <3> QED
      BY <1>5, <2>0, <2>1, <3>1, <3>2 DEF KeyExists, get
  <2>2. CASE hash[q] = h /\ KeyExists(q)
    <3>1. /\ Found(q) \in DOMAIN buckets[h] /\ buckets[h][Found(q)].key = q
          /\ get(q) = buckets[h][Found(q)].value
      BY <2>2, WalkFinds
    <3>2. Found(q) + 1 \in DOMAIN chain /\ chain[Found(q) + 1] = buckets[h][Found(q)]
          /\ Found(q) + 1 \in Int
      BY <1>2, <1>3, <3>1
    <3>3. Matches(q)' = {Found(q) + 1}
      <4>1. buckets'[hash[q]] = chain
        BY <1>5, <2>0, <2>2
      <4>2. \A n \in DOMAIN chain : chain[n].key = q <=> n = Found(q) + 1
        BY <1>6, <3>1, <3>2
      <4> QED
        BY <3>2, <4>1, <4>2 DEF Matches
    <3>4. Found(q)' = Found(q) + 1
      BY <3>2, <3>3 DEF Found
    <3>5. buckets'[hash[q]][Found(q) + 1] = buckets[h][Found(q)]
      BY <1>5, <2>0, <2>2, <3>2
    <3>6. get(q)' = buckets'[hash[q]][Found(q) + 1].value
      BY <3>3, <3>4 DEF get
    <3>7. KeyExists(q)'
      BY <3>3 DEF KeyExists
    <3> QED
      BY <2>2, <3>1, <3>5, <3>6, <3>7
  <2>3. CASE hash[q] = h /\ ~KeyExists(q)
    <3>1. \A n \in DOMAIN chain : chain[n].key # q
      BY <1>1, <1>3, <1>4, <1>10, <2>3 DEF KeyExists, Matches
    <3>2. Matches(q)' = {}
      BY <1>5, <2>0, <2>3, <3>1 DEF Matches
    <3> QED
      BY <2>3, <3>2, NotThere DEF KeyExists, get
  <2> QED
    BY <2>1, <2>2, <2>3
<1> QED
  BY <1>7, <1>9, <1>10

-----------------------------------------------------------------------------
(* The table *)

LEMMA CountStep ==
  ASSUME TableInv, NEW k \in Keys, CountType(k)
  PROVE  TableInv' /\ \A q \in Keys : get(q)' = IF q = k THEN get(k) + 1 ELSE get(q)
<1>1. CASE KeyExists(k)
  <2>1. buckets' = [buckets EXCEPT ![hash[k]][Found(k)].value = @ + 1] /\ count' = count
    BY <1>1 DEF CountType, insert
  <2>2. /\ ChainInv' /\ KeysFound' = KeysFound
        /\ \A q \in Keys : get(q)' = IF q = k THEN get(k) + 1 ELSE get(q)
    BY <1>1, <2>1, IncrementStep DEF TableInv, KeysFound
  <2> QED
    BY <2>1, <2>2 DEF TableInv
<1>2. CASE ~KeyExists(k)
  <2>1. get(k) = 0 /\ get(k) + 1 = 1
    BY <1>2, NotThere
  <2>2. /\ buckets' = [buckets EXCEPT ![hash[k]] = Prepend([key |-> k, value |-> 1], @)]
        /\ count' = count + 1
    BY <1>2, <2>1 DEF CountType, insert
  <2>3. /\ ChainInv' /\ KeysFound' = KeysFound \cup {k} /\ k \notin KeysFound
        /\ \A q \in Keys : get(q)' = IF q = k THEN 1 ELSE get(q)
    BY <1>2, <2>2, PrependStep DEF TableInv, KeysFound
  <2>4. IsFiniteSet(KeysFound)' /\ Cardinality(KeysFound') = Cardinality(KeysFound) + 1
    BY <2>3, FS_AddElement DEF TableInv
  <2> QED
    BY <2>1, <2>2, <2>3, <2>4 DEF TableInv
<1> QED
  BY <1>1, <1>2

LEMMA TableInvInit == TableInit => TableInv /\ \A k \in Keys : get(k) = 0
<1> SUFFICES ASSUME TableInit PROVE TableInv /\ \A k \in Keys : get(k) = 0
  OBVIOUS
<1>1. \A i \in Indices : buckets[i] = <<>> /\ DOMAIN buckets[i] = {}
  BY DEF TableInit
<1>2. ChainInv
  BY <1>1 DEF TableInit, ChainInv
<1>3. \A k \in Keys : ~KeyExists(k)
  BY <1>1, HashInArray DEF KeyExists, Matches
<1>4. KeysFound = {}
  BY <1>3 DEF KeysFound
<1> QED
  BY <1>2, <1>3, <1>4, NotThere, FS_EmptySet DEF TableInit, TableInv

LEMMA TableInvNext == TableInv /\ [TableNext]_tableVars => TableInv'
<1> SUFFICES ASSUME TableInv, [TableNext]_tableVars PROVE TableInv'
  OBVIOUS
<1>1. CASE TableNext
  BY <1>1, CountStep DEF TableNext
<1>2. CASE UNCHANGED tableVars
  BY <1>2 DEF tableVars, TableInv, ChainInv, KeysFound, KeyExists, Matches
<1> QED
  BY <1>1, <1>2

\* A key has one node at most, in the chain of its hash, so that the report
\* prints every type once, and count is their number (lines 598-606).
THEOREM OneNode == TableSpec => []OneNodePerKey
<1>1. TableInv => OneNodePerKey
  BY DEF TableInv, ChainInv, KeysFound, OneNodePerKey
<1> QED
  BY <1>1, TableInvInit, TableInvNext, PTL DEF TableSpec

\* Counting a type increments its counter and touches no other, whatever the
\* hash function and however many keys share a chain.
THEOREM TableImplementsCounters == TableSpec => ImplementsCounters
<1>1. TableInit => Counters!Init
  BY TableInvInit DEF Counters!Init
<1>2. TableInv /\ [TableNext]_tableVars => [Counters!Next]_[k \in Keys |-> get(k)]
  <2> SUFFICES ASSUME TableInv, [TableNext]_tableVars
               PROVE  Counters!Next \/ UNCHANGED [k \in Keys |-> get(k)]
    OBVIOUS
  <2>1. ASSUME NEW k \in Keys, CountType(k) PROVE Counters!Increment(k)
    <3>1. \A q \in Keys : get(q)' = IF q = k THEN get(k) + 1 ELSE get(q)
      BY <2>1, CountStep
    <3> QED
      BY <3>1 DEF Counters!Increment
  <2>2. CASE UNCHANGED tableVars
    BY <2>2 DEF tableVars, get, Found, Matches
  <2> QED
    BY <2>1, <2>2 DEF TableNext, Counters!Next
<1> QED
  BY <1>1, <1>2, TableInvInit, TableInvNext, PTL DEF TableSpec, ImplementsCounters, Counters!Spec

-----------------------------------------------------------------------------
(* mydup2() *)

Tables == [Fds -> {Closed, Inherited, File}]

LEMMA FdsAreNumbers == Fds \subseteq Nat
BY DupAssumption DEF Fds

\* The kernel's choice is the descriptor asked for, when that one is free.
LEMMA LowestIsMin ==
  ASSUME NEW t, NEW min \in Fds, t[min] = Closed
  PROVE  min \in Free(t, min) /\ Lowest(Free(t, min)) = min
<1>1. min \in Free(t, min) /\ \A f \in Free(t, min) : f \in Nat /\ min <= f
  BY FdsAreNumbers DEF Free
<1>2. \E f \in Free(t, min) : \A g \in Free(t, min) : f <= g
  BY <1>1
<1>3. /\ Lowest(Free(t, min)) \in Free(t, min)
      /\ \A g \in Free(t, min) : Lowest(Free(t, min)) <= g
  BY <1>2 DEF Lowest
<1>4. Lowest(Free(t, min)) \in Nat /\ min \in Nat
  BY <1>1, <1>3
<1> QED
  BY <1>1, <1>3, <1>4

\* Closing first and duplicating then comes to the same as dup2(), if oldfd is
\* open and not the descriptor that is closed.
LEMMA SameCall ==
  ASSUME NEW t \in Tables, NEW old \in Int, NEW new \in Int, IsOpen(t, old), old # new
  PROVE  mydup2(t, old, new) = dup2(t, old, new)
<1> DEFINE c == Cleared(t, new)
<1>1. CASE new \in Fds
  <2>1. c \in Tables /\ c[new] = Closed /\ c[old] = t[old] /\ IsOpen(c, old)
    BY <1>1 DEF Cleared, CloseIn, IsOpen, Tables
  <2>2. new \in Free(c, new) /\ Lowest(Free(c, new)) = new
    BY <1>1, <2>1, LowestIsMin
  <2>3. mydup2(t, old, new) = [table |-> [c EXCEPT ![new] = c[old]], res |-> new]
    BY <1>1, <2>1, <2>2 DEF mydup2, DupFd
  <2>4. [c EXCEPT ![new] = c[old]] = [t EXCEPT ![new] = t[old]]
    BY <1>1, <2>1 DEF Cleared, CloseIn, Tables
  <2> QED
    BY <1>1, <2>3, <2>4 DEF dup2
<1>2. CASE new \notin Fds
  <2>1. c = t
    BY <1>2 DEF Cleared, IsOpen
  <2> QED
    BY <1>2, <2>1 DEF mydup2, DupFd, dup2
<1> QED
  BY <1>1, <1>2

\* What a call makes of a table is a table.
LEMMA CallsKeepTables ==
  ASSUME NEW t \in Tables, NEW f, NEW g
  PROVE  /\ CloseIn(t, f) \in Tables
         /\ [t EXCEPT ![f] = File] \in Tables
         /\ DupFd(t, f, g).table \in Tables
         /\ dup2(t, f, g).table \in Tables
         /\ mydup(t, f).table \in Tables
BY DEF Tables, CloseIn, DupFd, dup2, mydup, IsOpen

LEMMA ClearedTable ==
  ASSUME NEW t \in Tables, NEW f, NEW g
  PROVE  mydup2(t, f, g).table \in Tables
<1>1. Cleared(t, g) \in Tables
  BY CallsKeepTables DEF Cleared
<1> QED
  BY <1>1, CallsKeepTables DEF mydup2

\* What the proof needs of the descriptor table.
TableOK == table \in Tables

LEMMA TableType == DupSpec => []TableOK
<1>1. DupInit => TableOK
  BY DEF DupInit, Tables, TableOK
<1>2. TableOK /\ [DupNext]_dupVars => TableOK'
  <2> SUFFICES ASSUME table \in Tables, [DupNext]_dupVars PROVE table' \in Tables
    BY DEF TableOK
  <2>1. CASE Open
    BY <2>1, CallsKeepTables DEF Open
  <2>2. CASE Dup
    BY <2>2, CallsKeepTables DEF Dup
  <2>3. CASE Dup2
    BY <2>3, CallsKeepTables DEF Dup2
  <2>4. CASE DupAgain
    BY <2>4, CallsKeepTables DEF DupAgain
  <2>5. CASE Invalid
    BY <2>5, CallsKeepTables, ClearedTable DEF Invalid
  <2>6. CASE CloseFd \/ CloseNewfd \/ CloseTempfd
    BY <2>6, CallsKeepTables DEF CloseFd, CloseNewfd, CloseTempfd, Close
  <2>7. CASE Lseek \/ UNCHANGED dupVars
    BY <2>7 DEF Lseek, dupVars
  <2> QED
    BY <2>1, <2>2, <2>3, <2>4, <2>5, <2>6, <2>7 DEF DupNext
<1> QED
  BY <1>1, <1>2, PTL DEF DupSpec

\* For every number of descriptors, on every table the program reaches from
\* any inherited one (lines 23-53).
THEOREM Dup2IsDup2 == DupSpec => []Dup2Agrees
<1>1. TableOK => Dup2Agrees
  BY SameCall, DupAssumption DEF Dup2Agrees, TableOK
<1> QED
  BY <1>1, TableType, PTL

-----------------------------------------------------------------------------
(* main().  The invariant says what the table is at each of its calls: some *)
(* descriptors are the file, some are closed again, and the others are what *)
(* they were at the start.                                                  *)

TableIs(opened, closed) ==
  table = [f \in Fds |-> IF f \in closed THEN Closed
                         ELSE IF f \in opened THEN File ELSE inherited[f]]

FreeAtFirst(f) == f \in Fds /\ inherited[f] = Closed

\* The descriptors that main() has by then are distinct, except for tempfd.
FdNew     == FreeAtFirst(fd)
NewfdNew  == FdNew /\ FreeAtFirst(newfd) /\ newfd # fd
TempfdSet == NewfdNew /\ tempfd \in Fds
Fd1New    == TempfdSet /\ FreeAtFirst(fd1) /\ fd1 \notin {fd, newfd, tempfd}
AllOpened == {fd, newfd, tempfd, fd1}

InvalidsFree == \A f \in Invalids : FreeThen(f)

Inv0 == at = "open" => table = inherited
Inv1 == at = "dup" => FdNew /\ TableIs({fd}, {})
Inv2 == at = "dup2" => NewfdNew /\ TableIs({fd, newfd}, {})
Inv3 == at = "dup fd1" => TempfdSet /\ TableIs({fd, newfd, tempfd}, {})
Inv4 == at \in {"lseek", "invalid"} => Fd1New /\ TableIs(AllOpened, {})
Inv5 == at = "close fd" => Fd1New /\ (InvalidsFree => TableIs(AllOpened, {}))
Inv6 == at = "close newfd" => Fd1New /\ (InvalidsFree => TableIs(AllOpened, {fd}))
Inv7 == at = "close tempfd" => Fd1New /\ (InvalidsFree => TableIs(AllOpened, {fd, newfd}))
Inv8 == at = "return 0" =>
          /\ Fd1New
          /\ InvalidsFree => tempfd \notin {fd, newfd} /\ TableIs(AllOpened, {fd, newfd, tempfd})

DupInv ==
  /\ inherited \in [Fds -> {Closed, Inherited}]
  /\ Inv0 /\ Inv1 /\ Inv2 /\ Inv3 /\ Inv4 /\ Inv5 /\ Inv6 /\ Inv7 /\ Inv8

LEMMA FileIsOpen == File # Closed
<1> SUFFICES ASSUME File = Closed PROVE FALSE
  OBVIOUS
<1>1. {Closed, Inherited, File} = {Closed} \cup {Inherited}
  OBVIOUS
<1>2. IsFiniteSet({Closed}) /\ Cardinality({Closed}) = 1
  BY FS_Singleton
<1>3. Cardinality({Closed} \cup {Inherited}) <= 2
  BY <1>2, FS_AddElement
<1>4. Cardinality({Closed, Inherited, File}) = 3
  BY DupAssumption
<1> QED
  BY <1>1, <1>3, <1>4

LEMMA FourDistinct ==
  ASSUME NEW a, NEW b, NEW c, NEW d, b # a, c \notin {a, b}, d \notin {a, b, c}
  PROVE  Cardinality({a, b, c, d}) = 4
<1>1. IsFiniteSet({a}) /\ Cardinality({a}) = 1
  BY FS_Singleton
<1>2. IsFiniteSet({a} \cup {b}) /\ Cardinality({a} \cup {b}) = 2
  BY <1>1, FS_AddElement
<1>3. IsFiniteSet(({a} \cup {b}) \cup {c}) /\ Cardinality(({a} \cup {b}) \cup {c}) = 3
  BY <1>2, FS_AddElement
<1>4. Cardinality((({a} \cup {b}) \cup {c}) \cup {d}) = 4
  BY <1>3, FS_AddElement
<1>5. {a, b, c, d} = (({a} \cup {b}) \cup {c}) \cup {d}
  OBVIOUS
<1> QED
  BY <1>4, <1>5

\* The kernel gives a descriptor that is free, if there is one.
LEMMA LowestIsFree ==
  ASSUME NEW t, Free(t, 0) # {}
  PROVE  Lowest(Free(t, 0)) \in Fds /\ t[Lowest(Free(t, 0))] = Closed
<1>1. Free(t, 0) \in SUBSET Nat
  BY FdsAreNumbers DEF Free
<1>2. \E x \in Free(t, 0) : \A y \in Free(t, 0) : x <= y
  BY <1>1, Least
<1>3. Lowest(Free(t, 0)) \in Free(t, 0)
  BY <1>2 DEF Lowest
<1> QED
  BY <1>3 DEF Free

LEMMA DupGives ==
  ASSUME NEW t, NEW f, DupFd(t, f, 0).res # -1
  PROVE  \E n \in Fds : /\ t[n] = Closed /\ IsOpen(t, f)
                        /\ DupFd(t, f, 0).table = [t EXCEPT ![n] = t[f]]
                        /\ DupFd(t, f, 0).res = n
<1>1. IsOpen(t, f) /\ Free(t, 0) # {}
  BY DEF DupFd
<1>2. 0 \in Fds
  BY DupAssumption DEF Fds
<1>3. Lowest(Free(t, 0)) \in Fds /\ t[Lowest(Free(t, 0))] = Closed
  BY <1>1, LowestIsFree
<1> QED
  BY <1>1, <1>2, <1>3 DEF DupFd

LEMMA OpenKeeps ==
  ASSUME DupInv, Open
  PROVE  DupInv'
<1>1. table = inherited /\ inherited' = inherited /\ inherited \in [Fds -> {Closed, Inherited}]
  BY DEF Open, DupInv, Inv0
<1>2. CASE at' = "return 1"
  BY <1>1, <1>2 DEF DupInv, Inv0, Inv1, Inv2, Inv3, Inv4, Inv5, Inv6, Inv7, Inv8
<1>3. CASE at' = "dup"
  <2>1. /\ Free(table, 0) # {} /\ fd' = Lowest(Free(table, 0))
        /\ table' = [table EXCEPT ![fd'] = File]
    BY <1>3 DEF Open
  <2>2. fd' \in Fds /\ inherited[fd'] = Closed
    BY <1>1, <2>1, LowestIsFree
  <2>3. FdNew' /\ TableIs({fd}, {})'
    BY <1>1, <2>1, <2>2 DEF FdNew, FreeAtFirst, TableIs
  <2> QED
    BY <1>1, <1>3, <2>3 DEF DupInv, Inv0, Inv1, Inv2, Inv3, Inv4, Inv5, Inv6, Inv7, Inv8
<1> QED
  BY <1>2, <1>3 DEF Open

LEMMA DupKeeps ==
  ASSUME DupInv, Dup
  PROVE  DupInv'
<1>1. /\ FdNew /\ TableIs({fd}, {}) /\ inherited \in [Fds -> {Closed, Inherited}]
      /\ inherited' = inherited /\ fd' = fd
  BY DEF Dup, DupInv, Inv1
<1>2. CASE at' = "return 1"
  BY <1>1, <1>2 DEF DupInv, Inv0, Inv1, Inv2, Inv3, Inv4, Inv5, Inv6, Inv7, Inv8
<1>3. CASE DupFd(table, fd, 0).res # -1
  <2>1. PICK n \in Fds :
          /\ table[n] = Closed /\ IsOpen(table, fd)
          /\ DupFd(table, fd, 0).table = [table EXCEPT ![n] = table[fd]]
          /\ DupFd(table, fd, 0).res = n
    BY <1>3, DupGives
  <2>2. newfd' = n /\ table' = [table EXCEPT ![n] = table[fd]] /\ at' = "dup2"
    BY <1>3, <2>1 DEF Dup
  <2>3. fd \in Fds /\ inherited[fd] = Closed /\ table[fd] = File /\ n # fd /\ inherited[n] = Closed
    BY <1>1, <2>1, FileIsOpen DEF FdNew, FreeAtFirst, TableIs
  <2>4. NewfdNew' /\ TableIs({fd, newfd}, {})'
    BY <1>1, <2>2, <2>3 DEF NewfdNew, FdNew, FreeAtFirst, TableIs
  <2> QED
    BY <1>1, <2>2, <2>4 DEF DupInv, Inv0, Inv1, Inv2, Inv3, Inv4, Inv5, Inv6, Inv7, Inv8
<1> QED
  BY <1>2, <1>3 DEF Dup

LEMMA Dup2Keeps ==
  ASSUME DupInv, Dup2
  PROVE  DupInv'
<1>1. /\ NewfdNew /\ TableIs({fd, newfd}, {}) /\ inherited \in [Fds -> {Closed, Inherited}]
      /\ inherited' = inherited /\ fd' = fd /\ newfd' = newfd
  BY DEF Dup2, DupInv, Inv2
<1>2. CASE at' = "return 1"
  BY <1>1, <1>2 DEF DupInv, Inv0, Inv1, Inv2, Inv3, Inv4, Inv5, Inv6, Inv7, Inv8
<1>3. CASE dup2(table, fd, tempfd).res # -1
  <2>1. tempfd \in Fds /\ dup2(table, fd, tempfd).table = [table EXCEPT ![tempfd] = table[fd]]
    BY <1>3 DEF dup2
  <2>2. table' = [table EXCEPT ![tempfd] = table[fd]] /\ at' = "dup fd1"
    BY <1>3, <2>1 DEF Dup2
  <2>3. fd \in Fds /\ table[fd] = File
    BY <1>1 DEF NewfdNew, FdNew, FreeAtFirst, TableIs
  <2>4. TempfdSet' /\ TableIs({fd, newfd, tempfd}, {})'
    BY <1>1, <2>1, <2>2, <2>3 DEF TempfdSet, NewfdNew, FdNew, FreeAtFirst, TableIs
  <2> QED
    BY <1>1, <2>2, <2>4 DEF DupInv, Inv0, Inv1, Inv2, Inv3, Inv4, Inv5, Inv6, Inv7, Inv8
<1> QED
  BY <1>2, <1>3 DEF Dup2

LEMMA DupAgainKeeps ==
  ASSUME DupInv, DupAgain
  PROVE  DupInv'
<1>1. /\ TempfdSet /\ TableIs({fd, newfd, tempfd}, {})
      /\ inherited \in [Fds -> {Closed, Inherited}]
      /\ inherited' = inherited /\ fd' = fd /\ newfd' = newfd
  BY DEF DupAgain, DupInv, Inv3
<1>2. CASE at' = "return 1"
  BY <1>1, <1>2 DEF DupInv, Inv0, Inv1, Inv2, Inv3, Inv4, Inv5, Inv6, Inv7, Inv8
<1>3. CASE DupFd(table, fd, 0).res # -1
  <2>1. PICK n \in Fds :
          /\ table[n] = Closed /\ IsOpen(table, fd)
          /\ DupFd(table, fd, 0).table = [table EXCEPT ![n] = table[fd]]
          /\ DupFd(table, fd, 0).res = n
    BY <1>3, DupGives
  <2>2. fd1' = n /\ table' = [table EXCEPT ![n] = table[fd]] /\ at' = "lseek"
    BY <1>3, <2>1 DEF DupAgain
  <2>3. table[fd] = File /\ n \notin {fd, newfd, tempfd} /\ inherited[n] = Closed
    BY <1>1, <2>1, FileIsOpen DEF TempfdSet, NewfdNew, FdNew, FreeAtFirst, TableIs
  <2>4. Fd1New' /\ TableIs(AllOpened, {})'
    BY <1>1, <2>2, <2>3
       DEF Fd1New, TempfdSet, NewfdNew, FdNew, FreeAtFirst, TableIs, AllOpened
  <2> QED
    BY <1>1, <2>2, <2>4 DEF DupInv, Inv0, Inv1, Inv2, Inv3, Inv4, Inv5, Inv6, Inv7, Inv8
<1> QED
  BY <1>2, <1>3 DEF DupAgain

\* What is not open stays as it is.
LEMMA InvalidDoesNothing ==
  ASSUME NEW t, ~IsOpen(t, invalidfd), ~IsOpen(t, invalidfd2), ~IsOpen(t, invalidfd3)
  PROVE  mydup2(mydup(t, invalidfd).table, invalidfd2, invalidfd3).table = t
<1>1. mydup(t, invalidfd).table = t
  BY DEF mydup, DupFd
<1>2. Cleared(t, invalidfd3) = t
  BY DEF Cleared
<1>3. mydup2(t, invalidfd2, invalidfd3).table = t
  BY <1>2 DEF mydup2, DupFd
<1> QED
  BY <1>1, <1>3

LEMMA InvalidKeeps ==
  ASSUME DupInv, Invalid
  PROVE  DupInv'
<1>1. /\ Fd1New /\ TableIs(AllOpened, {}) /\ inherited \in [Fds -> {Closed, Inherited}]
      /\ UNCHANGED <<inherited, fd, newfd, fd1>> /\ at' = "close fd"
  BY DEF Invalid, DupInv, Inv4
<1>2. Fd1New' /\ InvalidsFree' = InvalidsFree
  BY <1>1 DEF Fd1New, TempfdSet, NewfdNew, FdNew, FreeAtFirst, InvalidsFree, FreeThen, IsOpen
<1>3. ASSUME InvalidsFree PROVE TableIs(AllOpened, {})'
  <2>1. ASSUME NEW f \in Invalids PROVE ~IsOpen(table, f)
    <3>1. f \notin AllOpened /\ ~IsOpen(inherited, f)
      BY <1>3, DupAssumption DEF InvalidsFree, FreeThen, AllOpened, Invalids
    <3> QED
      BY <1>1, <3>1 DEF IsOpen, TableIs
  <2>2. table' = table
    BY <2>1, InvalidDoesNothing DEF Invalid, Invalids
  <2> QED
    BY <1>1, <2>2 DEF TableIs, AllOpened
<1>4. Inv5'
  BY <1>1, <1>2, <1>3 DEF Inv5
<1> QED
  BY <1>1, <1>4 DEF DupInv, Inv0, Inv1, Inv2, Inv3, Inv4, Inv6, Inv7, Inv8

\* A close() that succeeds adds its descriptor to those that are closed.
LEMMA CloseAdds ==
  ASSUME NEW f, NEW next, NEW C, Close(f, next), TableIs(AllOpened, C), at' # "return 1"
  PROVE  /\ f \in Fds /\ f \notin C /\ UNCHANGED <<inherited, fd, newfd, fd1>>
         /\ table' = [g \in Fds |-> IF g \in C \cup {f} THEN Closed
                                    ELSE IF g \in AllOpened THEN File ELSE inherited[g]]
<1>1. IsOpen(table, f) /\ table' = CloseIn(table, f) /\ UNCHANGED <<inherited, fd, newfd, fd1>>
  BY DEF Close
<1>2. f \in Fds /\ f \notin C
  BY <1>1 DEF IsOpen, TableIs
<1>3. table' = [g \in Fds |-> IF g \in C \cup {f} THEN Closed
                              ELSE IF g \in AllOpened THEN File ELSE inherited[g]]
  BY <1>1, <1>2 DEF TableIs, CloseIn
<1> QED
  BY <1>1, <1>2, <1>3

LEMMA CloseKeepsRest ==
  ASSUME NEW f, NEW next, Close(f, next), Fd1New, inherited \in [Fds -> {Closed, Inherited}]
  PROVE  /\ Fd1New' /\ InvalidsFree' = InvalidsFree /\ at' \in {next, "return 1"}
         /\ inherited' \in [Fds -> {Closed, Inherited}] /\ UNCHANGED <<fd, newfd>>
BY DEF Close, Fd1New, TempfdSet, NewfdNew, FdNew, FreeAtFirst, InvalidsFree, FreeThen, IsOpen

LEMMA CloseKeeps ==
  ASSUME DupInv, CloseFd \/ CloseNewfd \/ CloseTempfd
  PROVE  DupInv'
<1> USE DEF DupInv
<1>0. inherited \in [Fds -> {Closed, Inherited}]
  OBVIOUS
<1>1. CASE CloseFd
  <2>1. Fd1New /\ Close(fd, "close newfd") /\ (InvalidsFree => TableIs(AllOpened, {}))
    BY <1>1 DEF CloseFd, Inv5
  <2>2. /\ Fd1New' /\ InvalidsFree' = InvalidsFree /\ at' \in {"close newfd", "return 1"}
        /\ inherited' \in [Fds -> {Closed, Inherited}] /\ UNCHANGED <<fd, newfd>>
    BY <1>0, <2>1, CloseKeepsRest
  <2>3. ASSUME InvalidsFree, at' # "return 1" PROVE TableIs(AllOpened, {fd})'
    <3>1. /\ UNCHANGED <<inherited, fd, newfd, fd1>>
          /\ table' = [g \in Fds |-> IF g \in {} \cup {fd} THEN Closed
                                     ELSE IF g \in AllOpened THEN File ELSE inherited[g]]
      BY <2>1, <2>3, CloseAdds
    <3> QED
      BY <3>1 DEF TableIs, AllOpened
  <2>4. Inv6'
    BY <2>2, <2>3 DEF Inv6
  <2> QED
    BY <2>2, <2>4 DEF Inv0, Inv1, Inv2, Inv3, Inv4, Inv5, Inv7, Inv8
<1>2. CASE CloseNewfd
  <2>1. Fd1New /\ Close(newfd, "close tempfd") /\ (InvalidsFree => TableIs(AllOpened, {fd}))
    BY <1>2 DEF CloseNewfd, Inv6
  <2>2. /\ Fd1New' /\ InvalidsFree' = InvalidsFree /\ at' \in {"close tempfd", "return 1"}
        /\ inherited' \in [Fds -> {Closed, Inherited}] /\ UNCHANGED <<fd, newfd>>
    BY <1>0, <2>1, CloseKeepsRest
  <2>3. ASSUME InvalidsFree, at' # "return 1" PROVE TableIs(AllOpened, {fd, newfd})'
    <3>1. /\ UNCHANGED <<inherited, fd, newfd, fd1>>
          /\ table' = [g \in Fds |-> IF g \in {fd} \cup {newfd} THEN Closed
                                     ELSE IF g \in AllOpened THEN File ELSE inherited[g]]
      BY <2>1, <2>3, CloseAdds
    <3> QED
      BY <3>1 DEF TableIs, AllOpened
  <2>4. Inv7'
    BY <2>2, <2>3 DEF Inv7
  <2> QED
    BY <2>2, <2>4 DEF Inv0, Inv1, Inv2, Inv3, Inv4, Inv5, Inv6, Inv8
<1>3. CASE CloseTempfd
  <2>1. Fd1New /\ Close(tempfd, "return 0") /\ (InvalidsFree => TableIs(AllOpened, {fd, newfd}))
    BY <1>3 DEF CloseTempfd, Inv7, LastClosed
  <2>2. /\ Fd1New' /\ InvalidsFree' = InvalidsFree /\ at' \in {"return 0", "return 1"}
        /\ inherited' \in [Fds -> {Closed, Inherited}] /\ UNCHANGED <<fd, newfd>>
    BY <1>0, <2>1, CloseKeepsRest
  <2>3. ASSUME InvalidsFree, at' # "return 1"
        PROVE  tempfd \notin {fd, newfd} /\ TableIs(AllOpened, {fd, newfd, tempfd})'
    <3>1. /\ tempfd \notin {fd, newfd}
          /\ UNCHANGED <<inherited, fd, newfd, fd1>>
          /\ table' = [g \in Fds |-> IF g \in {fd, newfd} \cup {tempfd} THEN Closed
                                     ELSE IF g \in AllOpened THEN File ELSE inherited[g]]
      BY <2>1, <2>3, CloseAdds
    <3> QED
      BY <3>1 DEF TableIs, AllOpened
  <2>4. Inv8'
    BY <2>2, <2>3 DEF Inv8
  <2> QED
    BY <2>2, <2>4 DEF Inv0, Inv1, Inv2, Inv3, Inv4, Inv5, Inv6, Inv7
<1> QED
  BY <1>1, <1>2, <1>3

\* Whatever the program inherits and however many descriptors there are: a main()
\* that returns 0 had four distinct descriptors and leaves those other than fd1 as
\* they were, but for tempfd, if 100 .. 102 were free (lines 73-167).
THEOREM LeavesOthers == DupSpec => []OthersAsBefore
<1>1. DupInit => DupInv
  BY DEF DupInit, DupInv, Inv0, Inv1, Inv2, Inv3, Inv4, Inv5, Inv6, Inv7, Inv8
<1>2. DupInv /\ [DupNext]_dupVars => DupInv'
  <2> SUFFICES ASSUME DupInv, [DupNext]_dupVars PROVE DupInv'
    OBVIOUS
  <2>1. CASE Lseek
    <3>1. /\ Fd1New /\ TableIs(AllOpened, {}) /\ at' \in {"invalid", "return 1"}
          /\ UNCHANGED <<table, inherited, fd, newfd, fd1>>
      BY <2>1 DEF Lseek, DupInv, Inv4
    <3>2. Inv4'
      BY <3>1 DEF Inv4, Fd1New, TempfdSet, NewfdNew, FdNew, FreeAtFirst, TableIs, AllOpened
    <3> QED
      BY <3>1, <3>2 DEF DupInv, Inv0, Inv1, Inv2, Inv3, Inv5, Inv6, Inv7, Inv8
  <2>2. CASE UNCHANGED dupVars
    <3>1. UNCHANGED <<table, inherited, at, fd, newfd, fd1>>
      BY <2>2 DEF dupVars
    <3>2. AllOpened' = AllOpened /\ InvalidsFree' = InvalidsFree
      BY <3>1 DEF AllOpened, InvalidsFree, FreeThen, IsOpen
    <3>3. FdNew' = FdNew /\ NewfdNew' = NewfdNew /\ TempfdSet' = TempfdSet /\ Fd1New' = Fd1New
      BY <3>1 DEF FdNew, NewfdNew, TempfdSet, Fd1New, FreeAtFirst
    <3>4. /\ TableIs({fd}, {})' = TableIs({fd}, {})
          /\ TableIs({fd, newfd}, {})' = TableIs({fd, newfd}, {})
          /\ TableIs({fd, newfd, tempfd}, {})' = TableIs({fd, newfd, tempfd}, {})
      BY <3>1 DEF TableIs
    <3>5. /\ TableIs(AllOpened, {})' = TableIs(AllOpened, {})
          /\ TableIs(AllOpened, {fd})' = TableIs(AllOpened, {fd})
          /\ TableIs(AllOpened, {fd, newfd})' = TableIs(AllOpened, {fd, newfd})
          /\ TableIs(AllOpened, {fd, newfd, tempfd})' = TableIs(AllOpened, {fd, newfd, tempfd})
      BY <3>1, <3>2 DEF TableIs
    <3> QED
      BY <3>1, <3>2, <3>3, <3>4, <3>5
         DEF DupInv, Inv0, Inv1, Inv2, Inv3, Inv4, Inv5, Inv6, Inv7, Inv8
  <2> QED
    BY <2>1, <2>2, OpenKeeps, DupKeeps, Dup2Keeps, DupAgainKeeps, InvalidKeeps, CloseKeeps
       DEF DupNext
<1>3. DupInv => OthersAsBefore
  <2> SUFFICES ASSUME DupInv, at = "return 0", InvalidsFree
               PROVE  /\ Cardinality({fd, newfd, fd1, tempfd}) = 4
                      /\ \A f \in Fds \ {fd1} :
                           table[f] = IF f = tempfd THEN Closed ELSE inherited[f]
    BY DEF OthersAsBefore, InvalidsFree
  <2>1. /\ Fd1New /\ tempfd \notin {fd, newfd} /\ TableIs(AllOpened, {fd, newfd, tempfd})
        /\ inherited \in [Fds -> {Closed, Inherited}]
    BY DEF DupInv, Inv8
  <2>2. newfd # fd /\ fd1 \notin {fd, newfd} /\ tempfd \notin {fd, newfd, fd1}
    BY <2>1 DEF Fd1New, TempfdSet, NewfdNew
  <2>3. Cardinality({fd, newfd, fd1, tempfd}) = 4
    BY <2>2, FourDistinct
  <2>4. \A f \in Fds \ {fd1} : table[f] = IF f = tempfd THEN Closed ELSE inherited[f]
    BY <2>1, <2>2 DEF Fd1New, TempfdSet, NewfdNew, FdNew, FreeAtFirst, TableIs, AllOpened
  <2> QED
    BY <2>3, <2>4
<1> QED
  BY <1>1, <1>2, <1>3, PTL DEF DupSpec

-----------------------------------------------------------------------------
(* appendMeMore.c: which bytes are kept *)

Steps == {"open", "lseek", "write", "close", "0", "1"}

AppendTypes ==
  /\ initial \in Nat /\ bytes \in Seq(Writers \cup {Before})
  /\ third_arg \in [Writers -> BOOLEAN] /\ num_bytes \in [Writers -> Nat]
  /\ at_ \in [Writers -> Steps]
  /\ offset \in [Writers -> Nat] /\ written \in [Writers -> Nat]

\* An offset that lseek() returned is behind all that its process has written, and
\* the end as long as nobody else has written.
SeekInv ==
  \A p \in Writers : at_[p] = "write" /\ third_arg[p] =>
    /\ initial + written[p] <= offset[p] /\ offset[p] <= Len(bytes)
    /\ Alone(p) => offset[p] = Len(bytes)

AppendInv == AppendTypes /\ SeekInv /\ initial <= Len(bytes) /\ BytesKept

LEMMA BytesWritten ==
  ASSUME AppendInv, NEW p \in Writers, WriteByte(p)
  PROVE  /\ bytes' \in Seq(Writers \cup {Before})
         /\ Position(p) \in Nat /\ Position(p) <= Len(bytes) /\ initial + written[p] <= Position(p)
         /\ Len(bytes') = IF Position(p) = Len(bytes) THEN Len(bytes) + 1 ELSE Len(bytes)
         /\ \A b \in 1 .. Len(bytes') : bytes'[b] = IF b = Position(p) + 1 THEN p ELSE bytes[b]
<1> DEFINE k == Position(p)
           n == Len(bytes)
<1>1. n \in Nat /\ k \in Nat /\ k <= n /\ initial + written[p] <= k
  <2>1. n \in Nat /\ initial \in Nat /\ written[p] \in Nat /\ offset[p] \in Nat
    BY DEF AppendInv, AppendTypes
  <2>2. initial <= n /\ written[p] <= n - initial
    BY DEF AppendInv, BytesKept, GrowsByEach
  <2>3. third_arg[p] => initial + written[p] <= offset[p] /\ offset[p] <= n
    BY DEF AppendInv, SeekInv, WriteByte
  <2> QED
    BY <2>1, <2>2, <2>3 DEF Position
<1>2. bytes' = [b \in 1 .. n \cup {k + 1} |-> IF b = k + 1 THEN p ELSE bytes[b]]
  BY DEF WriteByte
<1> HIDE DEF k
<1> DEFINE m == IF k = n THEN n + 1 ELSE n
<1>3. 1 .. n \cup {k + 1} = 1 .. m
  BY <1>1
<1>4. \A b \in 1 .. n : bytes[b] \in Writers \cup {Before}
  BY DEF AppendInv, AppendTypes
<1>5. m \in Nat /\ bytes' \in [1 .. m -> Writers \cup {Before}]
  BY <1>1, <1>2, <1>3, <1>4
<1>6. bytes' \in Seq(Writers \cup {Before}) /\ Len(bytes') = m
  BY <1>5
<1> QED
  BY <1>1, <1>2, <1>3, <1>6 DEF k

\* The sums change with the one number that does.
LEMMA TotalsWritten ==
  ASSUME AppendTypes, NEW p \in Writers, WriteByte(p), NEW S, S \subseteq Writers
  PROVE  /\ SumFunctionOnSet(written, S) \in Int
         /\ SumFunctionOnSet(written', S)
              = SumFunctionOnSet(written, S) + (IF p \in S THEN 1 ELSE 0)
<1>1. IsFiniteSet(S) /\ written \in [Writers -> Int] /\ 1 \in Int
  BY AppendAssumption, FS_Subset DEF AppendTypes
<1>2. /\ written' \in [Writers -> Int] /\ written'[p] = written[p] + 1
      /\ \A x \in Writers \ {p} : written'[x] = written[x]
  BY <1>1 DEF WriteByte
<1>3. SumFunctionOnSet(written, S) \in Int
  BY <1>1, SumIsInteger
<1>4. SumFunctionOnSet(written', S) = SumFunctionOnSet(written, S) + (IF p \in S THEN 1 ELSE 0)
  BY <1>1, <1>2, SumUpdated
<1> QED
  BY <1>3, <1>4

\* A byte written at the end adds one to those of its writer.
LEMMA AppendedBytes ==
  ASSUME AppendInv, NEW p \in Writers, WriteByte(p), Position(p) = Len(bytes), NEW q \in Writers
  PROVE  Cardinality(Of(q)') = IF q = p THEN Cardinality(Of(q)) + 1 ELSE Cardinality(Of(q))
<1> DEFINE n == Len(bytes)
<1>1. n \in Nat /\ DOMAIN bytes = 1 .. n
  BY DEF AppendInv, AppendTypes
<1>2. /\ DOMAIN bytes' = 1 .. n + 1
      /\ \A b \in 1 .. n + 1 : bytes'[b] = IF b = n + 1 THEN p ELSE bytes[b]
  BY <1>1, BytesWritten
<1>3. CASE q = p
  <2>1. Of(q)' = Of(q) \cup {n + 1} /\ n + 1 \notin Of(q)
    BY <1>1, <1>2, <1>3 DEF Of
  <2>2. IsFiniteSet(1 .. n) /\ Of(q) \subseteq 1 .. n
    BY <1>1, FS_Interval DEF Of
  <2>3. IsFiniteSet(Of(q))
    BY <2>2, FS_Subset
  <2> QED
    BY <1>3, <2>1, <2>3, FS_AddElement
<1>4. CASE q # p
  <2>1. Of(q)' = Of(q)
    BY <1>1, <1>2, <1>4 DEF Of
  <2> QED
    BY <1>4, <2>1
<1> QED
  BY <1>3, <1>4

\* Steps that write nothing.
LEMMA NothingWritten ==
  ASSUME AppendInv, UNCHANGED <<bytes, initial, third_arg, written>>
  PROVE  BytesKept' /\ (initial <= Len(bytes))'
BY DEF AppendInv, BytesKept, OldBytesStay, GrowsByAppenders, GrowsByEach, OwnBytesStay, Of, Total,
   Appenders, Alone

LEMMA LoopType == 
  ASSUME NEW p \in Writers, NEW n
  PROVE  /\ Loop(p, n) \in {"close", "lseek", "write"}
         /\ Loop(p, n) = "write" => ~third_arg[p]
BY DEF Loop

LEMMA OtherKeeps ==
  ASSUME AppendInv, NEW p \in Writers, OpenFile(p) \/ LseekEnd(p) \/ CloseFile(p) \/ CallFails(p)
  PROVE  AppendInv'
<1>1. UNCHANGED <<bytes, fixedVars, written>>
  BY DEF OpenFile, LseekEnd, CloseFile, CallFails
<1>2. AppendTypes'
  <2>1. at_' \in [Writers -> Steps]
    BY LoopType DEF OpenFile, LseekEnd, CloseFile, CallFails, AppendInv, AppendTypes, Steps
  <2>2. offset' \in [Writers -> Nat]
    <3>1. Len(bytes) \in Nat /\ offset \in [Writers -> Nat]
      BY DEF AppendInv, AppendTypes
    <3>2. offset' = offset \/ offset' = [offset EXCEPT ![p] = Len(bytes)]
      BY DEF OpenFile, LseekEnd, CloseFile, CallFails, SeekTo
    <3> QED
      BY <3>1, <3>2
  <2> QED
    BY <1>1, <2>1, <2>2 DEF AppendInv, AppendTypes, fixedVars
<1>3. ASSUME NEW q \in Writers, at_'[q] = "write", third_arg[q]
      PROVE  \/ at_[q] = "write" /\ offset'[q] = offset[q]
             \/ offset'[q] = Len(bytes)
  BY <1>3, LoopType DEF OpenFile, LseekEnd, CloseFile, CallFails, AppendInv, AppendTypes, SeekTo
<1>4. \A q \in Writers : initial + written[q] <= Len(bytes) /\ Len(bytes) \in Nat
  <2>1. Len(bytes) \in Nat /\ initial \in Nat /\ \A q \in Writers : written[q] \in Nat
    BY DEF AppendInv, AppendTypes
  <2> QED
    BY <2>1 DEF AppendInv, BytesKept, GrowsByEach
<1>5. SeekInv'
  BY <1>1, <1>3, <1>4 DEF AppendInv, SeekInv, fixedVars, Alone
<1> QED
  BY <1>1, <1>2, <1>5, NothingWritten DEF AppendInv, fixedVars

LEMMA WriteKeeps ==
  ASSUME AppendInv, NEW p \in Writers, WriteByte(p)
  PROVE  AppendInv'
<1> DEFINE n == Len(bytes)
           k == Position(p)
<1>1. /\ n \in Nat /\ initial \in Nat /\ initial <= n /\ written \in [Writers -> Nat]
      /\ at_ \in [Writers -> Steps] /\ offset \in [Writers -> Nat]
  BY DEF AppendInv, AppendTypes
<1>2. /\ bytes' \in Seq(Writers \cup {Before})
      /\ k \in Nat /\ k <= n /\ initial + written[p] <= k
      /\ Len(bytes') = IF k = n THEN n + 1 ELSE n
      /\ \A b \in 1 .. Len(bytes') : bytes'[b] = IF b = k + 1 THEN p ELSE bytes[b]
  BY BytesWritten
<1>3. /\ written' = [written EXCEPT ![p] = @ + 1] /\ offset' = [offset EXCEPT ![p] = k + 1]
      /\ at_' = [at_ EXCEPT ![p] = Loop(p, written[p] + 1)]
      /\ UNCHANGED fixedVars
  BY DEF WriteByte
<1>4. Appenders' = Appenders
  BY <1>3 DEF Appenders, fixedVars
<1>5. ~third_arg[p] => k = n
  BY DEF Position
<1>6. \A q \in Writers : Alone(q)' => Alone(q) /\ q = p
  BY <1>1, <1>3 DEF Alone
<1>7. Alone(p) => k = n
  BY DEF AppendInv, SeekInv, Position, WriteByte
<1> HIDE DEF k
<1>8. AppendTypes'
  BY <1>1, <1>2, <1>3, LoopType DEF AppendInv, AppendTypes, fixedVars, Steps
<1>9. SeekInv'
  <2> SUFFICES ASSUME NEW q \in Writers, at_'[q] = "write", third_arg'[q]
               PROVE  /\ initial' + written'[q] <= offset'[q] /\ offset'[q] <= Len(bytes')
                      /\ Alone(q)' => offset'[q] = Len(bytes')
    BY DEF SeekInv
  <2>1. q # p
    BY <1>1, <1>3, LoopType DEF fixedVars
  <2>2. at_[q] = "write" /\ third_arg[q] /\ offset'[q] = offset[q] /\ written'[q] = written[q]
    BY <1>1, <1>3, <2>1 DEF fixedVars
  <2>3. initial + written[q] <= offset[q] /\ offset[q] <= n /\ offset[q] \in Nat
    BY <1>1, <2>2 DEF AppendInv, SeekInv
  <2> QED
    BY <1>1, <1>2, <1>3, <1>6, <2>1, <2>2, <2>3 DEF fixedVars
<1>10. (initial <= Len(bytes))'
  BY <1>1, <1>2, <1>3 DEF fixedVars
<1>11. BytesKept'
  <2>1. OldBytesStay'
    <3>1. initial' = initial /\ OldBytesStay /\ initial <= k
      BY <1>1, <1>2, <1>3 DEF fixedVars, AppendInv, BytesKept
    <3>2. \A b \in 1 .. initial : b \in 1 .. Len(bytes') /\ b # k + 1
      BY <1>1, <1>2, <3>1
    <3>3. \A b \in 1 .. initial : bytes'[b] = bytes[b]
      BY <1>2, <3>2
    <3> QED
      BY <3>1, <3>3 DEF OldBytesStay
  <2>2. GrowsByAppenders'
    <3>1. AppendTypes /\ Appenders \subseteq Writers
      BY DEF AppendInv, Appenders
    <3>2. /\ SumFunctionOnSet(written, Appenders) \in Int
          /\ SumFunctionOnSet(written', Appenders)
               = SumFunctionOnSet(written, Appenders) + (IF p \in Appenders THEN 1 ELSE 0)
      BY <3>1, TotalsWritten
    <3>3. /\ Total(Appenders) \in Int
          /\ Total(Appenders)' = Total(Appenders) + (IF p \in Appenders THEN 1 ELSE 0)
      BY <1>4, <3>2 DEF Total
    <3>7. /\ Total(Writers) \in Int /\ Total(Writers)' = Total(Writers) + 1
      BY <3>1, TotalsWritten DEF Total
    <3>4. n - initial \in Total(Appenders) .. Total(Writers)
      BY DEF AppendInv, BytesKept, GrowsByAppenders
    <3>5. p \in Appenders => k = n
      BY <1>5 DEF Appenders
    <3>6. initial' = initial
      BY <1>3 DEF fixedVars
    <3> QED
      BY <1>1, <1>2, <3>3, <3>4, <3>5, <3>6, <3>7 DEF GrowsByAppenders
  <2>3. ASSUME NEW q \in Writers PROVE written'[q] <= Len(bytes') - initial'
    <3>1. written[q] <= n - initial
      BY DEF AppendInv, BytesKept, GrowsByEach
    <3> QED
      BY <1>1, <1>2, <1>3, <3>1 DEF fixedVars
  <2>4. ASSUME NEW q \in Writers, Appenders' = Writers \/ Alone(q)'
        PROVE  Cardinality(Of(q)') = written'[q]
    <3>1. k = n /\ Cardinality(Of(q)) = written[q]
      BY <1>4, <1>5, <1>6, <1>7, <2>4 DEF AppendInv, BytesKept, OwnBytesStay, Appenders
    <3> QED
      BY <1>1, <1>3, <3>1, AppendedBytes DEF k
  <2> QED
    BY <2>1, <2>2, <2>3, <2>4 DEF BytesKept, GrowsByEach, OwnBytesStay
<1> QED
  BY <1>8, <1>9, <1>10, <1>11 DEF AppendInv

LEMMA AppendInvInit == AppendInit => AppendInv
<1> SUFFICES ASSUME AppendInit PROVE AppendInv
  OBVIOUS
<1>1. AppendTypes /\ Len(bytes) = initial
  BY AppendAssumption DEF AppendInit, AppendTypes, Steps
<1>2. ASSUME NEW S, S \subseteq Writers PROVE Total(S) = 0
  <2>1. IsFiniteSet(S) /\ written = [p \in Writers |-> 0]
    BY AppendAssumption, <1>2, FS_Subset DEF AppendInit
  <2> QED
    BY <1>2, <2>1, SumOfZeros DEF Total
<1>3. \A p \in Writers : Of(p) = {}
  BY AppendAssumption DEF AppendInit, Of
<1>4. OldBytesStay /\ GrowsByEach
  BY <1>1 DEF AppendInit, AppendTypes, OldBytesStay, GrowsByEach
<1>5. GrowsByAppenders
  <2>1. Total(Appenders) = 0 /\ Total(Writers) = 0 /\ Len(bytes) - initial = 0
    BY <1>1, <1>2 DEF Appenders, AppendTypes
  <2> QED
    BY <2>1 DEF GrowsByAppenders
<1>6. OwnBytesStay
  BY <1>3, FS_EmptySet DEF AppendInit, OwnBytesStay
<1> QED
  BY <1>1, <1>4, <1>5, <1>6 DEF AppendInit, AppendInv, SeekInv, AppendTypes, BytesKept

\* Whatever the arguments of any number of processes: what was in the file stays,
\* and a byte is only lost when a process with "x" wrote another one over it
\* (appendMeMore.c 24-39).
THEOREM OnlySeekersLose == AppendSpec => []BytesKept
<1>1. AppendInv /\ [AppendNext]_appendVars => AppendInv'
  <2> SUFFICES ASSUME AppendInv, [AppendNext]_appendVars PROVE AppendInv'
    OBVIOUS
  <2>1. CASE UNCHANGED appendVars
    BY <2>1, NothingWritten DEF appendVars, fixedVars, AppendInv, AppendTypes, SeekInv, Alone
  <2>2. CASE AppendNext
    BY <2>2, WriteKeeps, OtherKeeps DEF AppendNext
  <2> QED
    BY <2>1, <2>2
<1>2. AppendInv => BytesKept
  BY DEF AppendInv
<1> QED
  BY <1>1, <1>2, AppendInvInit, PTL DEF AppendSpec
=============================================================================
