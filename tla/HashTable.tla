----------------------------- MODULE HashTable -----------------------------
(***************************************************************************)
(* HW5/program.c, the hash table with the counts of the file types: an     *)
(* array of chains.  The hash function is any function into the indices of *)
(* the array; two keys may share a chain.                                  *)
(***************************************************************************)
EXTENDS Integers, Sequences, FiniteSets

CONSTANTS
  Keys,        \* the keys that are counted
  TABLE_SIZE,
  hash,        \* hash[k]: the index of k's chain
  MaxCount     \* bound of the model: how often a key is counted

Indices == 0 .. TABLE_SIZE - 1

ASSUME HashAssumption ==
  TABLE_SIZE \in Nat \ {0} /\ hash \in [Keys -> Indices] /\ MaxCount \in Nat

VARIABLES
  buckets,  \* buckets[i]: the chain of index i, head first
  count     \* of the nodes

tableVars == <<buckets, count>>

\* createHashtable()
TableInit == buckets = [i \in Indices |-> <<>>] /\ count = 0

\* The walk along the chain of k stops at the first node with that key.
Matches(k) == {n \in DOMAIN buckets[hash[k]] : buckets[hash[k]][n].key = k}
Found(k) == CHOOSE n \in Matches(k) : \A m \in Matches(k) : n <= m

get(k) == IF Matches(k) = {} THEN 0 ELSE buckets[hash[k]][Found(k)].value

\* A new node goes to the head of its chain.
Prepend_Dropped(node, chain) == <<node>>
Prepend(node, chain) == <<node>> \o chain

\* insert() of a key that has a node increments that node and ignores value.
KeyExists_Ignored(k) == FALSE
KeyExists(k) == Matches(k) # {}

insert(k, value) ==
  \/ /\ KeyExists(k)
     /\ buckets' = [buckets EXCEPT ![hash[k]][Found(k)].value = @ + 1]
     /\ UNCHANGED count
  \/ /\ ~KeyExists(k)
     /\ buckets' = [buckets EXCEPT ![hash[k]] = Prepend([key |-> k, value |-> value], @)]
     /\ count' = count + 1

\* What traverse_directory() does for each file it counts.
CountType(k) == get(k) < MaxCount /\ insert(k, get(k) + 1)

TableNext == \E k \in Keys : CountType(k)

TableSpec == TableInit /\ [][TableNext]_tableVars

-----------------------------------------------------------------------------
(* Properties *)

\* A key has at most one node, in the chain of its hash, so that the report of
\* main() prints every type once (lines 598-606), and count is their number.
OneNodePerKey ==
  /\ \A i \in Indices : \A n, m \in DOMAIN buckets[i] :
        /\ hash[buckets[i][n].key] = i
        /\ buckets[i][n].key = buckets[i][m].key => n = m
  /\ count = Cardinality({k \in Keys : KeyExists(k)})

\* The table implements one counter per key: counting a type increments its
\* counter by one and touches no other, whatever the hash function.
Counters == INSTANCE KeyCounters WITH counter <- [k \in Keys |-> get(k)]
ImplementsCounters == Counters!Spec
=============================================================================
