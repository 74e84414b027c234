------------------------------ MODULE LRUCache ------------------------------
(***************************************************************************)
(* LRUCache.cpp: a hash map into a doubly linked list between two          *)
(* sentinels, the least recently used node first.  get and put hold the    *)
(* mutex from beginning to end, so that each call is one step, whichever   *)
(* thread makes it; inside it the pointers are assigned as in the code.    *)
(***************************************************************************)
EXTENDS Naturals, FiniteSets

CONSTANTS Keys, Values,
          Capacity,
          Addresses,   \* what new may return for the node of an entry
          Head, Tail,  \* the sentinels
          Null,        \* the null pointer, and no entry in the map
          Miss         \* the -1 of a get that misses

ListAssumption == /\ Capacity \in Nat \ {0}  \* 0 would delete a sentinel
                  /\ IsFiniteSet(Addresses) /\ Cardinality(Addresses) >= Capacity
                  /\ Head # Tail /\ Null \notin {Head, Tail}
                  /\ {Head, Tail, Null} \cap Addresses = {}
                  /\ Null \notin Keys /\ Miss \notin Values

VARIABLES nodes,   \* [next, prev, key, val], each a function on the addresses
          mp,      \* mp[k]: the node of k, or Null
          result,  \* what the last get returned
          alive,   \* the destructor has not run
          usedSince, latest   \* history: see LRUPolicy

vars == <<nodes, mp, result, alive, usedSince, latest>>

Policy == INSTANCE LRUPolicy

Allocated == {a \in Addresses : nodes.key[a] # Null}
Size == Cardinality({k \in Keys : mp[k] # Null})

Init == /\ LET At == Addresses \cup {Head, Tail}
           IN  nodes = [next |-> [a \in At |-> IF a = Head THEN Tail ELSE Null],
                        prev |-> [a \in At |-> IF a = Tail THEN Head ELSE Null],
                        key  |-> [a \in Addresses |-> Null],
                        val  |-> [a \in Addresses |-> Null]]
        /\ mp = [k \in Keys |-> Null]
        /\ result = Miss
        /\ alive = TRUE
        /\ Policy!Init

-----------------------------------------------------------------------------

(* The pointer assignments of add and remove, in their order, on a heap h. *)
add(h, a) == LET prevNode == h.prev[Tail]
             IN  [h EXCEPT !.next[a] = Tail, !.prev[a] = prevNode,
                           !.next[prevNode] = a, !.prev[Tail] = a]

remove_OneWay(h, a) == [h EXCEPT !.next[h.prev[a]] = h.next[a]]

remove(h, a) == LET prevNode == h.prev[a]
                    nextNode == h.next[a]
                IN  [h EXCEPT !.next[prevNode] = nextNode,
                              !.prev[nextNode] = prevNode]

construct(h, a, k, v) == [h EXCEPT !.key[a] = k, !.val[a] = v,
                                   !.next[a] = Null, !.prev[a] = Null]
delete(h, a) == [h EXCEPT !.key[a] = Null, !.val[a] = Null,
                          !.next[a] = Null, !.prev[a] = Null]

get(k) ==
    /\ alive
    /\ IF mp[k] # Null
       THEN /\ nodes' = add(remove(nodes, mp[k]), mp[k])
            /\ result' = nodes.val[mp[k]]
            /\ usedSince' = Policy!Use(k)
       ELSE result' = Miss /\ UNCHANGED <<nodes, usedSince>>
    /\ UNCHANGED <<mp, alive, latest>>

putUpdates(k, v) ==
    /\ alive
    /\ mp[k] # Null
    /\ nodes' = add([remove(nodes, mp[k]) EXCEPT !.val[mp[k]] = v], mp[k])
    /\ latest' = [latest EXCEPT ![k] = v]
    /\ usedSince' = Policy!Use(k)
    /\ UNCHANGED <<mp, result, alive>>

putInserts(k, v) ==
    /\ alive
    /\ mp[k] = Null /\ Size # Capacity
    /\ \E a \in Addresses \ Allocated :
           /\ nodes' = add(construct(nodes, a, k, v), a)
           /\ mp' = [mp EXCEPT ![k] = a]
    /\ latest' = [latest EXCEPT ![k] = v]
    /\ usedSince' = Policy!Use(k)
    /\ UNCHANGED <<result, alive>>

(* The full cache loses its first node; new may return its address again.  *)
putEvicts(k, v) ==
    /\ alive
    /\ mp[k] = Null /\ Size = Capacity
    /\ LET lru  == nodes.next[Head]
           rest == delete(remove(nodes, lru), lru)
       IN  \E a \in {x \in Addresses : rest.key[x] = Null} :
               /\ nodes' = add(construct(rest, a, k, v), a)
               /\ mp' = [mp EXCEPT ![nodes.key[lru]] = Null, ![k] = a]
    /\ latest' = [latest EXCEPT ![k] = v]
    /\ usedSince' = Policy!Use(k)
    /\ UNCHANGED <<result, alive>>

(* The nodes from Head on, as far as the list goes.                        *)
Walk[i \in 0 .. Cardinality(Addresses) + 1] ==
    IF i = 0 THEN Head
    ELSE IF Walk[i - 1] \in {Tail, Null} THEN Null
    ELSE nodes.next[Walk[i - 1]]
Reached == {Walk[i] : i \in DOMAIN Walk}

(* ~LRUCache deletes what it reaches.                                      *)
destroy == /\ alive
           /\ alive' = FALSE
           /\ nodes' = [nodes EXCEPT !.key = [a \in Addresses |->
                                    IF a \in Reached THEN Null ELSE @[a]]]
           /\ UNCHANGED <<mp, result, usedSince, latest>>

Next == \/ \E k \in Keys : \/ get(k)
                           \/ \E v \in Values : \/ putUpdates(k, v)
                                                \/ putInserts(k, v)
                                                \/ putEvicts(k, v)
        \/ destroy

Spec == Init /\ [][Next]_vars

-----------------------------------------------------------------------------
TypeOK == LET At == Addresses \cup {Head, Tail}
          IN  /\ nodes \in [next : [At -> At \cup {Null}],
                            prev : [At -> At \cup {Null}],
                            key  : [Addresses -> Keys \cup {Null}],
                            val  : [Addresses -> Values \cup {Null}]]
              /\ mp \in [Keys -> Addresses \cup {Null}]
              /\ result \in Values \cup {Miss}

(* While the cache lives its list and its map are in step: next and prev   *)
(* are inverse, no pointer leads to a freed node, and the map finds every  *)
(* node of the list by the key in it.  The destructor leaves no node.      *)
ListSound ==
    /\ TypeOK
    /\ alive =>
           /\ \A a \in Allocated \cup {Head} :
                  /\ nodes.next[a] \in Allocated \cup {Tail}
                  /\ nodes.prev[nodes.next[a]] = a
           /\ \A a \in Allocated \cup {Tail} :
                  /\ nodes.prev[a] \in Allocated \cup {Head}
                  /\ nodes.next[nodes.prev[a]] = a
           /\ Allocated = {mp[k] : k \in Keys} \ {Null}
           /\ \A k \in Keys : mp[k] # Null => nodes.key[mp[k]] = k
           /\ Allocated \cup {Head, Tail} \subseteq Reached
    /\ ~alive => Allocated = {}

(* Gets hit and miss as the LRU policy says, with the value last put.      *)
PolicySpec == Policy!Spec
=============================================================================
