---------------------------- MODULE AtomicStore ----------------------------
(***************************************************************************)
(* What a key-value store shared by threads promises, whatever locks it    *)
(* uses: each call takes effect at one moment between its start and its    *)
(* return.  A tryPut may give up, and then has no effect.                  *)
(***************************************************************************)
CONSTANTS Threads, Keys,
          Calls,     \* [op, key, val]
          Absent,    \* what get returns for a missing key
          Idle, Nothing

VARIABLES store,
          call,      \* call[t]: the call of t that has not returned, or Idle
          answer     \* answer[t]: what its last call returned, or Nothing
vars == <<store, call, answer>>

Init == /\ store = [k \in Keys |-> Absent]
        /\ call \in [Threads -> {Idle}]
        /\ answer = [t \in Threads |-> Nothing]

Invoke(t, c) == /\ call[t] = Idle
                /\ call' = [call EXCEPT ![t] = c]
                /\ answer' = [answer EXCEPT ![t] = Nothing]
                /\ UNCHANGED store

Returns(t, result) == /\ call' = [call EXCEPT ![t] = Idle]
                      /\ answer' = [answer EXCEPT ![t] = result]

Get(t) == /\ call[t].op = "get"
          /\ Returns(t, store[call[t].key])
          /\ UNCHANGED store

Put(t) == /\ call[t].op \in {"put", "tryPut"}
          /\ store' = [store EXCEPT ![call[t].key] = call[t].val]
          /\ Returns(t, IF call[t].op = "put" THEN Nothing ELSE TRUE)

GiveUp(t) == /\ call[t].op = "tryPut"
             /\ Returns(t, FALSE)
             /\ UNCHANGED store

PutIfAbsent(t) ==
    LET absent == store[call[t].key] = Absent
    IN  /\ call[t].op = "putIfAbsent"
        /\ store' = [store EXCEPT ![call[t].key] = IF absent THEN call[t].val ELSE @]
        /\ Returns(t, absent)

Next == \E t \in Threads :
            \/ \E c \in Calls : Invoke(t, c)
            \/ /\ call[t] # Idle
               /\ Get(t) \/ Put(t) \/ GiveUp(t) \/ PutIfAbsent(t)

Spec == Init /\ [][Next]_vars
=============================================================================
