---------------------------- MODULE AmazonLocker ----------------------------
(***************************************************************************)
(* AmazonLocker.cpp: compartments, and a map from access codes to tokens,  *)
(* each with its compartment and its expiry.  An expiry enters every       *)
(* decision as its distance from the clock, so the model keeps that        *)
(* distance: it counts down to -1, the value of every later time.  What is *)
(* in a compartment and which code its customer was told is not known to   *)
(* the code; inside and told record it.                                    *)
(***************************************************************************)
EXTENDS Integers, FiniteSets

CONSTANTS Compartments, Sizes,
          SizeOf,      \* SizeOf[c], from addCompartment
          Codes,       \* what the generator may draw
          Packages,    \* each is deposited once
          Ttl,         \* 7 days, in ticks
          Nothing

Tokens == [comp : Compartments, left : -1 .. Ttl]

LockerAssumption == /\ SizeOf \in [Compartments -> Sizes]
                    /\ Ttl \in Nat
                    /\ Nothing \notin Compartments \cup Packages \cup Codes \cup Tokens

VARIABLES occupied,   \* the compartments whose flag is set
          tokensMap,  \* tokensMap[code]: [comp, left], or Nothing
          inside,     \* inside[c]: the package in compartment c, or Nothing
          told,       \* told[p]: the code returned for package p, or Nothing
          gone        \* the packages picked up or returned to their senders,
                      \* and Nothing if a compartment was opened in vain

vars == <<occupied, tokensMap, inside, told, gone>>

Live == {k \in Codes : tokensMap[k] # Nothing}

Init == /\ occupied = {}
        /\ tokensMap = [k \in Codes |-> Nothing]
        /\ inside = [c \in Compartments |-> Nothing]
        /\ told = [p \in Packages |-> Nothing]
        /\ gone = {}

-----------------------------------------------------------------------------
(* The loop takes the first of the vector; which one comes first depends   *)
(* on the order of the calls of addCompartment.                            *)
Free(size) == {c \in Compartments : SizeOf[c] = size /\ c \notin occupied}

(* It throws, and changes nothing, when no compartment is free.  The code  *)
(* is random; nothing compares it with those in use.                       *)
depositPackage(p, size) ==
    /\ told[p] = Nothing
    /\ \E c \in Free(size), code \in Codes :
           /\ occupied' = occupied \cup {c}
           /\ tokensMap' = [tokensMap EXCEPT ![code] = [comp |-> c, left |-> Ttl]]
           /\ inside' = [inside EXCEPT ![c] = p]
           /\ told' = [told EXCEPT ![p] = code]
    /\ UNCHANGED gone

Vacate_KeepsFlag(code) ==
    LET c == tokensMap[code].comp
    IN  /\ inside' = [inside EXCEPT ![c] = Nothing]
        /\ gone' = gone \cup {inside[c]}
        /\ tokensMap' = [tokensMap EXCEPT ![code] = Nothing]
        /\ UNCHANGED <<occupied, told>>

Vacate(code) ==
    LET c == tokensMap[code].comp
    IN  /\ occupied' = occupied \ {c}
        /\ inside' = [inside EXCEPT ![c] = Nothing]
        /\ gone' = gone \cup {inside[c]}
        /\ tokensMap' = [tokensMap EXCEPT ![code] = Nothing]
        /\ UNCHANGED told

(* Both throw, and change nothing, for a code that is not in the map.  A   *)
(* code is good for the customer until the instant of its expiry, and for  *)
(* the staff from then on.                                                 *)
getPackage(code) == /\ code \in Live /\ tokensMap[code].left >= 0
                    /\ Vacate(code)

removeExpiredPackage_TooEarly(code) ==
    /\ code \in Live /\ tokensMap[code].left > 0
    /\ Vacate(code)

removeExpiredPackage(code) == /\ code \in Live /\ tokensMap[code].left <= 0
                              /\ Vacate(code)

Tick == /\ \E k \in Live : tokensMap[k].left >= 0
        /\ tokensMap' = [k \in Codes |->
               IF k \in Live /\ tokensMap[k].left >= 0
               THEN [tokensMap[k] EXCEPT !.left = @ - 1] ELSE tokensMap[k]]
        /\ UNCHANGED <<occupied, inside, told, gone>>

Next == \/ \E p \in Packages, size \in Sizes : depositPackage(p, size)
        \/ \E code \in Codes : getPackage(code) \/ removeExpiredPackage(code)
        \/ Tick

Spec == Init /\ [][Next]_vars

-----------------------------------------------------------------------------
TypeOK == /\ occupied \subseteq Compartments
          /\ tokensMap \in [Codes -> Tokens \cup {Nothing}]
          /\ inside \in [Compartments -> Packages \cup {Nothing}]
          /\ told \in [Packages -> Codes \cup {Nothing}]
          /\ gone \subseteq Packages

(* A code never opens an empty compartment, nor two codes the same one.    *)
TokensSound == \A k, l \in Live : /\ inside[tokensMap[k].comp] # Nothing
                                  /\ tokensMap[k].comp = tokensMap[l].comp => k = l

(* No package is put on top of another: every deposited package is either  *)
(* in one compartment, whose flag is set, or gone.                         *)
PackagesAccounted ==
    /\ occupied = {c \in Compartments : inside[c] # Nothing}
    /\ \A p \in Packages :
           Cardinality({c \in Compartments : inside[c] = p})
               = IF told[p] # Nothing /\ p \notin gone THEN 1 ELSE 0

(* Lines 8 to 10: each package in a compartment has a token, found by the  *)
(* code its customer was told and leading to that compartment.             *)
OneTokenPerPackage == \A c \in Compartments :
    inside[c] # Nothing =>
        /\ told[inside[c]] \in Live
        /\ tokensMap[told[inside[c]]].comp = c

NoCodeDrawnTwice ==
    \A p, q \in Packages : told[p] = told[q] /\ told[p] # Nothing => p = q

(* Codes may collide without harm to all this but the last.                *)
LockerSound == /\ TypeOK /\ TokensSound /\ PackagesAccounted
               /\ NoCodeDrawnTwice => OneTokenPerPackage

(* Lines 16 to 18: no package keeps its compartment for ever, but one      *)
(* whose token was replaced by that of a later package.                    *)
CompartmentsComeFree ==
    \A c \in Compartments :
        inside[c] # Nothing ~> \/ inside[c] = Nothing
                               \/ \A k \in Live : tokensMap[k].comp # c
=============================================================================
