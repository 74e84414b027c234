------------------------------- MODULE Turns -------------------------------
(***************************************************************************)
(* The five exercises of Leetcode/, whose threads take turns at one mutex  *)
(* and one condition variable, in one state space: the initial state       *)
(* chooses the program that runs, and the variables of the others never    *)
(* change.                                                                 *)
(***************************************************************************)
EXTENDS Integers, Sequences, FiniteSets

CONSTANTS n,                    \* the constructors' n
          Hydrogens, Oxygens,   \* the threads of H2O, numbered
          MaxThreads            \* of any of the programs

VARIABLES program, at, printed,
          turn,   \* next, order or hCount
          i       \* a loop variable, or one for each thread

vars == <<program, at, printed, turn, i>>

FB == INSTANCE FizzBuzz
ZEO == INSTANCE ZeroEvenOdd
FooBar == INSTANCE FooBar WITH next <- turn
Foo == INSTANCE PrintInOrder WITH order <- turn
Water == INSTANCE H2O WITH hCount <- turn, released <- printed

ASSUME TurnsAssumption == /\ n \in Nat
                          /\ Water!H2OAssumption
                          /\ Water!Atoms = 1 .. MaxThreads
                          /\ MaxThreads >= 4

Init == \/ program = "FizzBuzz" /\ FB!Init /\ turn = 0
        \/ program = "ZeroEvenOdd" /\ ZEO!Init
        \/ program = "FooBar" /\ FooBar!Init
        \/ program = "PrintInOrder" /\ Foo!Init /\ i = 0
        \/ program = "H2O" /\ Water!Init /\ i = 0

Runs(p) == program = p /\ UNCHANGED program
Next == \/ Runs("FizzBuzz") /\ FB!Next /\ UNCHANGED turn
        \/ Runs("ZeroEvenOdd") /\ ZEO!Next
        \/ Runs("FooBar") /\ FooBar!Next
        \/ Runs("PrintInOrder") /\ Foo!Next /\ UNCHANGED i
        \/ Runs("H2O") /\ Water!Next /\ UNCHANGED i

Lock(t) == \/ Runs("FizzBuzz") /\ FB!Lock(t) /\ UNCHANGED turn
           \/ Runs("ZeroEvenOdd") /\ ZEO!Lock(t)
           \/ Runs("FooBar") /\ FooBar!Lock(t)
           \/ Runs("PrintInOrder") /\ Foo!Lock(t) /\ UNCHANGED i
           \/ Runs("H2O") /\ Water!Lock(t) /\ UNCHANGED i

Proceed(t) == \/ Runs("FizzBuzz") /\ FB!Proceed(t) /\ UNCHANGED turn
              \/ Runs("ZeroEvenOdd") /\ ZEO!Proceed(t)
              \/ Runs("FooBar") /\ FooBar!Proceed(t)
              \/ Runs("PrintInOrder") /\ Foo!Proceed(t) /\ UNCHANGED i
              \/ Runs("H2O") /\ Water!Proceed(t) /\ UNCHANGED i

(* A thread that has the mutex goes on.  The mutex is not fair: a thread   *)
(* is sure to get it in the end only if it is free again and again.  The   *)
(* threads are numbered, for as few fairness conditions as possible.       *)
Thread == CASE program = "FizzBuzz"     -> <<"fizz", "buzz", "fizzbuzz", "number">>
            [] program = "ZeroEvenOdd"  -> <<"zero", "even", "odd">>
            [] program = "FooBar"       -> <<"foo", "bar">>
            [] program = "PrintInOrder" -> Foo!Words
            [] program = "H2O"          -> [k \in 1 .. MaxThreads |-> k]
Spec == /\ Init /\ [][Next]_vars
        /\ \A k \in 1 .. MaxThreads :
               /\ SF_vars(k <= Len(Thread) /\ Lock(Thread[k]))
               /\ WF_vars(k <= Len(Thread) /\ Proceed(Thread[k]))

-----------------------------------------------------------------------------
(* Types, of the program that runs; no two threads hold the mutex.         *)
TypeOK == /\ program = "FizzBuzz" => FB!TypeOK
          /\ program = "ZeroEvenOdd" => ZEO!TypeOK
          /\ program = "FooBar" => FooBar!TypeOK
          /\ program = "PrintInOrder" => Foo!TypeOK
          /\ program = "H2O" => Water!TypeOK

(* At all times the output is a prefix of what the exercise asks for,      *)
(* however the threads overtake one another; molecules in the case of H2O. *)
OutputInOrder == /\ TypeOK
                 /\ program = "FizzBuzz" => FB!SeriesInOrder
                 /\ program = "ZeroEvenOdd" => ZEO!SeriesInOrder
                 /\ program = "FooBar" => FooBar!Alternates
                 /\ program = "PrintInOrder" => Foo!WordsInOrder
                 /\ program = "H2O" => Water!GroupsAreMolecules

(* The whole output is printed and every thread returns, those that have   *)
(* nothing left to print included.                                         *)
Complete == CASE program = "FizzBuzz"     -> FB!Complete
              [] program = "ZeroEvenOdd"  -> ZEO!Complete
              [] program = "FooBar"       -> FooBar!Complete
              [] program = "PrintInOrder" -> Foo!Complete
              [] program = "H2O"          -> Water!Complete
Termination == <>Complete
=============================================================================
