----------------------------- MODULE Factorial -----------------------------
(***************************************************************************)
(* WpHandlerFactorial of app/httphandler: one request with an array of     *)
(* numbers, answered with the sum of their factorials. In the mode "bg"    *)
(* each number is a task of the worker pool, which finish in any order;    *)
(* else the handler computes by itself. A uint64 has Width bits here.      *)
(***************************************************************************)
EXTENDS Integers, Sequences, SequencesExt

CONSTANTS
  Width,    \* bits of a uint64
  MaxNum,   \* bound on the numbers, less than 2^Width - 1
  MaxLen,   \* bound on the length of the array
  None      \* nil

VARIABLES
  numArray,   \* NumArray of the request, or nil
  wpTipe,
  sum,        \* SumFactorial, of the request at first
  result,     \* what each task has returned
  factVal,    \* of calculateFactorialOnline
  next,       \* the element that is added next
  calc        \* where the handler is, or how it returned

vars == <<numArray, wpTipe, sum, result, factVal, next, calc>>

Wrap(n) == n % 2^Width
Numbers == {None} \cup BoundedSeq(0..MaxNum, MaxLen)
Given == {0, 1}   \* values of sum_factorial in a request

Init ==
  /\ numArray \in Numbers /\ wpTipe \in {"bg", "online"}
  /\ sum \in (IF wpTipe = "bg" THEN Given ELSE {0})
  /\ result = <<>> /\ factVal = 1 /\ next = 1 /\ calc = "start"

-----------------------------------------------------------------------------

\* The loop of calculateFactorialFn: it goes on from the value it is given.
MutTimes(start, value) ==
  LET product[cnt \in 0..value] ==
        IF cnt = 0 THEN start ELSE Wrap(product[cnt - 1] * (cnt - 1))
  IN product[value]
Times(start, value) ==
  LET product[cnt \in 0..value] ==
        IF cnt = 0 THEN start ELSE Wrap(product[cnt - 1] * cnt)
  IN product[value]

\* An array that is missing is a panic, for recoverWrap to recover from.
Start ==
  /\ calc = "start"
  /\ IF numArray = None THEN calc' = "panicked" /\ UNCHANGED <<sum, result>>
     ELSE IF wpTipe = "bg"
       THEN /\ calc' = "group" /\ UNCHANGED sum
            /\ result' = [i \in 1..Len(numArray) |-> None]
       ELSE calc' = "online" /\ sum' = 0 /\ UNCHANGED result
  /\ UNCHANGED <<numArray, wpTipe, factVal, next>>

\* A worker has run a task, or lost it.
Task(i) ==
  /\ calc = "group" /\ result[i] = None
  /\ result' = [result EXCEPT ![i] = Times(1, numArray[i])] \/ result' = [result EXCEPT ![i] = -1]
  /\ UNCHANGED <<numArray, wpTipe, sum, factVal, next, calc>>

\* RunTasksGroupWG returns when every task is done, or refuses the group.
GroupReturns ==
  /\ calc = "group"
  /\ \/ calc' = "error"
     \/ (\A i \in DOMAIN result : result[i] # None) /\ calc' = "add"
  /\ UNCHANGED <<numArray, wpTipe, sum, result, factVal, next>>

AddUp ==
  /\ calc = "add"
  /\ IF next > Len(result) THEN calc' = "ok" /\ UNCHANGED <<sum, next>>
     ELSE IF result[next] = -1 THEN calc' = "error" /\ UNCHANGED <<sum, next>>
     ELSE sum' = Wrap(sum + result[next]) /\ next' = next + 1 /\ UNCHANGED calc
  /\ UNCHANGED <<numArray, wpTipe, result, factVal>>

\* calculateFactorialOnline does not begin anew with factVal.
Online ==
  /\ calc = "online"
  /\ IF next > Len(numArray) THEN calc' = "ok" /\ UNCHANGED <<sum, factVal, next>>
     ELSE /\ factVal' = Times(factVal, numArray[next])
          /\ sum' = Wrap(sum + factVal') /\ next' = next + 1
          /\ UNCHANGED calc
  /\ UNCHANGED <<numArray, wpTipe, result>>

Next ==
  \/ Start \/ GroupReturns \/ AddUp \/ Online
  \/ \E i \in DOMAIN result : Task(i)

Spec == Init /\ [][Next]_vars

-----------------------------------------------------------------------------

Fact[n \in Nat] == IF n = 0 THEN 1 ELSE n * Fact[n - 1]
Total(s) ==
  LET upTo[i \in 0..Len(s)] == IF i = 0 THEN 0 ELSE upTo[i - 1] + s[i]
  IN upTo[Len(s)]

\* handler_wp.go:72-143: in the mode "bg" the answer is the sum of the factorials, to
\* the width of a uint64 and on top of the sum that came with the request, and not
\* less because a task was lost or finished out of order.
SumIsRight ==
  calc = "ok" /\ wpTipe = "bg" =>
    \E given \in Given :
      sum = Wrap(given + Total([i \in DOMAIN numArray |-> Fact[numArray[i]]]))
=============================================================================
