--------------------------- MODULE MCMultiSetValue ---------------------------
(* Model-checking instance of MultiSetValue: an array of at most three strings*)
(* and a string whose name begins with the name of the array.                 *)
EXTENDS MultiSetValue

CONSTANTS arr, arrName

MCParams == {arr, arrName}
MCArrays == {arr}
MCNamePrefix == {<<arr, arrName>>}
MCMaxLength == [p \in MCParams |-> IF p = arr THEN 3 ELSE 2]
MCTotalLength == [p \in MCParams |-> IF p = arr THEN 4 ELSE 1]
=============================================================================
