------------------------------ MODULE TextFields ------------------------------
(***************************************************************************)
(* What the input method promises the fields of the applications, with     *)
(* nothing said of engines, modes, popups or requests: what a field has    *)
(* been given is the beginning of what its user typed, and it only grows.  *)
(* EngineWorker implements it.                                             *)
(***************************************************************************)
EXTENDS Naturals, Sequences, SequencesExt

CONSTANT Fields

VARIABLES
  typed, \* the text each field's user has typed
  given  \* the text each field has been given

vars == <<typed, given>>

Init == typed = [f \in Fields |-> <<>>] /\ given = [f \in Fields |-> <<>>]

(* A key types one character, erases one that the field has not been given *)
(* yet, or does neither.                                                   *)
Typings(f) ==
  {typed[f], Append(typed[f], Len(typed[f]) + 1)}
    \cup {Front(text) : text \in {t \in {typed[f]} : Len(t) > Len(given[f])}}

(* The field is given some more of it, or nothing; never is text taken     *)
(* back.                                                                   *)
Write(f) ==
  \E text \in Typings(f) :
    /\ typed' = [typed EXCEPT ![f] = text]
    /\ \E n \in Len(given[f]) .. Len(text) : given' = [given EXCEPT ![f] = SubSeq(text, 1, n)]

Close(f) == typed' = [typed EXCEPT ![f] = <<>>] /\ given' = [given EXCEPT ![f] = <<>>]

Next == \E f \in Fields : Write(f) \/ Close(f)

Spec == Init /\ [][Next]_vars
=============================================================================
