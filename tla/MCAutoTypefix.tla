--------------------------- MODULE MCAutoTypefix ---------------------------
(* Small instances of AutoTypefix: values for its constants. *)
EXTENDS AutoTypefix

\* An English word in which two syllables can be read, so that skipping it matters.
MCDictionary == {<<"C", "V", "V">>, <<"C", "V", "C", "V", "C">>}

\* Words a detector is after, one of them the beginning of another.
MCReverse == {<<"C", "V", "V">>, <<"V", "C">>}

\* One correction of each direction, which the user may take back and type again.
MCEarlier == {<<<<"C", "V", "C", "V">>, "Forward">>, <<<<"V", "C">>, "Reverse">>}
=============================================================================
