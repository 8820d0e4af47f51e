--------------------------- MODULE MCHangulComposer ---------------------------
(* Two consonants, one that no syllable ends in, and two vowels. *)
EXTENDS HangulComposer

Sequential == {Plain("cho", <<"g">>), Plain("cho", <<"s">>), Plain("jung", <<"o">>), Plain("jung", <<"a">>)}

MCKeys == [type \in {"2bul", "3bul"} |->
  IF type = "2bul" THEN Sequential \cup {Plain("cho", <<"D">>)}
  ELSE (Sequential \ {Plain("cho", <<"s">>)}) \cup {Plain("jong", <<"g">>), Plain("jong", <<"s">>),
                        [Plain("jung", <<"o">>) EXCEPT !.head = FALSE]}]

MCCompounds == [type \in {"2bul", "3bul"} |->
  {<<"jung", <<"o", "a">>>>, <<"jong", <<"g", "s">>>>} \cup
  IF type = "2bul" THEN {} ELSE {<<"cho", <<"g", "g">>>>}]

MCMaxWord == [chord \in BOOLEAN |-> IF chord THEN 2 ELSE 4]

MCChoOnly == {<<"D">>}

MCLayouts == {[type |-> "2bul", bidirectional |-> FALSE, chord |-> FALSE],
              [type |-> "3bul", bidirectional |-> FALSE, chord |-> FALSE],
              [type |-> "3bul", bidirectional |-> TRUE,  chord |-> FALSE],
              [type |-> "3bul", bidirectional |-> FALSE, chord |-> TRUE],
              [type |-> "3bul", bidirectional |-> TRUE,  chord |-> TRUE]}

\* The two-set keyboard by itself.
MCTwoSet == {l \in MCLayouts : l.type = "2bul"}
===============================================================================
