---------------------------- MODULE MCEmMinimize ----------------------------
(* Six events, so that a range is split more than once before it is tested *)
(* and tested as a whole when it has two; guests that fail by the last     *)
(* event and any others, and by an earlier one when another is left out.   *)
EXTENDS EmMinimize

MCRecordings == {
  <<"down", "up", "key", "down", "up", "key">>,
  <<"key", "down", "down", "up", "down", "up">>,
  <<"key", "down", "key", "down", "up", "key">>}

Has == {h \in SUBSET (1 .. 6) : 6 \in h}
MCGuests ==
  {{[has |-> h, not |-> {}]} : h \in Has}
    \cup {{[has |-> h, not |-> {}], [has |-> {5}, not |-> {n}]} : h \in Has, n \in {2, 4}}

MCOffEvents == {{}, {1}, {3}, {4, 5}}
=============================================================================
