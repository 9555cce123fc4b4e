---------------------------- MODULE MCMainProgram ----------------------------
(* Burst files and clock readings for TLC. *)
EXTENDS MainProgram

(* Ending in CPU or in I/O; numbers behind the -1; no -1;                  *)
(* one that takes two reads, and one that takes three.  The second fills   *)
(* one fgets.                                                              *)
MCLines == {<<2, 7, -1>>, <<1, 7, 2, -1, 9>>, <<4, 8, 2, 5>>,
            <<3, 7, 2, 8, 2, -1>>, <<3, 7, 2, 8, 2, 6, 3, 5, 2, 9, -1>>}
MCLineTokens == 5

(* Full after some of the files, too short for others. *)
MCStrLines == 7

(* The footer; a blank line or the rest of a header line reads the same. *)
Footer == <<0>>

MCContents ==
    {<<>>} \cup {<<l>> : l \in MCLines \cup {Footer}}
           \cup {<<k, l>> : k \in MCLines \cup {Footer}, l \in MCLines \cup {Footer}}
           \cup {<<j, k, l>> : j \in MCLines, k \in MCLines, l \in {Footer}}
           \cup {<<Footer, k, l, Footer>> : k \in MCLines, l \in MCLines}
           \cup {<<k, Footer, Footer, Footer>> : k \in MCLines}

MCFiles == {f \in [lines : MCContents, ended : BOOLEAN] : f.lines = <<>> => f.ended}

(* A short second: with three readings bursts take from -2 to 2 of its     *)
(* halves, with borrows, carries and a clock set back.                     *)
MCReadings == [tv_sec : {0, 1}, tv_nsec : {0, 1}] \ {[tv_sec |-> 1, tv_nsec |-> 1]}

(* "priority" is on the list main prints, but is no scheduler. *)
MCNames == {"fcfs", "rr", "priority"}
MCTurnarounds == {2}
=============================================================================
