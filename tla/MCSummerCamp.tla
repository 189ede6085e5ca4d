---------------------------- MODULE MCSummerCamp ----------------------------
(* Up to three overlapping requests, numbered.  They differ in nothing but  *)
(* what is submitted, so they are submitted in the order of their numbers.  *)
EXTENDS SummerCamp, TLC

RankOf(g) == CASE g = "3.5" -> 1 [] g = "3.50" -> 2 [] g = "3.9" -> 3

MCNext ==
    Next /\ \A r, s \in Request : r < s /\ At(r, "none") => (At(s, "none"))'

MCSpec == Init /\ [][MCNext]_vars /\ \A r \in Request : WF_vars(Proceeds(r))

=============================================================================
