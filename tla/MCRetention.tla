----------------------------- MODULE MCRetention -----------------------------
(* Two runs of one submission, of any policy; the outputs of one run are   *)
(* not stored, those of the other for days.                                *)
EXTENDS Retention

CONSTANTS r1, r2, s1, p1, p2

MCRuns == {r1, r2}
MCSubmissions == {s1}
MCWorkers == {p1, p2}
MCInput == [s \in MCSubmissions |-> Retentions]
MCOutput == [r \in MCRuns |->
                 IF r = r1 THEN {"STORE_DAYS"} ELSE {"DO_NOT_STORE"}]
=============================================================================
