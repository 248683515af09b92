------------------------------- MODULE MCSubmit -------------------------------
(* Instances of Submit for TLC.                                            *)
EXTENDS Submit, TLC

R(f, x, t) == [files |-> f, extras |-> x, texts |-> t]

(* One request; with it, the same sources with other texts, and the same   *)
(* widget files in other sources.                                          *)
OneRequest == {R("f1", "x1", "t1")}
SeveralRequests == OneRequest \cup {R("f1", "x1", "t2"), R("f1", "x2", "t1")}

(* What the last run ended on is read by nobody.                           *)
Outcomeless ==
    <<clock, sub, versions, file, late, attempt,
      [p \in Procs |-> IF At(p, "idle") THEN "idle" ELSE run[p]]>>

KeySymmetry == Permutations(Keys)
=============================================================================
