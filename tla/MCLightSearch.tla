--------------------------- MODULE MCLightSearch ---------------------------
(***************************************************************************)
(* The instance of LightSearch: one channel varies, the others have an     *)
(* even light, so that every pairing of a settled and a dim channel occurs.*)
(***************************************************************************)
EXTENDS LightSearch

Even(x)       == [c \in CH |-> x]
With(f, c, x) == [f EXCEPT ![c] = x]

MCLimRgb == [R |-> 2, G |-> 3, B |-> 3, Ir |-> 0]
MCLimIr  == [R |-> 3, G |-> 4, B |-> 4, Ir |-> 3]

\* Sensitivities from "no light at all" to "saturated at once".
Full == {[ir |-> i, full |-> TRUE, light |-> With(Even(a), c, b), dark |-> [x \in RGB |-> k],
          cur |-> Even(0), duty |-> Even(0), gain |-> Even(0)] :
            i \in BOOLEAN, a \in {6, 12, 24}, b \in {0, 2, 3, 8, 40}, c \in {"R", "Ir"}, k \in {-9, 0}}

\* Stored settings: none, usable ones, ones above today's limits.
Stored == {[ir |-> i, full |-> FALSE, light |-> With(Even(a), c, b), dark |-> [x \in RGB |-> k],
            cur |-> With(Even(1), c, n), duty |-> With(Even(d), c, e), gain |-> With(Even(g), c, h)] :
            i \in BOOLEAN, a \in {12, 24}, b \in {2, 5, 8}, c \in {"R", "Ir"}, k \in {9}, n \in {0, 2, 9},
            d \in {0, 12}, e \in {5, 13}, g \in {1, 2}, h \in {1, 3}}

MCJobs == Full \cup Stored
=============================================================================
