--------------------------- MODULE MCJailDepends ---------------------------
(***************************************************************************)
(* Values of the constants of JailDepends for the runs of TLC.             *)
(***************************************************************************)
EXTENDS JailDepends

Three == 1 .. 3
Four == 1 .. 4

\* Every duplicate-free order of every subset of S.
Orders(S) ==
  UNION {{[i \in 1 .. Cardinality(T) |-> p[i]] :
           p \in {q \in [1 .. Cardinality(T) -> T] :
                    \A i, k \in 1 .. Cardinality(T) : q[i] = q[k] => i = k}} :
         T \in SUBSET S}

\* All graphs without cycles, up to renaming: a jail depends on higher ones.
AcyclicGraphs4 ==
  {<<a, b, c, <<>>>> :
     a \in Orders({2, 3, 4}), b \in Orders({3, 4}), c \in Orders({4})}

\* Two jails that depend on each other.
CircularGraphs == {[j \in Jails |-> CASE j = 1 -> <<2>> [] j = 2 -> <<1>>
                                      [] OTHER -> <<>>]}

Either == BOOLEAN
NoCommand == {FALSE}
=============================================================================
