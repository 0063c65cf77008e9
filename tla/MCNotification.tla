--------------------------- MODULE MCNotification ---------------------------
(* Instances of Notification for TLC. *)
EXTENDS Notification, TLC

Usable(t, ss) == [enabled |-> TRUE, type |-> t, configured |-> TRUE, schedules |-> ss]

\* Lists of schedules without repetitions: of one, of all.
FullList == CHOOSE q \in [1..Cardinality(Schedules) -> Schedules] :
                \A i, j \in DOMAIN q : q[i] = q[j] => i = j
Lists == {<<s>> : s \in Schedules} \cup {FullList}
PlainSpecs == {Usable(t, q) : t \in Supported, q \in Lists}

\* With one spec for each reason to give no recipient, and one that lists
\* schedules twice: nothing in the CRD forbids it.
SomeType == CHOOSE t \in Supported : TRUE
SomeList == CHOOSE q \in Lists : TRUE
AllSpecs == {Usable(SomeType, q) : q \in Lists} \cup {Usable(t, FullList) : t \in Supported}
    \cup {[Usable(SomeType, SomeList) EXCEPT !.enabled = FALSE],
          [Usable(SomeType, SomeList) EXCEPT !.configured = FALSE]}
    \cup {Usable(SomeType, SomeList \o SomeList)}
    \cup {Usable(t, SomeList) : t \in Types \ Supported}

Symmetry == Permutations(Policies)
=============================================================================
