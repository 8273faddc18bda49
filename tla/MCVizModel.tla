----------------------------- MODULE MCVizModel -----------------------------
(* Instances of VizModel for TLC.                                          *)
EXTENDS VizModel

p1 == [tab |-> "pods", ns |-> "n1", name |-> "a"]
p2 == [tab |-> "pods", ns |-> "n2", name |-> "b"]
s1 == [tab |-> "statefulsets", ns |-> "n1", name |-> "a"]
s2 == [tab |-> "statefulsets", ns |-> "n2", name |-> "b"]

(* Two StatefulSets and no pods.                                           *)
Sets == <<s1, s2>>
SetsUnfiltered == {{s1, s2}}
ChangingSets == {s1}

(* Two pods, either of which a filter may hide.                            *)
Pods == <<p1, p2>>
PodsFiltered == {{p1, p2}, {p1}, {p2}}
PodsUnfiltered == {{p1, p2}}
ChangingPods == {p1}
=============================================================================
