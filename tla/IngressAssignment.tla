------------------------- MODULE IngressAssignment --------------------------
(***************************************************************************)
(* Which ingress a namespace gets (framework/utils/ingressassignment).  An *)
(* ingress is [name, gateway, namespace, isDefault]; "" is an empty        *)
(* string.  annotation is the name the namespace asks for, "absent" if it  *)
(* has no annotation, "unreadable" if it cannot be read.                   *)
(***************************************************************************)
EXTENDS Naturals, FiniteSets, SequencesExt

\* What Resolve returns: the ingress, or an error and none.
Chosen(i) == [error |-> "", ingress |-> {i}]
Refused(error) == [error |-> error, ingress |-> {}]

\* Mutant: several defaults are accepted.
ValidIngressesAnyDefaults(ingresses) ==
    /\ \A n \in DOMAIN ingresses :
          "" \notin {ingresses[n].name, ingresses[n].gateway, ingresses[n].namespace}
    /\ \A m, n \in DOMAIN ingresses :
          m # n => /\ ingresses[m].name # ingresses[n].name
                   /\ ingresses[m].gateway # ingresses[n].gateway

ValidIngresses(ingresses) ==
    /\ \A n \in DOMAIN ingresses :
          "" \notin {ingresses[n].name, ingresses[n].gateway, ingresses[n].namespace}
    /\ \A m, n \in DOMAIN ingresses :
          m # n => /\ ingresses[m].name # ingresses[n].name
                   /\ ingresses[m].gateway # ingresses[n].gateway
    /\ Cardinality({n \in DOMAIN ingresses : ingresses[n].isDefault}) <= 1

\* The first that is asked for, and the default only if none is asked for.
ResolveIngress(ingresses, annotation) ==
    LET wanted == {n \in DOMAIN ingresses :
                      IF annotation = "absent" THEN ingresses[n].isDefault
                      ELSE ingresses[n].name = annotation}
    IN  IF ~ValidIngresses(ingresses) THEN Refused("InvalidIngresses")
        ELSE IF annotation = "unreadable" THEN Refused("namespace")
        ELSE IF wanted # {} THEN Chosen(ingresses[Min(wanted)])
        ELSE Refused("UnknownIngress")

-----------------------------------------------------------------------------

\* The assignment is a function of the set of ingresses, not of their order,
\* and namespaces that name different ingresses never share a Gateway, the
\* default included (assignment.go:66, :101).
AssignmentIsUnambiguous(ingresses, annotations) ==
    /\ \A a \in annotations :
          ResolveIngress(ingresses, a) = ResolveIngress(Reverse(ingresses), a)
    /\ \A a, b \in annotations \ {"absent"} :
          LET i == ResolveIngress(ingresses, a).ingress
              j == ResolveIngress(ingresses, b).ingress
          IN  a # b => {x.gateway : x \in i} \intersect {x.gateway : x \in j} = {}
=============================================================================
