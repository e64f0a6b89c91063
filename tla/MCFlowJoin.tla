----------------------------- MODULE MCFlowJoin -----------------------------
(***************************************************************************)
(* TLC instances of FlowJoin.                                              *)
(*                                                                         *)
(* The class of the entry extends a template class whose body calls an     *)
(* abstract step; the entry's class overrides the step, and so does a      *)
(* sibling.  A helper lives in a shared module, and may call on into       *)
(* another application.                                                    *)
(***************************************************************************)
EXTENDS FlowJoin

CONSTANTS entry, body, step, sibling, helper, deep, foreign,
          p, q, r, own, template, brother, shared, other, m1, m2, lib

MCMethods == {entry, body, step, sibling, helper, deep, foreign}
MCEndpoints == {p, q, r}

MCOutputs ==
    [m \in MCMethods |-> CASE m = step -> {p} [] m = deep -> {q, r}
                           [] m = entry -> {r} [] m = sibling -> {q}
                           [] m = foreign -> {q} [] OTHER -> {}]

MCClass ==
    [m \in MCMethods |-> CASE m \in {entry, step} -> own [] m = body -> template
                           [] m = sibling -> brother [] m = foreign -> other
                           [] OTHER -> shared]

MCAncestors ==
    [c \in {own, template, brother, shared, other} |->
        IF c \in {own, brother} THEN {c, template} ELSE {c}]

MCModule ==
    [m \in MCMethods |-> CASE m \in {helper, deep} -> lib [] m = foreign -> m2 [] OTHER -> m1]

MCCall(from, to, kind) == [from |-> from, to |-> to, kind |-> kind]

MCPool ==
    {MCCall(entry, body, "exact"), MCCall(body, step, "possible"),
     MCCall(body, sibling, "possible"), MCCall(entry, helper, "exact"),
     MCCall(entry, helper, "inferred"), MCCall(step, helper, "exact"),
     MCCall(helper, deep, "exact"), MCCall(entry, deep, "possible"),
     MCCall(deep, helper, "exact"), MCCall(deep, step, "exact"),
     MCCall(step, entry, "exact"), MCCall(helper, foreign, "exact")}
=============================================================================
