--------------------------- MODULE MCModelRoutes ---------------------------
(***************************************************************************)
(* TLC instances of ModelRoutes.  Racing: mutations of the models that the *)
(* gateways list, and a discovery.  Mutating: one mutation more, of any    *)
(* model, and no discovery.  Overtaking: two discoveries, one provider and *)
(* one mutation.                                                           *)
(***************************************************************************)
EXTENDS ModelRoutes

AnyBudget == [left |-> MaxMutations, providers |-> Providers, models |-> Models,
              discovers |-> Gets]
OneGet == {CHOOSE g \in Gets : TRUE}

Racing == [AnyBudget EXCEPT !.left = @ - 1, !.models = Upstream, !.discovers = OneGet]
Mutating == [AnyBudget EXCEPT !.discovers = {}]
Overtaking == [AnyBudget EXCEPT !.left = @ - 2, !.providers = {1}, !.models = Upstream]
MCBudgets == {Racing, Mutating, Overtaking}

Unrestricted == {AnyBudget}
============================================================================
