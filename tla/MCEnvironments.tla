---------------------------- MODULE MCEnvironments ----------------------------
(***************************************************************************)
(* Instances of Environments: the global environment, a package and a       *)
(* package below it, with compiled code in both.                            *)
(***************************************************************************)
EXTENDS Environments

CONSTANTS global, package, inner, nowhere, symX, siteLookup, siteAssign, siteCall

Nested == (global :> nowhere @@ package :> global @@ inner :> package)
Beside == (global :> nowhere @@ package :> global @@ inner :> global)
Apart  == (global :> nowhere @@ package :> nowhere @@ inner :> package)

AllParents == {Nested, Beside, Apart}
NoParams == [f \in Frame |-> {}]
EnvOfSite == [r \in Site |-> IF r = siteAssign THEN package ELSE inner]
SymbolOfSite == [r \in Site |-> symX]
KindOfSite == [r \in Site |-> CASE r = siteLookup -> "lookup"
                                [] r = siteAssign -> "assignment"
                                [] r = siteCall   -> "operator"]
AllNames == Frame \X Symbol
Values == Permutations(Value)
=============================================================================
