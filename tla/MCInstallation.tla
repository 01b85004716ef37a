--------------------------- MODULE MCInstallation ---------------------------
(* Kernel and genesis, a registry package, a layout package and a second one
   that takes the layout over from the first, and an upgrade of the last that
   expects a file of its own.                                                  *)
EXTENDS Installation, TLC

CONSTANTS genesis, kernel, reg, layout1, layout2, layout3, G, K, R, L1, L2,
          fSeed, fKernel, fRegistry, fLayout, fNew

MCPackageOf == (genesis :> G) @@ (kernel :> K) @@ (reg :> R) @@ (layout1 :> L1)
               @@ (layout2 :> L2) @@ (layout3 :> L2)
MCFiles == (genesis :> {fSeed}) @@ (kernel :> {fKernel, fRegistry})
           @@ (reg :> {fRegistry}) @@ (layout1 :> {fLayout})
           @@ (layout2 :> {fLayout}) @@ (layout3 :> {fLayout, fNew})
MCDeps == (genesis :> {}) @@ (kernel :> {}) @@ (reg :> {K}) @@ (layout1 :> {K})
          @@ (layout2 :> {K, L1}) @@ (layout3 :> {K, L1})
MCLayer == [a \in Archives |-> IF a = reg THEN 1 ELSE 2]
MCChained == [a \in Archives |-> IF a = reg THEN Archives ELSE {genesis, kernel, reg}]
MCExpects == [a \in Archives |-> IF a = layout3 THEN {fNew} ELSE {}]
MCOptions == {{}, {"dev", "force"}, {"dev", "dry"}}
=============================================================================
