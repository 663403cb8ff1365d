-------------------------- MODULE MCEscapeAnalysis --------------------------
(***************************************************************************)
(* EscapeAnalysis of a chain of two calls, whose innermost function keeps  *)
(* what it gets in a container of references, and of a function that calls *)
(* itself.  Each function has room for the few operations that can lose an *)
(* object or keep it.                                                      *)
(***************************************************************************)
EXTENDS EscapeAnalysis, TLC

CONSTANTS main, callee, keeper

Chain == [calls |-> (main :> {callee}) @@ (callee :> {keeper}) @@ (keeper :> {}),
          containers |-> {keeper},
          room |-> (main :> 2) @@ (callee :> 1) @@ (keeper :> 2)]

Recursive == [calls |-> (main :> {callee}) @@ (callee :> {callee}) @@ (keeper :> {}),
              containers |-> {},
              room |-> (main :> 1) @@ (callee :> 3) @@ (keeper :> 0)]

ChainOrRecursive == {Chain, Recursive}

Single == {[calls |-> (main :> {callee}) @@ (callee :> {}),
            containers |-> {},
            room |-> (main :> 2) @@ (callee :> 2)]}
=============================================================================
