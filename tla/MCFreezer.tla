------------------------------ MODULE MCFreezer ------------------------------
(***************************************************************************)
(* Freezer with an image that changes what it shows, an element whose      *)
(* background has two images, and one without any style.                   *)
(***************************************************************************)

EXTENDS Freezer, TLC

CONSTANTS img, div, plain, color, u1, u2

Rules  == (img :> {}) @@ (div :> {color}) @@ (plain :> {})
Values == (img :> {color}) @@ (div :> {color}) @@ (plain :> {color})
Layers == (img :> <<u1>>) @@ (div :> <<u1, u2>>) @@ (plain :> <<>>)
Shown  == (img :> {u1, u2, None}) @@ (div :> {}) @@ (plain :> {})

=============================================================================
