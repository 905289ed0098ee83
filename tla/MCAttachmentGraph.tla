--------------------------- MODULE MCAttachmentGraph ---------------------------
(* Instances of AttachmentGraph: four resources of two types, of which at  *)
(* most three may be attached, in the shapes the parity contract lists.    *)
EXTENDS AttachmentGraph, TLC

CONSTANTS a, b, c, d, typeS, typeT

MCId == (a :> 1) @@ (b :> 2) @@ (c :> 3) @@ (d :> 4) @@ (typeS :> 11) @@ (typeT :> 12)

Shape(ra, rb, rc, rs, rt, links) ==
    [type |-> (a :> typeS) @@ (b :> typeS) @@ (c :> typeT) @@ (d :> typeT),
     refs |-> (a :> ra) @@ (b :> rb) @@ (c :> rc) @@ (d :> <<>>) @@ (typeS :> rs) @@ (typeT :> rt),
     links |-> links]

MCGraphs ==
    {Shape(<<b>>, <<c>>, <<a>>, <<typeT>>, <<typeS>>, {}),          \* a ring, its types too
     Shape(<<b, c>>, <<a, c>>, <<b>>, <<>>, <<>>, {}),              \* cycles that share an edge
     Shape(<<b, c>>, <<d>>, <<d, typeT>>, <<typeT>>, <<>>, {}),     \* a diamond, too large
     Shape(<<a, b>>, <<a>>, <<typeS>>, <<typeS>>, <<typeS>>, {}),   \* references to oneself
     Shape(<<b>>, <<c>>, <<>>, <<>>, <<typeT>>, {<<a, b>>})}        \* a link
=============================================================================
