--------------------------- MODULE MCTextureCache ---------------------------
(* An instance of TextureCache for TLC. *)
EXTENDS TextureCache

\* A picture there is only a .webp of, that .webp, and a file no codec reads.
MCFiles == {"a.png", "a.webp", "b.jpg"}
MCKind == [f \in MCFiles |->
    CASE f = "a.png" -> "fallback" [] f = "b.jpg" -> "bad" [] OTHER -> "good"]
MCAlternative == [f \in MCFiles |-> IF f = "a.png" THEN "a.webp" ELSE f]
=============================================================================
