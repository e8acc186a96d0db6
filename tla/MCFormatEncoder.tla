-------------------------- MODULE MCFormatEncoder --------------------------
(* Blocks that fit their target, fit it twice over, or not even that (no     *)
(* block is too large for LZO and Snappy), and two that are no bitmaps.      *)
EXTENDS FormatEncoder

Sized(n) ==
  [data |-> TRUE, side |-> "fits", length |-> 4, capacity |-> 4,
   packed |-> [f \in Format |-> IF f \in {"LZO2", "SNAPPY"} THEN 3 ELSE n]]

MCBitmap ==
  [small |-> Sized(2), dense |-> Sized(7), hopeless |-> Sized(9),
   void |-> [Sized(2) EXCEPT !.data = FALSE], flat |-> [Sized(2) EXCEPT !.side = "zero"]]

MCBlock == DOMAIN MCBitmap
=============================================================================
