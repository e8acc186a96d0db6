-------------------------- MODULE MCStripPipeline --------------------------
(* The option records StripPipeline is checked under. *)
EXTENDS StripPipeline

Options4(n, c, rt, et, dt, k) ==
  [nrows : {n}, cache : {c}, rt : {rt}, et : {et}, dt : {dt}, repeat : {k},
   encode : {TRUE}, decode : {TRUE}, check : {TRUE}, brotli : {FALSE}]

\* A verified run: a full and a partial window, two passes, two threads.
Checked == Options4(3, 2, 2, 2, 2, 2)

\* One window wider than the column, with pools of different sizes.
Mixed == Options4(2, 3, 1, 2, 2, 1)

\* No rows at all: an extent of zero.
NoRows == Options4(0, 1, 1, 1, 1, 1)

\* The phase switches, no check, and the format without a decoder.
Switches ==
  {o \in [nrows : {2}, cache : {1}, rt : {1}, et : {2}, dt : {1}, repeat : {2},
          encode : BOOLEAN, decode : BOOLEAN, check : BOOLEAN, brotli : BOOLEAN] :
     ~(o.encode /\ o.decode /\ o.check /\ ~o.brotli)}

MCOptions == Checked \cup Mixed \cup NoRows \cup Switches

\* --check with every switch on, and Brotli as the format.
BrotliOptions == [nrows : {2}, cache : {2}, rt : {2}, et : {2}, dt : {2}, repeat : {2},
                  encode : {TRUE}, decode : {TRUE}, check : {TRUE}, brotli : {TRUE}]
=============================================================================
