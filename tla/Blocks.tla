------------------------------- MODULE Blocks -------------------------------
(***************************************************************************)
(* The data the pipeline moves: row blocks, abstracted to what the phases  *)
(* of src/redcli/main.cpp tell apart, and the options that steer a column. *)
(***************************************************************************)
EXTENDS Integers, Functions

CONSTANT Options   \* the option records a column may run under

\* What rle4k_rasterize_block hands back: no bitmap at all, a bitmap without
\* data, or a bitmap.  A blank bitmap holds zero bytes only: it is told apart
\* because a freshly assigned check buffer holds zeros as well.
Content == {"blank", "drawn"}
Kind    == {"null", "empty"} \cup Content

\* data_length of a block, and of what a codec makes of it: any two values
\* that differ would do, no code path compares them.
RawBytes(kind)    == IF kind \in Content THEN 4 ELSE 0
PackedBytes(kind) == CASE kind = "blank" -> 1 [] kind = "drawn" -> 3 [] OTHER -> 0

Positive == Nat \ {0}

OptionRecord ==
  [nrows  : Nat,            \* row blocks of the column
   cache  : Positive,       \* cache_blocks: rows of a window
   rt     : Positive,       \* requested raster, encode and decode threads
   et     : Positive,
   dt     : Positive,
   repeat : Positive,
   encode : BOOLEAN,        \* cfg.encode_enabled
   decode : BOOLEAN,        \* cfg.decode_enabled
   check  : BOOLEAN,        \* cfg.check_enabled
   brotli : BOOLEAN]        \* the format is the one without a decoder

ASSUME OptionsAssumption == Options \subseteq OptionRecord

ImageRows(opt) == 0 .. opt.nrows - 1

\* do_decode = do_encode && decode_enabled
DoDecode(opt) == opt.encode /\ opt.decode

\* The verify loop compares hashes for every format but Brotli.
Verifies(opt) == DoDecode(opt) /\ opt.check /\ ~opt.brotli

=============================================================================
