----------------------------- MODULE ConfigScan -----------------------------
(***************************************************************************)
(* How load_config reads redcli.json.  There is no parser: for each key a  *)
(* json_get_* function of src/redcli/rle4k_config.h looks for the first    *)
(* "key" anywhere in the text, then for the next ':' or '[', and takes     *)
(* what follows.                                                           *)
(*                                                                         *)
(* A text is a sequence of tokens, <<kind, ...>>: what the searches stop   *)
(* at, and nothing of what they pass over.  A quoted key and a quoted      *)
(* value are the same token.  A document is what its author means: a       *)
(* sequence of members, each with its comments; Text renders it.           *)
(***************************************************************************)
EXTENDS Integers, SequencesExt

Quoted(s)    == <<"quoted", s>>
Number(n)    == <<"number", n, 0>>             \* an integer
Decimal(n, thousandths) == <<"number", n, thousandths>>
List(ns)     == <<"list", ns>>                 \* of a document: rendered as its tokens
Colon == <<"colon">>      Comma == <<"comma">>    NewLine == <<"newline">>
Open  == <<"open">>       Close == <<"close">>    Slashes == <<"slashes">>

Strings == {"quoted"} \X STRING
Numbers == {"number"} \X Int \X Int
Lists   == {"list"} \X Seq(Int)
Token == Strings \cup Numbers \cup {Colon, Comma, NewLine, Open, Close, Slashes}

\* Places of a comment: on a line before the member, between its ':' and its
\* value, inside a list, after the value and its comma; "none" for no comment.
CommentPlaces == {"none", "before", "between", "inside", "after"}

\* The keys load_config asks for, in its order, and how it asks.
IntKeys ==
  {"mode", "repeat", "oblique_factor", "raster_threads", "encode_threads", "decode_threads",
   "encode_enabled", "decode_enabled", "block_line", "strip_width", "align_mode",
   "dmd_resolution_rows", "dmd_resolution_cols", "gzip_level", "zstd_level", "lzo2_level",
   "snappy_level", "brotli_level", "brotli_window", "check_enabled", "cache_blocks_min",
   "cache_blocks_max"}
StringKeys == {"input", "output_path", "verbose"}
Key == IntKeys \cup StringKeys \cup {"pitch_width_um", "formats"}

KeyOrder ==
  <<"input", "output_path", "mode", "repeat", "pitch_width_um", "oblique_factor",
    "raster_threads", "encode_threads", "decode_threads", "encode_enabled", "decode_enabled",
    "block_line", "strip_width", "align_mode", "dmd_resolution_rows", "dmd_resolution_cols",
    "formats", "gzip_level", "zstd_level", "lzo2_level", "snappy_level", "brotli_level",
    "brotli_window", "check_enabled", "cache_blocks_min", "cache_blocks_max", "verbose">>

\* The members of struct bench_config as they are declared.
StructDefault ==
  [input |-> "", output_path |-> "", mode |-> 0, repeat |-> 3, pitch_width_um |-> <<0, 500>>,
   oblique_factor |-> 32, raster_threads |-> 4, encode_threads |-> 0, decode_threads |-> 0,
   encode_enabled |-> 1, decode_enabled |-> 1, block_line |-> 512, strip_width |-> 0,
   align_mode |-> 512, dmd_resolution_rows |-> 512, dmd_resolution_cols |-> 1920,
   formats |-> <<>>, verbose |-> "file", gzip_level |-> 6, zstd_level |-> 3, lzo2_level |-> 1,
   snappy_level |-> 0, brotli_level |-> 6, brotli_window |-> 22, check_enabled |-> 0,
   cache_blocks_min |-> 32, cache_blocks_max |-> 128]

\* The value of a number the text does not hold.
Fallback(k) == CASE k \in {"encode_enabled", "decode_enabled"} -> 1
                 [] k = "cache_blocks_min" -> 32
                 [] k = "cache_blocks_max" -> 128
                 [] k = "pitch_width_um"   -> <<0, 0>>
                 [] OTHER -> 0

-----------------------------------------------------------------------------
(* Rendering a document *)

Member == [key : STRING, value : Strings \cup Numbers \cup Lists,
           comment : CommentPlaces \X Seq(Token \ {NewLine})]
Document == Seq(Member)

Comment(m, place) ==
  IF m.comment[1] = place THEN <<Slashes>> \o m.comment[2] \o <<NewLine>> ELSE <<>>

ListText(m) ==
  <<Open>> \o Comment(m, "inside")
    \o FlattenSeq([i \in 1 .. Len(m.value[2]) |-> <<Number(m.value[2][i]), Comma>>]) \o <<Close>>

MemberText(m) ==
  Comment(m, "before") \o <<Quoted(m.key), Colon>> \o Comment(m, "between")
    \o (IF m.value[1] = "list" THEN ListText(m) ELSE <<m.value>>)
    \o <<Comma>> \o Comment(m, "after") \o <<NewLine>>

Text(doc) == FlattenSeq([i \in 1 .. Len(doc) |-> MemberText(doc[i])])

Bare(k, v) == [key |-> k, value |-> v, comment |-> <<"none", <<>>>>]
Noted(k, v, words) == [key |-> k, value |-> v, comment |-> <<"before", words>>]

\* rle4k_builtin_default_config_json: what `redcli init` writes.  Of the comments
\* stand what a search could stop at.
BuiltinDocument ==
  <<Noted("input", Quoted(""), <<Colon, Number(0), Number(1)>>),
    Noted("mode", Number(0), <<Number(0), Number(1)>>),
    Noted("output_path", Quoted("build/out"), <<Colon>>),
    Bare("repeat", Number(3)),
    Noted("check_enabled", Number(0), <<Number(0), Number(1)>>),
    Bare("cache_blocks_min", Number(32)), Bare("cache_blocks_max", Number(128)),
    Noted("pitch_width_um", Decimal(0, 500), <<Number(1000), Colon, Decimal(0, 500)>>),
    Noted("oblique_factor", Number(32), <<Colon, Number(1920), Number(32), Number(512)>>),
    Bare("dmd_resolution_rows", Number(512)), Bare("dmd_resolution_cols", Number(1920)),
    Noted("strip_width", Number(0), <<Number(0), Number(0)>>),
    Noted("align_mode", Number(512), <<Colon, Number(512)>>),
    Noted("block_line", Number(512), <<Colon, Number(512)>>),
    Bare("raster_threads", Number(4)), Bare("encode_threads", Number(0)),
    Bare("decode_threads", Number(0)),
    Noted("encode_enabled", Number(1), <<Number(1), Number(0)>>),
    Bare("decode_enabled", Number(1)),
    Noted("formats", List(<<0, 1, 2, 3, 4, 5>>), <<Number(0), Number(1), Number(2)>>),
    Bare("gzip_level", Number(6)), Bare("zstd_level", Number(3)),
    Noted("lzo2_level", Number(1), <<Number(1), Number(2), Colon, Number(1)>>),
    Bare("snappy_level", Number(0)), Bare("brotli_level", Number(6)),
    Bare("brotli_window", Number(22)),
    Noted("verbose", Quoted("file"), <<Quoted("file"), Quoted("strip")>>)>>

-----------------------------------------------------------------------------
(* The scanner *)

None == 0    \* std::string::npos

\* std::string::find: the first such token at or after from.
Find(text, tokens, from) ==
  LET hits == {i \in from .. Len(text) : text[i] \in tokens}
  IN  IF hits = {} THEN None ELSE CHOOSE i \in hits : \A j \in hits : i <= j

\* skip_comment: at a comment, the end of its line (not the start of the next).
SkipComment(text, p) ==
  IF text[p] = Slashes THEN Find(text, {NewLine}, p) ELSE p

\* Faulty: the key is looked for without its opening quote.
KeyAt_Suffix(text, k) ==
  Find(text, {Quoted(k)} \cup (IF k = "mode" THEN {Quoted("align_mode")} ELSE {}), 1)

KeyAt(text, k) == Find(text, {Quoted(k)}, 1)

\* Where the value of a key starts: after the next ':' and past white space.
\* A text that ends in ':' is not looked at here.
ValueAt(text, k) ==
  LET colon == Find(text, {Colon}, KeyAt(text, k) + 1)
      start == Find(text, {text[i] : i \in 1 .. Len(text)} \ {NewLine}, colon + 1)
  IN  IF KeyAt(text, k) = None \/ colon = None \/ start = None THEN None
      ELSE SkipComment(text, start)

\* json_get_int: atoi of what stands there, 0 when that is no number.
GetInt(text, k) ==
  LET p == ValueAt(text, k)
  IN  IF p = None THEN Fallback(k) ELSE IF text[p][1] = "number" THEN text[p][2] ELSE 0

\* Faulty: the pitch is read as an integer.
GetDouble_AsInt(text, k) == <<GetInt(text, k), 0>>

\* json_get_double
GetDouble(text, k) ==
  LET p == ValueAt(text, k)
  IN  IF p = None THEN Fallback(k)
      ELSE IF text[p][1] = "number" THEN <<text[p][2], text[p][3]>> ELSE <<0, 0>>

\* json_get_str: "" unless a quoted string stands there.
GetString(text, k) ==
  LET p == ValueAt(text, k)
  IN  IF p # None /\ text[p][1] = "quoted" THEN text[p][2] ELSE ""

\* The elements of s that are in S, in their order.
Only(s, S) ==
  LET kept[n \in 0 .. Len(s)] ==
        IF n = 0 THEN <<>>
        ELSE IF s[n] \in S THEN Append(kept[n - 1], s[n]) ELSE kept[n - 1]
  IN  kept[Len(s)]

\* json_get_int_array: the digit runs between the next '[' and the next ']';
\* a sign is passed over.
GetIntArray(text, k) ==
  LET first == Find(text, {Open}, KeyAt(text, k) + 1)
      last  == Find(text, {Close}, first)
      runs  == Only(SubSeq(text, first, last), Numbers)
  IN  IF KeyAt(text, k) = None \/ first = None \/ last = None THEN <<>>
      ELSE [i \in 1 .. Len(runs) |-> IF runs[i][2] < 0 THEN -runs[i][2] ELSE runs[i][2]]

\* What load_config gives a member of the configuration.
Assigned(text, k, old) ==
  CASE k = "formats" -> IF GetIntArray(text, k) = <<>> THEN old ELSE GetIntArray(text, k)
    [] k = "verbose" -> IF GetString(text, k) = "" THEN "file" ELSE GetString(text, k)
    [] k = "pitch_width_um" -> GetDouble(text, k)
    [] k \in StringKeys \ {"verbose"} -> GetString(text, k)
    [] k \in IntKeys -> GetInt(text, k)

-----------------------------------------------------------------------------
VARIABLES
  document,   \* the document in redcli.json
  found,      \* redcli.json is there and opens
  cfg,        \* the bench_config
  pending     \* the keys load_config has still to read

scanVars == <<document, found, cfg, pending>>

\* bench_config cfg, before load_config.
ScanInit ==
  /\ cfg = StructDefault
  /\ pending = KeyOrder

\* One assignment of load_config.
LoadKey ==
  /\ found /\ pending # <<>>
  /\ LET k == Head(pending) IN cfg' = [cfg EXCEPT ![k] = Assigned(Text(document), k, @)]
  /\ pending' = Tail(pending)
  /\ UNCHANGED <<document, found>>

\* No redcli.json, or load_config returns false: the defaults stay.
NotLoaded ==
  /\ ~found /\ pending # <<>>
  /\ pending' = <<>>
  /\ UNCHANGED <<document, found, cfg>>

-----------------------------------------------------------------------------
\* What load_config gives a field whose key is not in redcli.json.
Unsaid(k) == CASE k = "verbose" -> "file"
               [] k \in StringKeys \ {"verbose"} -> ""
               [] k = "formats" -> <<>>
               [] OTHER -> Fallback(k)

\* The document has a member for k.
Holds(doc, k) == \E i \in 1 .. Len(doc) : doc[i].key = k

\* What the author of a document means by it: comments say nothing, and an empty
\* string or list is as good as no member.
Meant(doc, k) ==
  LET at == {i \in 1 .. Len(doc) : doc[i].key = k}
      v  == doc[CHOOSE i \in at : TRUE].value
  IN  IF at = {} \/ v \in {Quoted(""), List(<<>>)} THEN Unsaid(k)
      ELSE IF k = "pitch_width_um" THEN <<v[2], v[3]>> ELSE v[2]

\* The same document without its comments.
Uncommented(doc) == [i \in 1 .. Len(doc) |-> Bare(doc[i].key, doc[i].value)]

\* The value is of the type that the key asks for; a format id has no sign.
OfItsType(k, v) ==
  /\ k \in IntKeys \cup {"pitch_width_um"} => v \in Numbers
  /\ k \in StringKeys => v \in Strings
  /\ k = "formats" => v \in Lists /\ \A j \in 1 .. Len(v[2]) : v[2][j] >= 0

\* A document the scanner can be trusted with: every key once and with a value of
\* its type, no key quoted in a comment or as a value, nothing between ':' and its
\* value, and neither a number nor a bracket in a comment inside a list.
Plain(doc) ==
  /\ \A i, j \in 1 .. Len(doc) : doc[i].key = doc[j].key => i = j
  /\ \A i \in 1 .. Len(doc) :
       /\ OfItsType(doc[i].key, doc[i].value)
       /\ doc[i].value \notin {Quoted(k) : k \in Key}
       /\ doc[i].comment[1] # "between"
       /\ \A t \in ToSet(doc[i].comment[2]) :
            /\ t \notin {Quoted(k) : k \in Key}
            /\ doc[i].comment[1] = "inside" => t[1] \notin {"number", "close"}

\* The formats a run encodes with: the known ids, all six when there are none.
FormatsRun(ids) ==
  IF Only(ids, 0 .. 5) = <<>> THEN [i \in 1 .. 6 |-> i - 1] ELSE Only(ids, 0 .. 5)
=============================================================================
