----------------------------- MODULE MCSettings -----------------------------
(* Complete and partial configuration files, command lines with repeated and *)
(* out-of-range options, and images that do and do not fill their strips.    *)
EXTENDS Settings

MCConfigFiles ==
  {Default,
   [repeat |-> 0, rt |-> 12, et |-> 16, cache_min |-> 0, cache_max |-> -1],
   [block_line |-> 512, strip_width |-> 1000, align |-> 64, rt |-> 2, repeat |-> 1],
   [block_line |-> 100, align |-> 64, dmd_rows |-> 10, dmd_cols |-> 30, oblique |-> 3],
   [block_line |-> 512, align |-> 512]}

Options == {<<"rt", 20>>, <<"rt", 3>>, <<"et", -1>>, <<"dt", 11>>, <<"cache_max", 4>>,
            <<"cache_min", -5>>, <<"check", 1>>, <<"encode", 0>>, <<"strip_width", 128>>,
            <<"block_line", 64>>}

MCCommandLines == {<<>>} \cup {<<o>> : o \in Options} \cup {<<o, p>> : o, p \in Options}

NoArguments == {<<>>}

MCImages == {<<0, 0>>, <<1, 1>>, <<128, 64>>, <<1000, 512>>, <<61953, 1025>>}
=============================================================================
