--------------------------- MODULE MCCommandLine ---------------------------
(* Two families.  Documents: the built-in redcli.json, and documents of up   *)
(* to three members of every type in every order, with at most one comment,  *)
(* in each of its places: numbers and a ':', a list, or the name of a key in *)
(* quotes.  Command lines: every one of up to three words after `run`, over   *)
(* words of every kind, on a document that sets the same fields or on none,  *)
(* every pair of rarer options, and every command by itself.                 *)
EXTENDS CommandLine

Values ==
  [mode |-> Number(1), encode_enabled |-> Number(0), align_mode |-> Number(-64),
   pitch_width_um |-> Decimal(0, 250), input |-> Quoted("mode"), verbose |-> Quoted("strip"),
   formats |-> List(<<4, 0>>)]

Remarks ==
  {<<Number(7), Colon, Quoted("strip")>>, <<Open, Number(2), Close>>, <<Quoted("mode"), Colon>>}

KeyLists ==
  {<<>>} \cup {<<k>> : k \in DOMAIN Values}
    \cup {ks \in (DOMAIN Values) \X (DOMAIN Values) : ks[1] # ks[2]}
    \cup {ks \in (DOMAIN Values) \X (DOMAIN Values) \X (DOMAIN Values) :
             ks[1] # ks[2] /\ ks[2] # ks[3] /\ ks[1] # ks[3]}

Plainly(ks) == [n \in 1 .. Len(ks) |-> Bare(ks[n], Values[ks[n]])]

Documents ==
  {BuiltinDocument} \cup {Plainly(ks) : ks \in KeyLists}
    \cup {[Plainly(ks) EXCEPT ![n].comment = <<place, words>>] :
             ks \in {l \in KeyLists : Len(l) = 2}, n \in 1 .. 2,
             place \in CommentPlaces \ {"none"}, words \in Remarks}

WordsTried ==
  {Option("repeat"), Option("input"), Option("formats"), Switch("check_enabled", 1),
   Switch("check_enabled", 0), Help, Other("plan.dif"), Writing("5x", <<Number(5)>>),
   Writing("0,4", <<Number(0), Number(4)>>), Writing("4,,x", <<Number(4), Blank, Letters>>),
   Writing("too large", <<Number(IntMax + 1)>>)}

Options ==
  {<<Option("pitch_width_um"), Writing("0.25", <<Decimal(0, 250)>>)>>,
   <<Option("pitch_width_um"), Writing("large", <<Number(IntMax + 1)>>)>>,
   <<Option("pitch_width_um"), Writing("too large", <<Number(DoubleMax + 1)>>)>>,
   <<Option("formats"), Writing(",", <<Blank>>)>>, <<Option("mode"), Writing("", <<>>)>>,
   <<Option("csv"), Option("repeat")>>, <<Option("verbose"), Other("strip")>>}

Commands == {Help, Writing("1", <<Number(1)>>)} \cup {Other(w) : w \in {"init", "edit", "config", "help", "runs"}}

CommandLines ==
  {<<Other("run")>> \o ws : ws \in UNION {[1 .. n -> WordsTried] : n \in 0 .. 3} \cup Options}
    \cup {<<Other("benchmark")>> \o o \o p : o, p \in Options}

Started(a, d, f) == [argv |-> a, document |-> d, found |-> f]

MCSituations ==
  {Started(<<Other("run")>>, d, TRUE) : d \in Documents}
    \cup {Started(a, Plainly(<<"formats", "input", "mode">>), f) : a \in CommandLines, f \in BOOLEAN}
    \cup {Started(a, <<>>, FALSE) : a \in {<<>>} \cup {<<w>> : w \in Commands}}
=============================================================================
