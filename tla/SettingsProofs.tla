--------------------------- MODULE SettingsProofs ---------------------------
(***************************************************************************)
(* The settings of a run for every redcli.json, command line, environment  *)
(* and image: the strongest source decides, what reaches the pipeline is   *)
(* in range, and the grid covers the image and no more.                    *)
(***************************************************************************)
EXTENDS Settings, SequenceTheorems, TLAPS

\* Options of the command line that have been parsed.
Parsed == Len(given) - Len(args)

\* What a key has before the command line is looked at.
Base(k) ==
  IF ~hasFile THEN Default[k] ELSE IF k \in DOMAIN file THEN file[k] ELSE Absent[k]

\* A key has the value of its last option among those parsed, or its base.
Chosen(k) ==
  LET places == {i \in 1 .. Parsed : given[i][1] = k}
  IN  IF places # {} THEN \E i \in places : (\A j \in places : j <= i) /\ cfg[k] = given[i][2]
      ELSE cfg[k] = Base(k)

\* Every variable has its type, and the rest of the command line is its end.
InputsInv ==
  /\ file \in ConfigFiles /\ hasFile \in BOOLEAN /\ env \in EnvThreads /\ image \in Images
  /\ given \in CommandLines /\ args \in Seq(Key \X Int)
  /\ Len(args) <= Len(given)
  /\ \A i \in 1 .. Len(args) : args[i] = given[Parsed + i]

\* No size is negative.
GeometryInv == \A k \in Geometry : cfg[k] >= 0

\* The strongest source so far has decided on every key.
SourcesInv ==
  /\ stage = "config" => cfg = Default /\ args = given
  /\ stage \notin {"config", "args"} => args = <<>>
  /\ stage \in {"args", "env"} => \A k \in Key : Chosen(k)
  /\ stage = "clamp" => \A k \in Key : IF k = "rt" /\ env > 0 THEN cfg[k] = env ELSE Chosen(k)
  /\ stage = "width" => Chosen("strip_width")

\* The clamps hold once they are applied.
ClampedInv ==
  stage \in {"width", "layout", "ready"} =>
    /\ cfg["rt"] \in 1 .. MaxWorkers
    /\ cfg["et"] \in 0 .. MaxWorkers /\ cfg["dt"] \in 0 .. MaxWorkers
    /\ cfg["cache_min"] \in 1 .. cfg["cache_max"] /\ cfg["cache_max"] \in Int

SettingsInv ==
  /\ SettingsTypeOK /\ InputsInv /\ GeometryInv /\ SourcesInv /\ ClampedInv
  /\ AutoWidthFits /\ GridCoversImage

-----------------------------------------------------------------------------
(* Division *)

\* Rounding up to whole grains takes the least multiple that is large enough.
LEMMA RoundUp ==
  ASSUME NEW n \in Nat, NEW s \in Nat \ {0}
  PROVE  /\ BlockCount(n, s) \in Nat
         /\ BlockCount(n, s) * s >= n
         /\ BlockCount(n, s) * s < n + s
         /\ BlockCount(n, s) > 0 => (BlockCount(n, s) - 1) * s < n
  <1> DEFINE q == (n + s - 1) \div s
  <1>1. /\ q \in Int
        /\ s * q <= n + s - 1 /\ n + s - 1 < s * q + s
    OBVIOUS
  <1>2. q * s = s * q /\ (q - 1) * s = s * q - s
    BY <1>1
  <1>3. q >= 0
    <2> SUFFICES ASSUME q <= -1 PROVE FALSE
      BY <1>1
    <2>1. s * q <= -s
      BY <1>1
    <2> QED BY <1>1, <2>1
  <1> QED BY <1>1, <1>2, <1>3 DEF BlockCount

\* A multiple leaves no remainder.
LEMMA MultipleLeavesNothing ==
  ASSUME NEW q \in Nat, NEW s \in Nat \ {0}
  PROVE  (q * s) % s = 0
  <1> DEFINE d == (q * s) \div s
             m == (q * s) % s
  <1>1. /\ d \in Int /\ m \in 0 .. s - 1
        /\ q * s = s * d + m
    OBVIOUS
  <1>2. s * (q - d) = m
    BY <1>1
  <1>3. q - d < 1
    <2> SUFFICES ASSUME q - d >= 1 PROVE FALSE
      BY <1>1
    <2>1. s * (q - d) >= s
      BY <1>1
    <2> QED BY <1>1, <1>2, <2>1
  <1>4. q - d > -1
    <2> SUFFICES ASSUME q - d <= -1 PROVE FALSE
      BY <1>1
    <2>1. s * (q - d) <= -s
      BY <1>1
    <2> QED BY <1>1, <1>2, <2>1
  <1>5. q - d = 0
    BY <1>1, <1>3, <1>4
  <1> QED BY <1>2, <1>5

\* The keys of the configuration, and what they are before any source is read.
LEMMA KeyFacts ==
  /\ Key = {"repeat", "rt", "et", "dt", "encode", "decode", "check", "block_line", "strip_width",
            "align", "oblique", "dmd_rows", "dmd_cols", "cache_min", "cache_max"}
  /\ Default \in [Key -> Int] /\ Absent \in [Key -> Int]
  /\ Geometry \subseteq Key
  /\ \A k \in Geometry : Default[k] >= 0 /\ Absent[k] >= 0
  /\ Default["strip_width"] = 0 /\ Absent["strip_width"] = 0
  <1>1. Key = {"repeat", "rt", "et", "dt", "encode", "decode", "check", "block_line", "strip_width",
               "align", "oblique", "dmd_rows", "dmd_cols", "cache_min", "cache_max"}
    BY DEF Key, Default
  <1>2. Default \in [Key -> Int]
    BY DEF Key, Default
  <1>3. Absent \in [Key -> Int]
    BY DEF Absent
  <1>4. Geometry \subseteq Key
    BY <1>1 DEF Geometry
  <1>5. \A k \in Geometry : Default[k] >= 0
    BY DEF Geometry, Default
  <1>6. \A k \in Geometry : Absent[k] = 0
    BY <1>1 DEF Geometry, Absent
  <1>7. Default["strip_width"] = 0
    BY DEF Default
  <1> QED BY <1>1, <1>2, <1>3, <1>4, <1>5, <1>6, <1>7 DEF Geometry

\* The widths of the automatic layout.
LEMMA RoundUpAligned ==
  ASSUME NEW n \in Nat, NEW s \in Nat \ {0}
  PROVE  /\ Aligned(n, s) \in Nat /\ Aligned(n, s) % s = 0
         /\ Aligned(n, s) >= n /\ Aligned(n, s) < n + s
  <1>1. Aligned(n, s) = BlockCount(n, s) * s
    BY DEF Aligned, BlockCount
  <1>2. BlockCount(n, s) \in Nat
    BY RoundUp
  <1>3. BlockCount(n, s) * s \in Nat
    BY <1>2
  <1> QED BY <1>1, <1>2, <1>3, RoundUp, MultipleLeavesNothing

-----------------------------------------------------------------------------
(* The steps *)

\* At the start the defaults decide.
LEMMA InitHolds ==
  ASSUME Init
  PROVE  SettingsInv
  <1> USE DEF Init
  <1>1. SettingsTypeOK
    BY KeyFacts DEF SettingsTypeOK
  <1>2. InputsInv
    <2>1. args \in Seq(Key \X Int)
      BY SettingsAssumption
    <2>2. Len(args) \in Nat
      BY <2>1, LenProperties
    <2> QED BY <2>1, <2>2 DEF InputsInv, Parsed
  <1>3. GeometryInv
    BY KeyFacts DEF GeometryInv
  <1>4. SourcesInv /\ ClampedInv /\ AutoWidthFits /\ GridCoversImage
    BY DEF SourcesInv, ClampedInv, AutoWidthFits, GridCoversImage
  <1> QED BY <1>1, <1>2, <1>3, <1>4 DEF SettingsInv

\* redcli.json takes the place of the defaults.
LEMMA LoadConfigPreserves ==
  ASSUME SettingsInv, LoadConfig
  PROVE  SettingsInv'
  <1> USE DEF LoadConfig, sources
  <1>1. cfg' = [k \in Key |-> Base(k)]
    <2>1. cfg = Default /\ hasFile \in BOOLEAN
      BY DEF SettingsInv, SourcesInv, InputsInv
    <2>2. CASE hasFile
      BY <2>2 DEF Base
    <2>3. CASE ~hasFile
      <3>1. cfg' = Default
        BY <2>1, <2>3
      <3>2. \A k \in Key : Base(k) = Default[k]
        BY <2>3 DEF Base
      <3>3. Default = [k \in Key |-> Default[k]]
        BY KeyFacts
      <3>4. [k \in Key |-> Default[k]] = [k \in Key |-> Base(k)]
        BY <3>2
      <3> QED BY <3>1, <3>3, <3>4
    <2> QED BY <2>1, <2>2, <2>3
  <1>2. \A k \in Key : Base(k) \in Int
    BY KeyFacts, SettingsAssumption DEF Base, SettingsInv, InputsInv
  <1>3. \A k \in Geometry : Base(k) >= 0
    BY KeyFacts, GeometryAssumption DEF Base, SettingsInv, InputsInv
  <1>4. SettingsTypeOK'
    <2>1. cfg' \in [Key -> Int]
      BY <1>1, <1>2
    <2> QED BY <2>1 DEF SettingsInv, SettingsTypeOK
  <1>5. InputsInv'
    BY DEF SettingsInv, InputsInv, Parsed
  <1>6. GeometryInv'
    BY <1>1, <1>3, KeyFacts DEF GeometryInv
  <1>7. SourcesInv'
    <2>1. Parsed' = 0 /\ stage' = "args" /\ \A k : Base(k)' = Base(k)
      <3>1. args = given /\ Len(given) \in Nat
        BY LenProperties DEF SettingsInv, SourcesInv, InputsInv
      <3> QED BY <3>1 DEF Parsed, Base
    <2>2. \A k \in Key : cfg'[k] = Base(k)'
      BY <1>1, <2>1
    <2>3. ASSUME NEW k \in Key PROVE Chosen(k)'
      BY <2>1, <2>2 DEF Chosen
    <2> QED BY <2>1, <2>3 DEF SourcesInv
  <1>8. ClampedInv' /\ AutoWidthFits' /\ GridCoversImage'
    BY DEF ClampedInv, AutoWidthFits, GridCoversImage
  <1> QED BY <1>4, <1>5, <1>6, <1>7, <1>8 DEF SettingsInv

\* One more option is parsed: for its key it is the last one, for the others
\* nothing changes.
LEMMA ParseArgumentPreserves ==
  ASSUME SettingsInv, ParseArgument
  PROVE  SettingsInv'
  <1>0. /\ stage = "args" /\ stage' = "args" /\ args # <<>>
        /\ cfg' = [cfg EXCEPT ![Head(args)[1]] = Head(args)[2]] /\ args' = Tail(args)
        /\ UNCHANGED <<file, hasFile, given, env, image, grid>>
    BY DEF ParseArgument, SetOption, sources
  <1>1. /\ args \in Seq(Key \X Int) /\ Len(args) \in Nat \ {0} /\ Len(args) <= Len(given)
        /\ given \in Seq(Key \X Int) /\ Len(given) \in Nat
        /\ \A i \in 1 .. Len(args) : args[i] = given[Parsed + i]
    BY <1>0, EmptySeq, LenProperties, SettingsAssumption DEF SettingsInv, InputsInv
  <1>2. /\ Tail(args) \in Seq(Key \X Int) /\ Len(Tail(args)) = Len(args) - 1
        /\ \A i \in 1 .. Len(Tail(args)) : Tail(args)[i] = args[i + 1]
        /\ Head(args) = args[1]
    BY <1>0, <1>1, HeadTailProperties
  <1> DEFINE n == Parsed + 1
  <1>3. /\ n \in 1 .. Len(given) /\ Parsed' = n /\ Parsed = n - 1 /\ Head(args) = given[n]
    BY <1>0, <1>1, <1>2 DEF Parsed
  <1>4. given[n] \in Key \X Int
    BY <1>1, <1>3, ElementOfSeq
  <1>5. PICK key \in Key, value \in Int : given[n] = <<key, value>>
    BY <1>4
  <1>6. cfg' = [cfg EXCEPT ![key] = value] /\ cfg \in [Key -> Int]
    <2>1. Head(args) = <<key, value>>
      BY <1>3, <1>5
    <2>2. Head(args)[1] = key /\ Head(args)[2] = value
      BY <2>1
    <2> QED BY <1>0, <2>2 DEF SettingsInv, SettingsTypeOK
  <1> HIDE DEF n
  <1>7. SettingsTypeOK'
    BY <1>0, <1>6 DEF SettingsInv, SettingsTypeOK
  <1>8. InputsInv'
    <2>1. \A i \in 1 .. Len(args') : args'[i] = given[n + i]
      <3> SUFFICES ASSUME NEW i \in 1 .. Len(Tail(args)) PROVE Tail(args)[i] = given[n + i]
        BY <1>0
      <3>1. i + 1 \in 1 .. Len(args) /\ Tail(args)[i] = args[i + 1]
        BY <1>1, <1>2
      <3>2. args[i + 1] = given[Parsed + (i + 1)] /\ Parsed + (i + 1) = n + i
        BY <1>1, <1>3, <3>1
      <3> QED BY <3>1, <3>2
    <2> QED BY <1>0, <1>1, <1>2, <1>3, <2>1 DEF SettingsInv, InputsInv
  <1>9. GeometryInv'
    <2>1. key \in Geometry => value >= 0
      BY <1>3, <1>5, GeometryAssumption DEF SettingsInv, InputsInv
    <2> QED BY <1>6, <2>1, KeyFacts DEF SettingsInv, GeometryInv
  <1>10. SourcesInv'
    <2> SUFFICES ASSUME NEW k \in Key PROVE Chosen(k)'
      BY <1>0 DEF SourcesInv
    <2>1. Chosen(k) /\ Base(k)' = Base(k)
      BY <1>0 DEF SettingsInv, SourcesInv, Base
    <2>2. CASE k = key
      <3>1. n \in {i \in 1 .. n : given[i][1] = k} /\ cfg'[k] = given[n][2]
        BY <1>3, <1>5, <1>6, <2>2
      <3>2. \A j \in {i \in 1 .. n : given[i][1] = k} : j <= n
        OBVIOUS
      <3> QED BY <1>0, <1>3, <3>1, <3>2 DEF Chosen
    <2>3. CASE k # key
      <3>1. {i \in 1 .. n : given[i][1] = k} = {i \in 1 .. Parsed : given[i][1] = k}
        BY <1>3, <1>5, <2>3
      <3>2. cfg'[k] = cfg[k]
        BY <1>6, <2>3
      <3> QED BY <1>0, <1>3, <2>1, <3>1, <3>2 DEF Chosen
    <2> QED BY <2>2, <2>3
  <1>11. ClampedInv' /\ AutoWidthFits' /\ GridCoversImage'
    BY <1>0 DEF ClampedInv, AutoWidthFits, GridCoversImage
  <1> QED BY <1>7, <1>8, <1>9, <1>10, <1>11 DEF SettingsInv

\* When all options are parsed, the last of each has decided.
LEMMA ArgumentsParsedPreserves ==
  ASSUME SettingsInv, ArgumentsParsed
  PROVE  SettingsInv'
  <1> USE DEF ArgumentsParsed, sources
  <1>1. SettingsTypeOK' /\ InputsInv' /\ GeometryInv'
    BY DEF SettingsInv, SettingsTypeOK, InputsInv, GeometryInv, Parsed
  <1>2. SourcesInv'
    <2>1. \A k \in Key : Chosen(k)'
      BY DEF SettingsInv, SourcesInv, Chosen, Base, Parsed
    <2> QED BY <2>1 DEF SourcesInv
  <1>3. ClampedInv' /\ AutoWidthFits' /\ GridCoversImage'
    BY DEF ClampedInv, AutoWidthFits, GridCoversImage
  <1> QED BY <1>1, <1>2, <1>3 DEF SettingsInv

\* The environment decides the number of threads.
LEMMA ReadEnvPreserves ==
  ASSUME SettingsInv, ReadEnv
  PROVE  SettingsInv'
  <1>0. /\ stage = "env" /\ stage' = "clamp"
        /\ cfg' = IF env > 0 THEN [cfg EXCEPT !["rt"] = env] ELSE cfg
        /\ UNCHANGED <<file, hasFile, given, env, image, args, grid>>
    BY DEF ReadEnv, sources
  <1>1. env \in Int /\ "rt" \in Key /\ cfg \in [Key -> Int]
    BY SettingsAssumption, KeyFacts DEF SettingsInv, InputsInv, SettingsTypeOK
  <1>2. \A k \in Key : cfg'[k] = IF k = "rt" /\ env > 0 THEN env ELSE cfg[k]
    BY <1>0, <1>1
  <1>3. SettingsTypeOK'
    BY <1>0, <1>1 DEF SettingsInv, SettingsTypeOK
  <1>4. InputsInv'
    BY <1>0 DEF SettingsInv, InputsInv, Parsed
  <1>5. GeometryInv'
    <2>1. "rt" \notin Geometry
      BY DEF Geometry
    <2> QED BY <1>2, <2>1, KeyFacts DEF SettingsInv, GeometryInv
  <1>6. SourcesInv'
    <2> SUFFICES ASSUME NEW k \in Key
                 PROVE  IF k = "rt" /\ env > 0 THEN cfg'[k] = env ELSE Chosen(k)'
      BY <1>0 DEF SourcesInv, SettingsInv
    <2>1. Chosen(k)
      BY <1>0 DEF SettingsInv, SourcesInv
    <2> QED BY <1>0, <1>2, <2>1 DEF Chosen, Base, Parsed
  <1>7. ClampedInv' /\ AutoWidthFits' /\ GridCoversImage'
    BY <1>0 DEF ClampedInv, AutoWidthFits, GridCoversImage
  <1> QED BY <1>3, <1>4, <1>5, <1>6, <1>7 DEF SettingsInv

\* Clamping to a number of workers.
LEMMA ClampFacts ==
  ASSUME NEW n \in Int, NEW low \in {0, 1}
  PROVE  ClampWorkers(n, low) \in low .. MaxWorkers
  BY SettingsAssumption DEF ClampWorkers, Largest, Least

\* After the clamps the numbers lie within their limits.
LEMMA ClampPreserves ==
  ASSUME SettingsInv, Clamp
  PROVE  SettingsInv'
  <1> DEFINE min == Largest(cfg["cache_min"], 1)
             max == Largest(cfg["cache_max"], min)
  <1>0. /\ stage = "clamp" /\ stage' = "width"
        /\ UNCHANGED <<file, hasFile, given, env, image, args, grid>>
        /\ cfg' = [cfg EXCEPT !["rt"] = ClampWorkers(cfg["rt"], 1),
                              !["et"] = ClampWorkers(cfg["et"], 0),
                              !["dt"] = ClampWorkers(cfg["dt"], 0),
                              !["cache_min"] = min, !["cache_max"] = max]
    BY DEF Clamp, sources
  <1>1. cfg \in [Key -> Int] /\ {"rt", "et", "dt", "cache_min", "cache_max"} \subseteq Key
    BY KeyFacts DEF SettingsInv, SettingsTypeOK
  <1>2. min \in Int /\ min >= 1 /\ max \in Int /\ max >= min
    BY <1>1 DEF Largest
  <1>3. /\ ClampWorkers(cfg["rt"], 1) \in 1 .. MaxWorkers
        /\ ClampWorkers(cfg["et"], 0) \in 0 .. MaxWorkers
        /\ ClampWorkers(cfg["dt"], 0) \in 0 .. MaxWorkers
        /\ MaxWorkers \in Nat
    BY <1>1, ClampFacts, SettingsAssumption
  <1> HIDE DEF min, max
  <1>4. /\ cfg'["rt"] = ClampWorkers(cfg["rt"], 1) /\ cfg'["et"] = ClampWorkers(cfg["et"], 0)
        /\ cfg'["dt"] = ClampWorkers(cfg["dt"], 0)
        /\ cfg'["cache_min"] = min /\ cfg'["cache_max"] = max
        /\ \A k \in Key \ {"rt", "et", "dt", "cache_min", "cache_max"} : cfg'[k] = cfg[k]
    BY <1>0, <1>1
  <1>5. cfg' \in [Key -> Int]
    BY <1>0, <1>1, <1>2, <1>3
  <1>6. ClampedInv'
    BY <1>2, <1>3, <1>4 DEF ClampedInv
  <1>7. SettingsTypeOK'
    <2>1. \A k \in {"rt", "et", "dt", "cache_min", "cache_max"} : cfg'[k] \in Nat
      BY <1>2, <1>3, <1>4
    <2>2. grid \in Nat \X Nat
      BY DEF SettingsInv, SettingsTypeOK
    <2> QED BY <1>0, <1>5, <2>1, <2>2 DEF SettingsTypeOK
  <1>8. InputsInv'
    BY <1>0 DEF SettingsInv, InputsInv, Parsed
  <1>9. GeometryInv'
    <2>1. Geometry \subseteq Key \ {"rt", "et", "dt", "cache_min", "cache_max"}
      BY KeyFacts DEF Geometry
    <2> QED BY <1>4, <2>1 DEF SettingsInv, GeometryInv
  <1>10. SourcesInv'
    <2>1. Chosen("strip_width") /\ "strip_width" \in Key
      BY <1>0, KeyFacts DEF SettingsInv, SourcesInv
    <2>2. Chosen("strip_width")'
      BY <1>0, <1>4, <2>1 DEF Chosen, Base, Parsed
    <2> QED BY <1>0, <2>2 DEF SettingsInv, SourcesInv
  <1>11. AutoWidthFits' /\ GridCoversImage'
    BY <1>0 DEF AutoWidthFits, GridCoversImage
  <1> QED BY <1>6, <1>7, <1>8, <1>9, <1>10, <1>11 DEF SettingsInv

\* The exposure footprint is not negative.
LEMMA FootprintFacts ==
  ASSUME SettingsInv
  PROVE  /\ Footprint(cfg) \in Nat
         /\ cfg["align"] \in Nat /\ cfg["strip_width"] \in Nat /\ cfg["block_line"] \in Nat
  <1>1. \A k \in Geometry : cfg[k] \in Nat
    BY KeyFacts DEF SettingsInv, SettingsTypeOK, GeometryInv
  <1>2. /\ cfg["dmd_cols"] \in Nat /\ cfg["oblique"] \in Nat /\ cfg["dmd_rows"] \in Nat
        /\ cfg["align"] \in Nat /\ cfg["strip_width"] \in Nat /\ cfg["block_line"] \in Nat
    BY <1>1 DEF Geometry
  <1>3. cfg["dmd_cols"] * cfg["oblique"] \in Nat
    BY <1>2
  <1> QED BY <1>2, <1>3 DEF Footprint

\* The automatic width is a multiple of the alignment.
LEMMA AutoWidthPreserves ==
  ASSUME SettingsInv, AutoWidth
  PROVE  SettingsInv'
  <1>0. /\ stage = "width" /\ UNCHANGED <<file, hasFile, given, env, image, args, grid>>
    BY DEF AutoWidth, sources
  <1>1. CASE cfg' = cfg /\ stage' \in {"layout", "crashed"} /\ (stage' = "layout" => cfg["strip_width"] # 0)
    <2>1. SettingsTypeOK' /\ InputsInv' /\ GeometryInv' /\ ClampedInv' /\ SourcesInv'
      BY <1>0, <1>1 DEF SettingsInv, SettingsTypeOK, InputsInv, GeometryInv, ClampedInv, SourcesInv,
                        Parsed
    <2>2. AutoWidthFits'
      <3> SUFFICES ASSUME stage' = "layout", ~(\E i \in 1 .. Len(given) : given[i][1] = "strip_width"),
                          hasFile /\ "strip_width" \in DOMAIN file => file["strip_width"] = 0
                   PROVE  FALSE
        BY <1>0 DEF AutoWidthFits
      <3>1. Chosen("strip_width") /\ args = <<>>
        BY <1>0 DEF SettingsInv, SourcesInv
      <3>2. Parsed = Len(given)
        <4>1. Len(args) = 0 /\ Len(given) \in Nat
          BY <3>1, SettingsAssumption, LenProperties DEF SettingsInv, InputsInv
        <4> QED BY <4>1 DEF Parsed
      <3>3. cfg["strip_width"] = Base("strip_width")
        BY <3>1, <3>2 DEF Chosen
      <3>4. Base("strip_width") = 0
        BY KeyFacts DEF Base
      <3> QED BY <1>1, <3>3, <3>4
    <2>3. GridCoversImage'
      BY <1>1 DEF GridCoversImage
    <2> QED BY <2>1, <2>2, <2>3 DEF SettingsInv
  <1>2. CASE /\ cfg["align"] # 0 /\ stage' = "layout"
             /\ cfg' = [cfg EXCEPT !["strip_width"] = Aligned(Footprint(cfg), cfg["align"])]
    <2> DEFINE width == Aligned(Footprint(cfg), cfg["align"])
    <2>1. /\ width \in Nat /\ width % cfg["align"] = 0
          /\ width >= Footprint(cfg) /\ width < Footprint(cfg) + cfg["align"]
      BY <1>2, FootprintFacts, RoundUpAligned
    <2>2. /\ cfg \in [Key -> Int]
          /\ {"strip_width", "align", "dmd_cols", "oblique", "dmd_rows", "rt", "et", "dt",
              "cache_min", "cache_max"} \subseteq Key
      BY KeyFacts DEF SettingsInv, SettingsTypeOK
    <2> HIDE DEF width
    <2>3. cfg'["strip_width"] = width /\ \A k \in Key \ {"strip_width"} : cfg'[k] = cfg[k]
      BY <1>2, <2>2 DEF width
    <2>4. SettingsTypeOK'
      <3>1. cfg' \in [Key -> Int]
        BY <1>2, <2>1, <2>2 DEF width
      <3> QED BY <1>0, <1>2, <2>2, <2>3, <3>1 DEF SettingsInv, SettingsTypeOK
    <2>5. InputsInv'
      BY <1>0 DEF SettingsInv, InputsInv, Parsed
    <2>6. GeometryInv'
      BY <2>1, <2>3, KeyFacts DEF SettingsInv, GeometryInv
    <2>7. SourcesInv'
      BY <1>0, <1>2 DEF SettingsInv, SourcesInv
    <2>8. ClampedInv'
      BY <1>0, <2>2, <2>3 DEF SettingsInv, ClampedInv
    <2>9. AutoWidthFits'
      <3>1. Footprint(cfg)' = Footprint(cfg) /\ cfg'["align"] = cfg["align"]
        BY <2>2, <2>3 DEF Footprint
      <3> QED BY <2>1, <2>3, <3>1 DEF AutoWidthFits
    <2>10. GridCoversImage'
      BY <1>2 DEF GridCoversImage
    <2> QED BY <2>4, <2>5, <2>6, <2>7, <2>8, <2>9, <2>10 DEF SettingsInv
  <1> QED BY <1>1, <1>2 DEF AutoWidth

\* The grid covers the image.
LEMMA LayoutPreserves ==
  ASSUME SettingsInv, Layout
  PROVE  SettingsInv'
  <1>0. /\ stage = "layout" /\ UNCHANGED <<file, hasFile, given, env, image, args, cfg>>
        /\ stage' \in {"crashed", "ready"}
    BY DEF Layout, sources
  <1>1. InputsInv' /\ GeometryInv' /\ ClampedInv' /\ SourcesInv' /\ AutoWidthFits'
    BY <1>0 DEF SettingsInv, InputsInv, GeometryInv, ClampedInv, SourcesInv, AutoWidthFits, Parsed
  <1>2. CASE stage' = "crashed" /\ grid' = grid
    BY <1>0, <1>1, <1>2 DEF SettingsInv, SettingsTypeOK, GridCoversImage
  <1>3. CASE ~(stage' = "crashed" /\ grid' = grid)
    <2>1. /\ cfg["strip_width"] \in Nat \ {0} /\ cfg["block_line"] \in Nat \ {0} /\ stage' = "ready"
          /\ grid' = <<BlockCount(image[1], cfg["strip_width"]), BlockCount(image[2], cfg["block_line"])>>
      BY <1>3, FootprintFacts DEF Layout
    <2>2. image[1] \in Nat /\ image[2] \in Nat
      BY SettingsAssumption DEF SettingsInv, InputsInv
    <2>3. /\ BlockCount(image[1], cfg["strip_width"]) \in Nat
          /\ BlockCount(image[2], cfg["block_line"]) \in Nat
      BY <2>1, <2>2, RoundUp
    <2>4. SettingsTypeOK'
      BY <1>0, <2>1, <2>3 DEF SettingsInv, SettingsTypeOK
    <2>5. GridCoversImage'
      <3>1. /\ grid'[1] * cfg["strip_width"] >= image[1]
            /\ grid'[1] > 0 => (grid'[1] - 1) * cfg["strip_width"] < image[1]
        BY <2>1, <2>2, RoundUp
      <3>2. /\ grid'[2] * cfg["block_line"] >= image[2]
            /\ grid'[2] > 0 => (grid'[2] - 1) * cfg["block_line"] < image[2]
        BY <2>1, <2>2, RoundUp
      <3> QED BY <1>0, <3>1, <3>2 DEF GridCoversImage
    <2> QED BY <1>1, <2>4, <2>5 DEF SettingsInv
  <1> QED BY <1>2, <1>3

\* Every step preserves the invariant.
LEMMA NextPreserves ==
  ASSUME SettingsInv, [Next]_vars
  PROVE  SettingsInv'
  <1>1. CASE UNCHANGED vars
    BY <1>1 DEF vars, sources, SettingsInv, SettingsTypeOK, InputsInv, Parsed, GeometryInv, SourcesInv,
                Chosen, Base, ClampedInv, AutoWidthFits, GridCoversImage
  <1> QED BY <1>1, LoadConfigPreserves, ParseArgumentPreserves, ArgumentsParsedPreserves,
             ReadEnvPreserves, ClampPreserves, AutoWidthPreserves, LayoutPreserves DEF Next, Ended

-----------------------------------------------------------------------------
(* The theorems *)

\* main.cpp:553-563, 645-654: whatever the sources say, the pools have 1 to
\* kMaxWorkerThreads threads, windows and repeat counts are positive, and the
\* low watermark is not above the window.
THEOREM ParametersFit == Spec => []ParametersFitPipeline
  <1>1. ASSUME SettingsInv PROVE ParametersFitPipeline
    <2> SUFFICES ASSUME stage = "ready" PROVE ParametersFitPipeline
      BY DEF ParametersFitPipeline
    <2>1. /\ cfg["rt"] \in 1 .. MaxWorkers /\ cfg["et"] \in 0 .. MaxWorkers
          /\ cfg["dt"] \in 0 .. MaxWorkers /\ MaxWorkers \in Nat \ {0}
          /\ cfg["cache_min"] \in 1 .. cfg["cache_max"] /\ cfg["cache_max"] \in Int
          /\ cfg["repeat"] \in Int
      BY <1>1, SettingsAssumption, KeyFacts DEF SettingsInv, ClampedInv, SettingsTypeOK
    <2>2. Parameters.rt \in 1 .. MaxWorkers
      BY <2>1 DEF Parameters, Largest
    <2>3. Parameters.et \in 1 .. MaxWorkers /\ Parameters.dt \in 1 .. MaxWorkers
      BY <2>1 DEF Parameters, Largest
    <2>4. Parameters.cache = cfg["cache_max"] /\ Parameters.repeat >= 1
      BY <2>1 DEF Parameters, Largest
    <2> QED BY <2>1, <2>2, <2>3, <2>4 DEF ParametersFitPipeline
  <1> QED BY <1>1, InitHolds, NextPreserves, PTL DEF Spec

\* main.cpp:486-552: RLE4K_THREADS over the last occurrence of an option, over
\* redcli.json, over what a missing key becomes.
THEOREM StrongestSourceDecides == Spec => []StrongestSourceWins
  <1>1. ASSUME SettingsInv PROVE StrongestSourceWins
    <2> SUFFICES ASSUME stage = "clamp", NEW k \in Key, ~(k = "rt" /\ env > 0)
                 PROVE  LET places == {i \in 1 .. Len(given) : given[i][1] = k}
                        IN  IF places # {}
                            THEN \E i \in places : (\A j \in places : j <= i) /\ cfg[k] = given[i][2]
                            ELSE hasFile /\ k \in DOMAIN file => cfg[k] = file[k]
      BY <1>1 DEF SettingsInv, SourcesInv, StrongestSourceWins
    <2>1. Chosen(k) /\ args = <<>>
      BY <1>1 DEF SettingsInv, SourcesInv
    <2>2. Parsed = Len(given)
      <3>1. Len(args) = 0 /\ Len(given) \in Nat
        BY <1>1, <2>1, SettingsAssumption, LenProperties DEF SettingsInv, InputsInv
      <3> QED BY <3>1 DEF Parsed
    <2> QED BY <2>1, <2>2 DEF Chosen, Base
  <1> QED BY <1>1, InitHolds, NextPreserves, PTL DEF Spec

\* main.cpp:578-582: the automatic strip width is the least multiple of
\* align_mode that holds the exposure footprint.
THEOREM WidthsFit == Spec => []AutoWidthFits
  <1>1. SettingsInv => AutoWidthFits
    BY DEF SettingsInv
  <1> QED BY <1>1, InitHolds, NextPreserves, PTL DEF Spec

\* main.cpp:634-639: strip columns and row blocks cover the image, and none lies
\* wholly beyond it, for every image and every block size.
THEOREM GridsCover == Spec => []GridCoversImage
  <1>1. SettingsInv => GridCoversImage
    BY DEF SettingsInv
  <1> QED BY <1>1, InitHolds, NextPreserves, PTL DEF Spec
=============================================================================
