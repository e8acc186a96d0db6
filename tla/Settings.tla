------------------------------ MODULE Settings ------------------------------
(***************************************************************************)
(* How `redcli run` arrives at the numbers the pipeline runs on: built-in  *)
(* defaults, redcli.json, command line and RLE4K_THREADS, each over what   *)
(* came before, then the clamps, the automatic strip width, the grid of    *)
(* row blocks of a file and the parameters of the phases.  Sources:        *)
(* load_config of src/redcli/rle4k_config.h and the first and the per-file *)
(* part of rle4k_cmd_run of src/redcli/main.cpp.                           *)
(*                                                                         *)
(* Integer division by zero is undefined in C++; the builds of this        *)
(* program trap it, so the process is gone ("crashed").                    *)
(***************************************************************************)
EXTENDS Integers, Sequences

CONSTANTS
  ConfigFiles,   \* what redcli.json may hold: partial functions on Key
  CommandLines,  \* sequences of <<key, value>>
  EnvThreads,    \* RLE4K_THREADS after atoi; 0 when unset or no number
  Images,        \* <<width, height>> in pixels, after the ceil of main.cpp:634
  MaxWorkers     \* kMaxWorkerThreads

\* The defaults of struct bench_config.
Default ==
  [repeat |-> 3, rt |-> 4, et |-> 0, dt |-> 0, encode |-> 1, decode |-> 1,
   check |-> 0, block_line |-> 512, strip_width |-> 0, align |-> 512,
   oblique |-> 32, dmd_rows |-> 512, dmd_cols |-> 1920,
   cache_min |-> 32, cache_max |-> 128]

Key == DOMAIN Default

\* The divisors and sizes of the grid.
Geometry == {"block_line", "strip_width", "align", "oblique", "dmd_rows", "dmd_cols"}

\* What load_config assigns for a key that the file does not hold.
Absent ==
  [k \in Key |-> CASE k \in {"encode", "decode"} -> 1
                   [] k = "cache_min" -> 32
                   [] k = "cache_max" -> 128
                   [] OTHER -> 0]

ASSUME SettingsAssumption ==
  /\ \A f \in ConfigFiles : DOMAIN f \subseteq Key /\ \A k \in DOMAIN f : f[k] \in Int
  /\ \A c \in CommandLines : c \in Seq(Key \X Int)
  /\ EnvThreads \subseteq Nat
  /\ Images \subseteq Nat \X Nat
  /\ MaxWorkers \in Nat \ {0}

\* What C++ makes of negative sizes is left out.
ASSUME GeometryAssumption ==
  /\ \A f \in ConfigFiles : \A k \in DOMAIN f \cap Geometry : f[k] >= 0
  /\ \A c \in CommandLines : \A i \in 1 .. Len(c) : c[i][1] \in Geometry => c[i][2] >= 0

VARIABLES
  file,       \* the resolved redcli.json; no keys and hasFile = FALSE when none
  hasFile,
  args,       \* the command line still to be parsed
  given,      \* history: the whole command line
  env,        \* RLE4K_THREADS
  image,      \* the size of the file that is laid out
  cfg,        \* the bench_config
  stage,      \* "config", "args", "env", "clamp", "width", "layout", "ready", "crashed"
  grid        \* <<ncols, nrows>>

sources == <<file, hasFile, given, env, image>>
vars == <<sources, args, cfg, stage, grid>>

Largest(a, b)  == IF a > b THEN a ELSE b
Least(a, b)    == IF a < b THEN a ELSE b

\* Faulty: rounded down.
Aligned_Down(n, grain) == (n \div grain) * grain

\* ((n + grain - 1) / grain) * grain
Aligned(n, grain) == ((n + grain - 1) \div grain) * grain

\* Faulty: an exact fit gets one block more.
BlockCount_FloorPlusOne(n, side) == n \div side + 1

\* (n + side - 1) / side
BlockCount(n, side) == (n + side - 1) \div side

-----------------------------------------------------------------------------
Init ==
  /\ file \in ConfigFiles
  /\ hasFile \in BOOLEAN
  /\ args \in CommandLines /\ given = args
  /\ env \in EnvThreads
  /\ image \in Images
  /\ cfg = Default
  /\ stage = "config"
  /\ grid = <<0, 0>>

\* load_config: every key is assigned, from the file or from the parser's own
\* fallback; without a file the built-in defaults stay.
LoadConfig ==
  /\ stage = "config"
  /\ cfg' = IF hasFile THEN [k \in Key |-> IF k \in DOMAIN file THEN file[k] ELSE Absent[k]]
            ELSE cfg
  /\ stage' = "args"
  /\ UNCHANGED <<sources, args, grid>>

\* Faulty: an option that was set already is left as it is.
SetOption_Once(option) ==
  IF cfg[option[1]] # Default[option[1]] THEN cfg ELSE [cfg EXCEPT ![option[1]] = option[2]]

SetOption(option) == [cfg EXCEPT ![option[1]] = option[2]]

\* One option of the command line, in order.
ParseArgument ==
  /\ stage = "args" /\ args # <<>>
  /\ cfg' = SetOption(Head(args))
  /\ args' = Tail(args)
  /\ UNCHANGED <<sources, stage, grid>>

ArgumentsParsed ==
  /\ stage = "args" /\ args = <<>>
  /\ stage' = "env"
  /\ UNCHANGED <<sources, args, cfg, grid>>

\* A positive RLE4K_THREADS replaces raster_threads.
ReadEnv ==
  /\ stage = "env"
  /\ cfg' = IF env > 0 THEN [cfg EXCEPT !.rt = env] ELSE cfg
  /\ stage' = "clamp"
  /\ UNCHANGED <<sources, args, grid>>

\* Faulty: no upper bound.
ClampWorkers_NoCap(n, low) == Largest(n, low)

ClampWorkers(n, low) == Least(Largest(n, low), MaxWorkers)

Clamp ==
  /\ stage = "clamp"
  /\ cfg' = [cfg EXCEPT !.rt = ClampWorkers(@, 1), !.et = ClampWorkers(@, 0),
                        !.dt = ClampWorkers(@, 0),
                        !.cache_min = Largest(@, 1),
                        !.cache_max = Largest(@, Largest(cfg.cache_min, 1))]
  /\ stage' = "width"
  /\ UNCHANGED <<sources, args, grid>>

\* dmd_cols * oblique + dmd_rows
Footprint(c) == c.dmd_cols * c.oblique + c.dmd_rows

AutoWidth ==
  /\ stage = "width"
  /\ IF cfg.strip_width # 0 THEN stage' = "layout" /\ cfg' = cfg
     ELSE IF cfg.align = 0 THEN stage' = "crashed" /\ cfg' = cfg
     ELSE /\ cfg' = [cfg EXCEPT !.strip_width = Aligned(Footprint(cfg), cfg.align)]
          /\ stage' = "layout"
  /\ UNCHANGED <<sources, args, grid>>

\* The grid of a file's row blocks.
Layout ==
  /\ stage = "layout"
  /\ IF cfg.strip_width = 0 \/ cfg.block_line = 0 THEN stage' = "crashed" /\ grid' = grid
     ELSE /\ grid' = <<BlockCount(image[1], cfg.strip_width), BlockCount(image[2], cfg.block_line)>>
          /\ stage' = "ready"
  /\ UNCHANGED <<sources, args, cfg>>

\* The parameters of the phases: rt_threads .. cache_blocks.
Parameters ==
  [nrows |-> grid[2], cache |-> Largest(Largest(1, cfg.cache_min), cfg.cache_max),
   rt |-> Largest(1, cfg.rt),
   et |-> IF cfg.et > 0 THEN cfg.et ELSE Largest(1, cfg.rt),
   dt |-> IF cfg.dt > 0 THEN cfg.dt ELSE Largest(1, cfg.rt),
   repeat |-> Largest(1, cfg.repeat),
   encode |-> cfg.encode # 0, decode |-> cfg.decode # 0, check |-> cfg.check # 0]

Ended == stage \in {"ready", "crashed"} /\ UNCHANGED vars

Next ==
  \/ LoadConfig \/ ParseArgument \/ ArgumentsParsed \/ ReadEnv \/ Clamp \/ AutoWidth
  \/ Layout \/ Ended

Spec == Init /\ [][Next]_vars

-----------------------------------------------------------------------------
\* Every variable has its type; once clamped, no count is negative.
SettingsTypeOK ==
  /\ cfg \in [Key -> Int]
  /\ stage \in {"width", "layout", "ready"} =>
       \A k \in {"rt", "et", "dt", "cache_min", "cache_max"} : cfg[k] \in Nat
  /\ grid \in Nat \X Nat
  /\ stage \in {"config", "args", "env", "clamp", "width", "layout", "ready", "crashed"}

\* Whatever the sources say, the pipeline gets what it is built for: pools of
\* 1 to MaxWorkers threads, a window and a repeat count of at least 1, and the
\* low watermark not above the window.
ParametersFitPipeline ==
  stage = "ready" =>
    /\ \A n \in {Parameters.rt, Parameters.et, Parameters.dt} : n \in 1 .. MaxWorkers
    /\ Parameters.cache >= 1 /\ Parameters.repeat >= 1
    /\ cfg.cache_min \in 1 .. cfg.cache_max
    /\ Parameters.cache = cfg.cache_max

\* RLE4K_THREADS over the last occurrence of an option on the command line,
\* over redcli.json: for each key the strongest source decides, up to the
\* clamps and the automatic width.
StrongestSourceWins ==
  stage = "clamp" =>
    \A k \in Key :
      LET places == {i \in 1 .. Len(given) : given[i][1] = k}
      IN  IF k = "rt" /\ env > 0 THEN cfg[k] = env
          ELSE IF places # {}
               THEN \E i \in places : (\A j \in places : j <= i) /\ cfg[k] = given[i][2]
          ELSE hasFile /\ k \in DOMAIN file => cfg[k] = file[k]

\* The automatic width is the least multiple of align_mode that holds the
\* exposure footprint.
AutoWidthFits ==
  stage = "layout" /\ ~(\E i \in 1 .. Len(given) : given[i][1] = "strip_width")
    /\ (hasFile /\ "strip_width" \in DOMAIN file => file["strip_width"] = 0) =>
      /\ cfg.strip_width % cfg.align = 0
      /\ cfg.strip_width >= Footprint(cfg)
      /\ cfg.strip_width < Footprint(cfg) + cfg.align

\* The strip columns and row blocks cover the image, and none lies wholly
\* beyond it.
GridCoversImage ==
  stage = "ready" =>
    \A side \in {<<image[1], grid[1], cfg.strip_width>>, <<image[2], grid[2], cfg.block_line>>} :
      /\ side[2] * side[3] >= side[1]
      /\ side[2] > 0 => (side[2] - 1) * side[3] < side[1]

\* docs/redcli.help.md:97,163,172,209: a key that redcli.json leaves out has
\* the default given there.
MissingKeyHasDefault ==
  stage = "args" /\ args = given =>
    \A k \in Key : hasFile /\ k \notin DOMAIN file => cfg[k] = Default[k]

=============================================================================
