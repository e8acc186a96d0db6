---------------------------- MODULE MCConfigFile ----------------------------
(* A Windows build run from the repository, whose root is both "." and       *)
(* "exe/../..".                                                              *)
EXTENDS ConfigFile

BuildTree ==
  [n \in SearchNames |->
     CASE n \in {".", "exe/../.."} -> "root" [] n = "exe" -> "release" [] n = "exe/.." -> "build"
       [] n = "docs" -> "docs" [] n \in {"..", "../docs"} -> "above"]
=============================================================================
