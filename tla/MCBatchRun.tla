----------------------------- MODULE MCBatchRun -----------------------------
(* Lists of up to three files of every state, with zero, one and two columns; *)
(* format lists with an unknown id and with Brotli.                           *)
EXTENDS BatchRun

Good(cols) == [state |-> "good", cols |-> cols]
Unusable(s) == [state |-> s, cols |-> <<>>]

SomeFiles ==
  {Good(<<[raw |-> 4, packed |-> 1], [raw |-> 8, packed |-> 3]>>),
   Good(<<[raw |-> 2, packed |-> 5]>>),
   Good(<<>>),
   Unusable("missing"), Unusable("unreadable"), Unusable("layerless")}

Folders == {[kind |-> "folder", files |-> fs] : fs \in BoundedSeq(SomeFiles, 3)}
Singles == {[kind |-> "file", files |-> <<f>>] : f \in SomeFiles}
NoFiles == {[kind |-> k, files |-> <<>>] : k \in {"none", "nofolder"}}

MCInputs == Folders \cup Singles \cup NoFiles

MCFormatIds == {<<0, 9>>, <<5, 1>>}

MCSwitches == [encode : BOOLEAN, decode : BOOLEAN, check : BOOLEAN, csv : BOOLEAN]
=============================================================================
