--------------------------- MODULE MCMemoryLocks ----------------------------
(* An instance of MemoryLocks for TLC: two prewrites on the same key and two reads of it   *)
(* with timestamps between and above theirs.                                               *)
EXTENDS MemoryLocks, TLC

OneKey == {1}
TheWriters == {"v", "w"}
TheReaders == {"r", "s"}
KeyOfWriter == ("v" :> 1) @@ ("w" :> 1)
StartOfWriter == ("v" :> 1) @@ ("w" :> 2)
ReadTheKey == ("r" :> {1}) @@ ("s" :> {1})
ReadTimestamps == ("r" :> 2) @@ ("s" :> 4)
=============================================================================
