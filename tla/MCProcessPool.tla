---------------------------- MODULE MCProcessPool ----------------------------
(* Small instances of ProcessPool.  Cfg files pick the constants.           *)
EXTENDS ProcessPool

\* Values a cfg cannot write down.
FlagWords == {{}, {"AUTO_ADD", "MIN_CREATE"}, {"MIN_CREATE", "MAX_CREATE"}}
ZeroFlags == {{}}
MsValues == {-3, -1, 0}
GarbageInts == {-1, 0, 7}
=============================================================================
