----------------------------- MODULE MCThreads -----------------------------
(* Small instances of Threads for TLC.                                     *)
EXTENDS Threads, TLC

CONSTANTS main, a, b, s1, s2

(* s1 is used as a lock (initially 1), s2 as a device's semaphore.         *)
LockAndDevice == (s1 :> 1) @@ (s2 :> 0)
DeviceOnly == (s2 :> 0)
=============================================================================
