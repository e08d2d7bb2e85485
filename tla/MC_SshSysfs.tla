----------------------------- MODULE MC_SshSysfs -----------------------------
(* Instantiation of SshSysfs for TLC.                                      *)
EXTENDS SshSysfs

\* Signed char values a never-cleared slab byte may hold, including the
\* ones that make buf[4] + 5 equal a short count (1, 2 or 3).
MCGarbageAny == {-128, -4, -3, -2, 0, 127}
====
