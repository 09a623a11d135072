----------------------------- MODULE MCWatchdog -----------------------------
EXTENDS Watchdog, TLC

CONSTANTS s1, s2

MCSessions == {s1, s2}
====
