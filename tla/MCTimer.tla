------------------------------ MODULE MCTimer ------------------------------
EXTENDS Timer, TLC

CONSTANTS c1, c2

MCTwoClients == {c1, c2}
====
