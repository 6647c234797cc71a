---- MODULE MCBoardReplay ----
EXTENDS BoardReplay
====
