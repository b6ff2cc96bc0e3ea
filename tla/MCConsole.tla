----------------------------- MODULE MCConsole -----------------------------
(* Two tasks, a screen of three lines of three; one message fills a line    *)
(* and wraps, the other is a short line as the programs print them.         *)
EXTENDS Console

MCMessages == {<<"a", CR, LF>>, <<CR, LF, "b", "b", "b", "b", CR, LF>>}
MCNumbers == {<<"0", "1">>}
=============================================================================
