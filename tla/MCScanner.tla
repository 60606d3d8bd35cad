------------------------------ MODULE MCScanner ------------------------------
(* Scanner on small chains. *)
EXTENDS Scanner

(* A chain that is never reorganised, with an empty first block. *)
LogsOfSecondBlock == {<<2, 0>>}

(* A reorganisation takes the logs of one block away, and brings some to    *)
(* another.                                                                 *)
LogsOfForks == {<<2, 0>>, <<3, 1>>}

(* What is acknowledged is promised only of a server that loses nothing:    *)
(* a loss may come at any step, and nothing is explored behind it.          *)
NothingLost == losses = 0
=============================================================================
