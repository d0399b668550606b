----------------------------- MODULE MCBrowserSession -----------------------------
(***************************************************************************)
(* Two concurrent requests of one browser, two signing keys, two token     *)
(* pairs: a session and its refresh.                                       *)
(***************************************************************************)
EXTENDS BrowserSession, TLC

CONSTANTS a, b, x, y

Interchangeable == Permutations({a, b}) \cup Permutations({x, y})
=================================================================================
