---------------------------- MODULE MCListCache -----------------------------
(* Lists for ListCache. *)
EXTENDS ListCache

CONSTANTS ads, kids, x, y, s1, s2, api, periodic

ListOf(regex, wildcard, exact) == <<regex, wildcard, exact>>

(* x is an exact entry or a regex, y always a wildcard. *)
MCContents == {ListOf({}, {}, {x}), ListOf({}, {y}, {x}), ListOf({x}, {y}, {})}
=============================================================================
