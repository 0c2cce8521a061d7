---------------------------- MODULE MCFrontEnds ----------------------------
(* A small instance of what stands in front of a server: limits of two in a     *)
(* window of two, a cleanup at times that are no multiple of it, two concurrent  *)
(* exchanges against a limit of one session per address, and three HTTP/1        *)
(* requests and one HTTP/2 stream around a shutdown.                             *)
EXTENDS FrontEnds

CONSTANTS a, b, x, y, i1, i2, i3, r1, r2, r3, s1

TwoNames == {a, b}
TwoSlots == {x, y}
ThreeIds == {i1, i2, i3}
ThreeRequests == {r1, r2, r3}
OneStream == {s1}
=============================================================================
