--------------------------- MODULE MCReleasePacket ---------------------------
(* Two downloads of two jobs; outages and damages of one; the clock, the key *)
(* and a result; packets with timestamps side by side.                       *)
EXTENDS ReleasePacket

CONSTANTS j1, j2, d1, d2, k1, k2, digicert, other

Site(tsa, jobs, downloads) ==
  [tsa |-> tsa, jobs |-> jobs, downloads |-> downloads, replies |-> Replies, dies |-> FALSE,
   originals |-> {FALSE}, copies |-> FALSE,
   seconds |-> 0, rotations |-> 0, damage |-> 0, results |-> 0, pulls |-> 0]

MCSites ==
  {[Site("off", {j1, j2}, {d1, d2}) EXCEPT !.copies = TRUE],
   [Site("off", {j1}, {d1, d2}) EXCEPT !.damage = 1],
   [Site("off", {j1}, {d1, d2}) EXCEPT !.pulls = 1],
   [Site("off", {j1}, {d1, d2}) EXCEPT !.results = 1],
   [Site("off", {j1}, {d1}) EXCEPT !.seconds = 1, !.results = 1, !.rotations = 1],
   [Site("bad url", {j1, j2}, {d2})
      EXCEPT !.rotations = 1, !.dies = TRUE, !.originals = BOOLEAN, !.copies = TRUE],
   [Site(digicert, {j1}, {d1, d2}) EXCEPT !.replies = {"granted", "unreachable"}, !.copies = TRUE]}
  \cup {[Site(tsa, {j1}, {d1}) EXCEPT !.rotations = 1, !.damage = 1, !.dies = TRUE] :
        tsa \in {digicert, other}}
==============================================================================
