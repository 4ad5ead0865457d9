---------------------------- MODULE MCConnection ----------------------------
(* Instances of Connection for TLC: one request of each format. *)
EXTENDS Connection

Plain == [op |-> "bad", klen |-> 0, ntags |-> 0, vlen |-> 0, only_ttl |-> FALSE, mode |-> "all"]

AllRequests ==
  {Plain, [Plain EXCEPT !.op = "get", !.klen = 1], [Plain EXCEPT !.op = "del", !.klen = 1],
   [Plain EXCEPT !.op = "set", !.klen = 1, !.ntags = 2, !.vlen = 1],
   [Plain EXCEPT !.op = "set", !.klen = 1, !.only_ttl = TRUE],
   [Plain EXCEPT !.op = "set", !.klen = 1, !.only_ttl = TRUE, !.vlen = 2],
   [Plain EXCEPT !.op = "clr", !.ntags = 1], [Plain EXCEPT !.op = "clr", !.mode = "bad"],
   [Plain EXCEPT !.op = "lst", !.mode = "match"],
   [Plain EXCEPT !.op = "lst", !.ntags = 1, !.mode = "match"],
   [Plain EXCEPT !.op = "lst", !.ntags = 2, !.mode = "bad"],
   [Plain EXCEPT !.op = "lst", !.ntags = 1, !.mode = "none"],
   [Plain EXCEPT !.op = "nfo"], [Plain EXCEPT !.op = "nfo", !.klen = 1]}

(* A request whose answer has a body, and one whose body may not fit. *)
GetAndList ==
  {[Plain EXCEPT !.op = "get", !.klen = 1], [Plain EXCEPT !.op = "lst", !.ntags = 1, !.mode = "match"]}

NoOrTwo == {0, 2}
=============================================================================
