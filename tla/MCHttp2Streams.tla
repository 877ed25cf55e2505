---------------------------- MODULE MCHttp2Streams ----------------------------
(* Plain dependencies on a stream that may be idle, open, closed or gone, and *)
(* exclusive ones on the root, of equal weight.  A dependency on a stream     *)
(* that is gone is replaced by the default, a plain one on the root.          *)
EXTENDS Http2Streams

Specs == {[DefaultSpec EXCEPT !.stream_id = 3], [DefaultSpec EXCEPT !.exclusive = TRUE]}
===============================================================================
