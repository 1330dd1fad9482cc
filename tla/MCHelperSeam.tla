---------------------------- MODULE MCHelperSeam ----------------------------
(* The helper seam on a small instance. *)
EXTENDS HelperSeam

Kind(band, len, tail, parses) == [band |-> band, len |-> len, tail |-> tail, parses |-> parses]

\* One-report and two-report priority frames, bulk that fits a queued slot,
\* bulk that does not, and a header that does not parse.
Kinds == {Kind("priority", 1, 1, TRUE), Kind("priority", 2, 2, TRUE),
          Kind("bulk", 2, 1, TRUE), Kind("bulk", 3, 2, TRUE),
          Kind("bulk", 1, 1, FALSE)}
=============================================================================
