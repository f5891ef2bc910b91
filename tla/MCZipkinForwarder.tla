-------------------------- MODULE MCZipkinForwarder --------------------------
(* ZipkinForwarder for TLC: three sampled spans and one that is not, a       *)
(* channel of one span, batches of two.                                      *)
EXTENDS ZipkinForwarder

CONSTANTS s1, s2, s3, quiet

MCSpans == {s1, s2, s3, quiet}
MCUnsampled == {quiet}
=============================================================================
