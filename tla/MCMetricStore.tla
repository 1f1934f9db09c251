--------------------------- MODULE MCMetricStore ----------------------------
(* A small instance of MetricStore: one series with two tags.              *)
EXTENDS MetricStore

CONSTANTS n1, n2, s1, t1, t2

MCTagsOf == [s \in Series |-> {t1, t2}]
=============================================================================
