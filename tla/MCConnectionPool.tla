---------------------------- MODULE MCConnectionPool ----------------------------
(* Three checkouts for two permits, of which one at a time may open a connection. *)
EXTENDS ConnectionPool

CONSTANTS t1, t2, t3

MCCheckouts == {t1, t2, t3}

MCMinPoolSizes == {0, 1}
=============================================================================
