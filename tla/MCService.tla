------------------------------ MODULE MCService ------------------------------
(***************************************************************************)
(* Instances of Service for TLC.                                           *)
(***************************************************************************)
EXTENDS Service

MCServer == {"http server", "grpc server"}

CONSTANTS k1, k2

MCStopper == {k1, k2}

\* A server over a database, a Redis client that two components share and a
\* broker, given in an order far from that of the stages; two servers; none.
MCPrograms ==
    { [with |-> <<"grpc server", "messaging", "session", "iam", "cache", "database">>,
       stoppers |-> {k1, k2}, patient |-> {k1}],
      [with |-> <<"http server", "observability", "grpc server">>, stoppers |-> {k1}, patient |-> {k1}],
      [with |-> <<"messaging">>, stoppers |-> {k1, k2}, patient |-> {k1}] }
=============================================================================
