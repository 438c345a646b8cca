------------------------------ MODULE MCMaster -------------------------------
(* Small instances of Master for TLC: two services, s1 and s2, on two       *)
(* addresses.                                                               *)
EXTENDS Master

CONSTANTS s1, s2, u1, u2

Service1(us, n) == s1 :> [uris |-> us, limit |-> n]
Service2(us, n) == s2 :> [uris |-> us, limit |-> n]
NoService1 == Service1(<<>>, 0)
NoService2 == Service2(<<>>, 0)

(* One service with two processes; its address taken over by the other      *)
(* service, with one more; both on one address, which is an error.          *)
TwoServices == {Service1(<<u1>>, 2) @@ NoService2,
                NoService1 @@ Service2(<<u1, u2>>, 1),
                Service1(<<u1>>, 1) @@ Service2(<<u1>>, 1)}

(* One service with two processes; a load that fails takes it away.         *)
OneService == {Service1(<<u1>>, 2)}
=============================================================================
