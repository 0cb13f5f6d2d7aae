----------------------------- MODULE MCSessions -----------------------------
(* Small deployments of Sessions: one replica with two users, one that may *)
(* fail, two replicas with one user, and two where the entry of a request  *)
(* may go before it calls the other: with two users, whose entries evict   *)
(* each other, and with one that logs out meanwhile.                       *)
EXTENDS Sessions

CONSTANTS r1, r2, u1, u2, b1, b2

UserOf  == [b \in {b1, b2} |-> IF b = b1 THEN u1 ELSE u2]
Sticky  == [b \in {b1, b2} |-> r1]
(* One replica, two requests at a time.                                    *)
OnePod(users, rotating, reaping, failures, count) ==
  [replicas |-> {r1}, browsers |-> users, rotates |-> rotating, parallel |-> 2,
   turnover |-> TRUE, reaps |-> reaping, faults |-> failures, tokens |-> count]
(* Two, and one browser that sends one request after the other.            *)
TwoPods(rotating, failures) ==
  [replicas |-> {r1, r2}, browsers |-> {b1}, rotates |-> rotating, parallel |-> 1,
   turnover |-> TRUE, reaps |-> FALSE, faults |-> failures,
   tokens |-> IF rotating THEN 3 ELSE 2]
(* Two, and two requests at a time, of one user or of two.                 *)
Beside == [TwoPods(FALSE, 0) EXCEPT !.parallel = 2]
Shared == [Beside EXCEPT !.browsers = {b1, b2}, !.turnover = FALSE]
Deployed ==
  {OnePod({b1, b2}, FALSE, FALSE, 0, 2), OnePod({b1}, TRUE, FALSE, 0, 3),
   OnePod({b1}, TRUE, TRUE, 0, 2), OnePod({b1}, TRUE, FALSE, 1, 2),
   TwoPods(TRUE, 1), Beside, Shared}
OneByOne == {TwoPods(TRUE, 0)}
=============================================================================
