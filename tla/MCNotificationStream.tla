----------------------- MODULE MCNotificationStream -----------------------
(* Small instances of NotificationStream: one tab in a group, or a second  *)
(* one outside it.                                                         *)
EXTENDS NotificationStream, TLC

CONSTANTS t1, t2, g1

OneTab == [t \in {t1} |-> Nothing]
TwoTabs == (t1 :> g1) @@ (t2 :> Nothing)

Symmetric == Permutations(Messages) \union Permutations(Conns)
=============================================================================
