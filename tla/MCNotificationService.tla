----------------------- MODULE MCNotificationService -----------------------
(***************************************************************************)
(* An instance of NotificationService: two users, three notifications, a   *)
(* page that holds two of them, two concurrent requests.  A bulk of two    *)
(* shows a partly stored bulk; a bulk of one leaves an id for the other    *)
(* worker's bulk.                                                          *)
(***************************************************************************)
EXTENDS NotificationService, TLC

CONSTANTS w1, w2, ann, bob

TwoWorkers == {w1, w2}
TwoUsers == {ann, bob}
ThreeIds == 1 .. 3
OneOrTwo == {<<ann>>, <<ann, bob>>}
Symmetric == Permutations(TwoWorkers)
=============================================================================
